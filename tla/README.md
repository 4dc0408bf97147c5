# Verification of br_logger

TLA+ models of `br_logger_core`, the TLC runs that check them on small
instances, and TLAPS proofs, for every size of the constants, of every safety
property that the passing runs check.
Paths are relative to `src/`; `core/` stands for `br_logger_core/`.

## 1. The system

A thread that logs fills a `LogEntry` on its stack and pushes it into a bounded
lock-free ring; a worker thread pops entries in batches and hands each one to
every sink in turn.

| Component | State | Operations | Talks to |
|---|---|---|---|
| Ring `core/include/br_logger/ring_buffer.hpp` | slots (`sequence`, `data`), `write_pos_`, `read_pos_` | `TryPush` (any thread), `TryPop`, `Empty` (one consumer) | called by the backend |
| Backend `core/src/backend.cpp` | `ring_`, `sinks_`, `running_`, `worker_` | `TryPush`, `AddSink`, `Start`, `Stop`, `Drain`, `WorkerLoop` | ring, sinks |
| Logger and macros `core/src/logger.cpp`, `core/include/br_logger/logger.hpp` | `level_`, `sequence_`, `drop_count_`, `started_`, a static per `LOG_ONCE`/`LOG_EVERY_N` site | the macros, `LogImpl`, `SetLevel`, `Start`, `Stop`, `Drain`, `ResetDropCount` | backend, context |
| Context `core/src/log_context.cpp` | `global_tags_` (mutex), `tls_tags_` per thread | set/remove global tag, `ScopedTag`, `FillTags` | called by `LogImpl` |
| Rotating file sink | `fd_`, `current_size_`, files on disk | `Write`, `Rotate`, `OpenFile` | file system |
| Daily file sink | `fd_`, `current_day_`, files on disk | `Write`, `OpenFileForToday`, `CleanupOldFiles` | file system, clock |
| Ring memory sink | `buffer_`, `head_`, `count_` | `Write`, `At`, `DumpToFile` | - |
| Pattern formatter | `pattern_`, `ops_` | `CompilePattern` once, `Format` into a buffer of 2048 bytes | called by sinks |
| JSON formatter | `pretty_` | `Format` into the same buffer | called by sinks |
| Sink interface `sink_interface.hpp` | `formatter_`, `min_level_`, `format_buf_` | `SetFormatter`, `SetLevel`, `ShouldLog`, `DoFormat` | formatters |
| Console, callback, ROS2 sinks | `use_color_`; none; none | `Write` | streams, the user's function, rcutils |
| UART sink; ROS2 bridge | none | none; `init`, `shutdown` | logger, context |

What is hard here: producers and the consumer interleave at every atomic access
of the ring, and 32-bit positions wrap; `Stop` races threads that are still
logging; two flags (`started_`, `running_`) have early returns that must agree;
scoped tags are popped by key and not by identity; a rotation is a chain of
system calls that may fail or be cut short; a daily file sink looks at the
clock three times in one call, and the clock may have been set since the last;
formatters cut a line at any byte, and the length they go by was computed
before the message was cut. `PROJECT.json` lists these hazards line by line.

What makes each part correct: the ring is a bounded FIFO queue that never lets
two threads touch one payload, refuses only when full, and never makes a
producer wait; the backend gives every popped entry to every sink once and in
order, and `Stop` returns having delivered what was readable; the logger
accounts for every id and keeps each thread's order; an entry carries the tags
in force; files hold the most recent entries in order, each in the file of its
day; a pattern means what its characters say, and a line that was cut neither
looks complete nor shows what the message does not hold.

## 2. Modules

| Module | Models | Composition |
|---|---|---|
| `MPSCQueue` | what the ring promises: cells that are claimed, then published, then popped in order | abstract specification |
| `MPSCRingBuffer` | `MPSCRingBuffer` | implements `MPSCQueue` |
| `LoggerBackend` | `LoggerBackend` | instantiates `MPSCQueue` as its ring |
| `Logger` | `Logger`, the macros | instantiates `LoggerBackend` |
| `LogContext` | `LogContext`, `FixedVector` | - |
| `RotatingFileSink`, `DailyFileSink`, `RingMemorySink` | the sinks of that name | - |
| `Sinks` | `Dispatch` into the `Write` of a memory and a rotating file sink | extends both |
| `PatternFormatter` | `CompilePattern` and `Format`, with a reference definition of what a pattern means, on the table of directives in `README.md` | - |
| `JsonFormatter` | `Format`, `EscapeJsonString`, `safe_append` | - |
| `LogLine` | step 6 of `LogImpl`, `ILogSink`, `ConsoleSink`, `CallbackSink`, `ROS2Sink` | instantiates both formatters |
| `M_proofs` for `M` the ring, backend, logger, context, file and memory sinks, and log line | - | theorems about `M`; `Logger_proofs` instantiates `LoggerBackend_proofs`, `LogLine_proofs` is about both formatters too |

An `MC...` module holds the symmetry or the constant definitions of its runs.
Definitions keep the source's names, and variables are the fields without their
trailing underscore. Variables marked *history* in a module are read by no
guard. Definitions with a comment that starts with `Mutant` are wrong variants
of the definition that follows; no specification uses them. They show that
each property notices a plausible mistake.

### MPSCRingBuffer

One step per shared access: `LoadPos`, the load of the slot's sequence and the
branch on it (`SlotFree`, `SlotFull`, `SlotStale`), `Reload`, `CasOk`/`CasFail`
(which may fail spuriously, being weak), `WriteData`, `Publish`; for the
consumer `PopCheck`, `CopyData`, `ReleaseSlot`. A failing `TryPop` changes
nothing and is no step. Positions are taken modulo `Modulus` (2^32 in the code)
and compared wrapped, as the code does. `Start` begins a behaviour in the state
that as many pushes and pops leave, which reaches the wrap-around cheaply.

Memory is sequentially consistent: the load and store orders of the code are
not weakened. The only plain data is `slot.data`, and `NoDataRace` shows that
no interleaving brings two accesses to it together.

### LoggerBackend and Logger

`where` says what the worker and the application thread are doing, and `batch`
is the state of the `Drain` each is in. A pop, each sink's `Write`, and the return
of `Dispatch` are separate steps. The contract of the repository's README is kept by
the application thread (`AddSink` before `Start`, `Drain` only without a worker);
loggers may push at any time, before `Start` and during `Stop` too. `Wraps` says whether
the ring's positions may pass 2^32: a stale position then makes `TryPush` refuse an
entry although there is room, so `PushFull` may happen at any time. `Logger`
adds the macros' gates, the level check, ids and drop counting, and a
destructor that runs when no thread is logging any more.

### LogContext

Operations on global tags hold the mutex and are one step. A key is a name and
whether it is longer than the 31 characters that are stored; a long key is
stored cut and never compares equal to what is stored. `scopes` are the live
`ScopedTag` objects of each thread.

### Sinks

`RotatingFileSink` has one step per system call, so that `Restart` can fall
between any two; `open`, `rename` and `write` fail (or write in part) up to
`MaxFaults` times. A file is its size, which decides on rotation, and the ids of
the entries in it.

`DailyFileSink` lets the clock `Tick` between the calls of `time()`, lets it be set
between calls of `Write` (`SetClock`), and may be killed anywhere and constructed
again (`Restart`); one call lasts at most a day. The two writes of a line and each
`unlink` of `CleanupOldFiles` are steps of their own. `open`, `opendir`, `stat` and `unlink` may fail,
and a write may fail or be partial; the code ignores all of it but a failing
`open` (no descriptor) and `opendir` (no cleaning up). An entry is `lost` when its text
is not whole in a file, whether a failure or a kill did it. Three conditions
stand in the properties because the code needs them. After the clock was set
back (`setBack`) the sink may come back to a day whose file it has unlinked while its
descriptor is still open, so all but `EntryInFileOfItsDay` speak of clocks that were not.
`LostOnlyByFailure` speaks of behaviours in which no `open` and no write failed, and excepts
the entries whose `Write` a kill cut short (`cut`). `FilesBounded` speaks of times when nothing
failed in the last cleaning up (`skipped`): what earlier ones left is then gone.

`RingMemorySink` separates the three assignments of `Write` from the lines of
`DumpToFile`. `Sinks` puts it in front of a rotating file sink in one backend: an entry goes
through the one and then the other, the dump runs on another thread, and a kill
ends both. Each of its steps is one of the one sink, of the other, or, for a
restart, of both, so the theorems about either hold in it.

### LogLine, PatternFormatter, JsonFormatter

`LogLine` follows one entry from `LogImpl` through `ConsoleSink::Write` (level,
formatter made on demand, `DoFormat`, output) to a callback and a ROS2 sink. It
instantiates both formatters; which one is used is chosen in `Init`. The
console's buffer takes many sizes in place of 2048, so that short texts are cut
at every place.

`PatternFormatter` takes one step per turn of the scanner's loop
(`ScanChar`, `ScanLonePercent`, `ScanDirective`, `ScanEscaped`, `ScanUnknown`) and one
per operation of `Format`. Pattern characters are themselves; of the texts an
operation appends only the length is kept. `CompiledAsMeant` compares the scan,
at every point, with a definition that looks at each position of the pattern by
itself (the parity of the run of `%` that ends there), and that takes the meaning
of a directive from the table in the repository's `README.md` (`Documented`), not from the code's
switch. On four characters the two lists disagree (`Disputed`: the table has `%r` and `%s`,
the code `%k` and `%q`), and `CompiledAsMeant` leaves patterns with those out;
`CompiledAsDocumented`, which does not, is violated.

In `JsonFormatter` a character is the width of its escape (1, 2 or 6).
Consecutive literal appends are one piece; the pieces run from the last tag's
key to the end of the line, with their real lengths, compact and pretty, and
without the tag's when there is none. What stands in front of that tag is one
literal text, although there are escaped texts in it (file, function, thread,
earlier tags); those are cut as the last key and value are, between literals
of the same kind.

A message is the sequence of its characters. `LogImpl` stores the first
`MaxMsgLen - 1` and computes `msg_len`, modulo 2^16, as the code does in each of
its branches; what a reader finds behind the stored characters is arbitrary.

## 3. Runs

| Run | Bounds | Shows |
|---|---|---|
| `ring` | 3 producers, 2 calls each, 2 slots, modulus 8, start at 3 | `TypeOK`, `RingInv`, `NoDataRace`, `ImplementsQueue`, `ClaimedIsPopped` across the wrap; `RefusedOnlyWhenFull` and `PushReturns` up to it |
| `ring_wrap_full` | 1 producer, start at 6 of 8 | **violation** of `AllPushesReturn` |
| `backend` | with and without a worker; no wrap of positions (`logger` has it, and the theorems hold for both); 2 loggers, 2 pushes each, ring of 2, 2 sinks, batches of 1, 2 starts | `TypeOK`, `SingleConsumer`, `EverySinkEveryEntry`, `StopDelivers`, `StopCompletes`, `DeliveredWhileRunning` |
| `backend_stop_leaves` | 1 sink, 1 start | **violation** of `StopDrainsRing` |
| `logger` | 2 threads, 2 macros each of 3 kinds, 2 levels, ring of 2, batches of 2, wrapping positions | `StartedIsRunning`, `IdsAccounted`, `PerThreadOrder`, `DestroyDrains`, `SitesLimit` |
| `context` | 1 thread, depth 5, 2 keys, 3 places, 2 global | `TypeOK`, `GlobalTagsAreMap`, `ScopesAreTags`, `NoTagOutlivesScope`, `EntryCarriesContext` |
| `context_long_key` | a key longer than 31 | **violation** of `TagsRemovedWithScope` |
| `sinks` | 2 old files, 4 writes of 3 lengths (one too long for any file), 1 kill, 1 fault; 5 entries in a memory of 2 places, 1 dump | `TypeOK`, `SizeTracked`, `EntriesInOrder`, without a fault also `NoHole`, `FilesBounded`; `MemoryTypeOK`, `HoldsMostRecent`, `DumpIsSnapshot` |
| `daily` | 4 days of 2 ticks, 3 writes, 1 failing or partial system call, the clock set once, 1 restart | `LostOnlyByFailure`, `DaysInOrder`, `FilesBounded`, `EntryInFileOfItsDay` |
| `format` | 47 patterns and the default one, 8 messages of up to 9 characters, 4 contents (one without tags), 20 buffer sizes, 2 levels | `CompiledAsMeant`, `LineFits`, `ClosedMeansComplete`, `ColourIsReset`, `LiteralShownIsStored` |
| `directives_documented` | 3 patterns | **violation** of `CompiledAsDocumented` |
| `message_too_long` | no patterns, one buffer size | **violation** of `ShownIsStored` |

Why the bounds are enough to be of interest: two slots with three producers is
the smallest ring in which a producer can be more than a turn behind; two
pushes per logger over a ring of two reach full, refused, unpublished-head and
several-batch states; depth 5 over 3 places overflows two
scopes and nests equal keys around them (threads share nothing but the global
tags, which every step takes whole); a ring of two
holds entries of both threads, or two of one, at once, in front of a third that
is refused; 4 writes push
entries out of the oldest file, and 5 entries turn a memory of 2 places twice; 3
writes over 4 days let a file grow old while another is in use, and at
`max_days` = 1 make cleaning up necessary more than once; 6 calls from position 3 pass the
modulus 8 in the middle of a behaviour; all patterns of up to 3
of `%`, a directive and an unknown one contain every pair of neighbours the
scanner distinguishes, and the longer ones put runs of 3 and 4 `%` in front of
text, a directive and the end; messages are shorter than, as long as, longer
than what an entry stores (2) and longer than `msg_len` counts (8).

Deadlock is checked for the backend and the context, where some call is always
possible. It is not for the other modules, whose bounded inputs run out.

### Fairness

`PushReturns` assumes only that the one producer it speaks of keeps being
scheduled and that its `compare_exchange_weak` does not fail spuriously for
ever (strong fairness of `CasOk`: the standard asks implementations for no
more). `ClaimedIsPopped` adds that the consumer keeps calling `TryPop`, which
is what `WorkerLoop` does. `StopCompletes` assumes that the operating system
schedules the worker and the thread inside `Stop`, and nothing about loggers.
`DeliveredWhileRunning` adds that a logger which has claimed a cell publishes it.
Nothing obliges a thread to log.

### Violations: where code and documentation disagree

1. `ring_wrap_full`: after 2^32 pushes `seq < pos` compares wrapped values; on a
   full ring `TryPush` loops in place of returning false.
2. `backend_stop_leaves`: a push that is between claim and publication makes
   `Drain` return 0, and `Stop` returns with accepted entries behind it in the
   ring. `StopDelivers` states what does hold.
3. `context_long_key`: a scoped tag whose key exceeds 31 characters is never removed.
4. `directives_documented`: the README's `%r` and `%s`, thread name and sequence number, are
   unknown directives to the scanner and stand for themselves; it has `%k` and `%q`,
   which the README does not list. `CompiledAsMeant` states what does hold.
5. `message_too_long`: the length of a message with arguments is the one `snprintf`
   returns, before cutting; sinks that read by length show what lies behind
   `entry.msg`. `LiteralShownIsStored` states what does hold.

Four corner cases that the code admits are excluded by the statements of the
properties, and no run is spent on them: a ring of `Capacity` 1, which passes the
`static_assert`, takes a published slot for a free one (the theorems assume a
larger capacity, and the constants of `platform.hpp` are 256 and 8192); a scope
that found no room removes, when it closes, the tag of an outer scope with the
same key (`ScopesAreTags` says so), and since the last tag then moves into the
gap, scopes with equal keys that close next may end outermost first, so that an
entry carries the value of a scope that has closed (`EntryCarriesContext`
promises its key only; a first version that promised the value too was refuted
while its proof was attempted); with `max_files` = 0 the rotating sink reopens
the same file, which grows without limit (`FilesBounded` assumes `max_files` > 0); and with
`capacity` = 0, which its constructor accepts, `RingMemorySink::Write` indexes an empty vector and
divides by zero (`CapacityAssumption`).

A stale `pos` met at the wrap also makes `TryPush` refuse an entry while there
is room; `RefusedOnlyWhenFull` therefore speaks of steps before the wrap.

Three more behaviours have neither a run nor a place among the hazards: `SetLevel`
between the check of the level and the push lets an entry through (relaxed by
intent, and `LOG_ONCE` uses up its flag on an entry the level rejects);
`SetFormatter` on a sink that is already being written to replaces the formatter
under the worker; and with one of stdout and stderr on a terminal the other is
coloured too.

One difference was found while modelling for which there is no run: the README's
defaults of `BR_LOG_MAX_MSG_LEN` and `BR_LOG_MAX_TAGS` (512, 16) are 384 and 8 in `platform.hpp`.

## 4. Proofs

Each theorem holds for every value of the constants under the assumptions
named in the modules: any number of threads, any sizes, any number of calls
and, where the model has them, of kills, failures and settings of the clock.

| Module | Theorem | Statement |
|---|---|---|
| `MPSCRingBuffer_proofs` | `TypeCorrect` | `Spec => []TypeOK` |
| | `RingCorrect` | `Spec /\ []NoLap => []RingInv`, for capacities above 1 |
| | `FifoCorrect`, `NoDataRaceCorrect` | the same for `Fifo` and `NoDataRace` |
| | `ImplementsQueueCorrect` | the same for `ImplementsQueue`, the refinement of `MPSCQueue` |
| | `RefusedCorrect` | `Spec => RefusedOnlyWhenFull`, for capacities above 1 |
| `LoggerBackend_proofs` | `BackendTypeCorrect`, `SingleConsumerCorrect`, `EverySinkEveryEntryCorrect` | `Spec => []P`, `P` the property of that name |
| | `StopDeliversCorrect` | `Spec => StopDelivers` (an action property) |
| `Logger_proofs` | `ImplementsBackend` | `Spec` implies the specification of `LoggerBackend` |
| | `StartedIsRunningCorrect`, `SitesLimitCorrect`, `IdsAccountedCorrect`, `PerThreadOrderCorrect`, `DestroyDrainsCorrect` | `Spec => []P` |
| `LogContext_proofs` | `ContextTypeCorrect` | `Spec => []TypeOK` |
| | `ScopesAreTagsCorrect`, `NoTagOutlivesScopeCorrect`, `EntryCarriesContextCorrect`, `GlobalTagsAreMapCorrect` | `Spec => []P`, if no key exceeds 31 characters |
| `RotatingFileSink_proofs` | `RotatingTypeCorrect`, `SizeTrackedCorrect`, `EntriesInOrderCorrect`, `NoHoleCorrect`, `FilesBoundedCorrect` | `Spec => []P` |
| `DailyFileSink_proofs` | `LostOnlyByFailureCorrect`, `DaysInOrderCorrect`, `FilesBoundedCorrect` | `Spec => []P` |
| | `EntryInFileOfItsDayCorrect` | `Spec => EntryInFileOfItsDay` (an action property) |
| `RingMemorySink_proofs` | `SinkTypeCorrect`, `HoldsMostRecentCorrect`, `DumpIsSnapshotCorrect` | `MemorySpec => []P`, `P` being `MemoryTypeOK` in the first |
| `LogLine_proofs` | `PatternCompiledAsMeant`, `LinesFit`, `ClosedLinesComplete`, `LiteralsShownAsStored`, `ColoursAreReset` | `Spec => []P` for `CompiledAsMeant`, `LineFits`, `ClosedMeansComplete`, `LiteralShownIsStored`, `ColourIsReset` |

Three hypotheses go beyond the modules' assumptions. `NoLap`: no producer is
overtaken by 2^32 pushes between loading a position and its compare-exchange;
without it the compare-exchange can win with a position from a previous turn,
in the code as in the model. `Capacity > 1`: with one slot `pos + 1`, the
sequence of a published slot, is also that of a free slot at the next position.
`TRUE \notin Lengths`: keys fit; the run `context_long_key` shows what happens
when they do not. `RefusedOnlyWhenFull` itself speaks of steps from states in
which no position has wrapped (`NoWrap`); `ring_wrap_full` shows why it has to.

Of the modules' assumptions two say something of the code's constants and not
only of types. `LengthsAssumption`: `BR_LOG_MAX_MSG_LEN` (128 or 384) is at most 2^16, so
that the clamped length of a message does not wrap in a `uint16_t`.
`BuffersAssumption`: `format_buf_` (2048 bytes) is larger than 46, the bytes the console's
default pattern can take up to the end of its coloured level. In both the
proofs take any value that satisfies them.

Every inductive invariant below was also checked with TLC on the instance of the
component's run; `RingInv` is a property of `ring`.

*Ring.* `Fifo` says nothing of slots, so it is not inductive.
`RingInv` adds the correspondence between slots and unwrapped positions: with
`R` and `W` the unwrapped `read_pos_` and `write_pos_`, `R <= W <= R + Capacity`
(`PositionsInv`); the positions from `W` to `R + Capacity - 1` are open, each slot
carrying its position (`OpenInv`); those from `R` to `W - 1` are claimed, each slot
unpublished or published with the claimed item (`TakenInv`); a producer past its
compare-exchange holds one claimed position, alone (`HolderInv`); a producer
before it has a position that `write_pos_` had, and room if it is still current
(`PosInv`); the consumer inside `TryPop` has a published head (`ConsumerInv`).
The positions of the window `R..R+Capacity-1` name every slot once, which is
the arithmetic the lemmas `ModDistinct`, `ModMod` and `Window` provide. One
lemma per action then shows that the invariant is kept; the actions that touch
only locals share `LocalStep`. The refinement follows step by step: `CasOk` claims
a cell, `Publish` marks it, `ReleaseSlot` pops it, and all other steps leave the
mapped queue alone. Since `LoggerBackend` uses that queue as its ring, the
theorems about it are theorems about the ring in the code.

`RefusedCorrect` rests on the type invariant and a weaker fact about the window: before
any wrap no slot's sequence is behind the window's position for it, so a
producer that sees `seq < pos` looks at position `R + Capacity`. That a wrap is for
ever (`WrapIsForEver`) makes this an invariant of every behaviour: a state before
the wrap has only such states before it.

*Backend.* `SingleConsumer` needs to know which phases of the two threads go
together: `Stop` gets past `join` only when the worker is gone, and outside `Stop` a
worker exists only while `running_` is set (`PhaseInv`). `EverySinkEveryEntry` needs, for each
sink, that what it has received is what was popped since it was added, less the
entry in hand, and that the entry in hand is the last one popped (`SinksInv`).
`StopDelivers` needs `StopInv`: while `Stop` waits and drains, what it owes has been received,
is in hand, or stands in the ring with only published cells in front of it.

*Logger.* `ImplementsBackend` shows that the steps of `Logger` are steps of `LoggerBackend`, so
`BackendInv` holds in it without a second proof. On it rest `StartInv` (during `Stop`
`running_` is already reset), `SiteInv` (the flag of `LOG_ONCE` is set once an execution has
passed), `CountInv` (moving one thread changes the number of ids in flight by one
at most), `OrderInv` (each thread takes ids, begins pushes and claims places in the same
order, and no id is handed out twice) and `DestroyInv` (once the destructor is entered no
thread logs, so an unreadable cell, which belongs to a thread inside `TryPush` by
`ReadyInv`, cannot stop the last drain).

*Context.* `ScopeInv` gives each tag an open scope of its own with its key (`Owns`), such
that the outermost `p` scopes have their own tags in order and the next one has
none. Opening a scope keeps it (`OwnsPush`, `OwnsSkip`). When one closes, `PopScopedTag` may
take the tag that belongs to another scope of that key; that scope then takes
over the closing one's tag, and the order is kept in front of the gap (`OwnsHit`). By
the pigeonhole principle a thread with as many tags as scopes has `p` at its
greatest, which is `ScopesAreTags`; the injection alone gives `NoTagOutlivesScope` and the keys of
`EntryCarriesContext`. `GlobalTagsAreMap` is inductive once no two places hold the same key (`Distinct`).

*Rotating file sink.* `EntriesInOrder` needs that the entry being written is in no file yet
(`FreshInv`). The two properties about behaviours without a failing call need that a
rename then has a free place to move to (`GapInv`), that a file which is not empty
holds an entry (`FullInv`), and that what is to be written fits or the file is empty
(`RoomInv`).

*Daily file sink.* A call lasts at most a day and opens the file of a day it saw
(`CallInv`), and the entry being written is in no file yet (`FreshInv`). As long as the clock is not
set back each file was last written on its day or the next one (`AgeInv`). While, too, no
`open` or write has failed, the file in use is in the directory and not among those
still to be unlinked, or its day is over, which the next `Write` sees (`KeepInv`): the second case
is a constructor that opens an old, expired file just before midnight and unlinks
it after. What cleaning up leaves, the files it is still to unlink aside, reaches back at
most `max_days_ + 1` days, unless a call in it failed (`SpanInv`).

*Memory sink.* `Write` makes three assignments one by one; the invariant says how many
entries the buffer, `head_` and `count_` account for at each of them, and that entry `k`
sits in slot `(k - 1) % capacity_` until the write that needs the slot again begins.

*Log line.* Four invariants, each resting on those before it.

`CompileInv` relates the scan to the meaning of the characters it has consumed: what
the compiled operations and the pending literal stand for is the concatenation
of what each position emits by itself, and the character about to be read is
not introduced by a `%` in front of it. That meaning is stated with the code's own
switch; `TablesAgree` shows that the documented table is the same outside the four disputed
characters, which carries it over to the property. A position's meaning depends on the
parity of the run of `%` that ends before it; `RunStep` gives that parity one
position at a time, and one lemma per kind of turn of the scanner (`ScannedOne`,
`ScannedTwo`, `ScannedDirective`, `ScannedPercent`) shows that the turn appends exactly what its one or
two positions mean. It also needs that the operation compiled last is no literal
while the scan runs, so that a literal that is appended has no literal before it.

`EntryInv` is the type of the entry, that a message without arguments has its stored
length, and that a formatter is at work only when there is one and it is
compiled. It is inductive since a clamped length does not wrap.

`LineInv` describes the line while it is being written. For the pattern formatter
(`PatternLine`) the position is what was due so far, cut at the end of the buffer, and
an operation that was due before the end is there whole. For the JSON formatter
(`JsonLine`) that would be false: an escape that does not fit is dropped whole, and
later, shorter pieces may still fit behind it. What is kept is that a cut piece
in front of the message leaves less room than the widest escape, 6 bytes, and
none at all once the 9 or more bytes of `"},"msg":"` have been tried, so that the closing
`"}` cannot be copied whole. From it follow `LineFits` and `ClosedMeansComplete`; with `EntryInv` it bounds what
the console shows of the message, which is `LiteralShownIsStored`.

`ColourInv` follows the scan of the console's default pattern: at each of its turns up to
`%R`, which operations have been made, and after it that no later one starts a
colour. The texts up to that point take at most 46 bytes, so by `PatternLine` the reset is
there whole.

These proofs need induction over positions, and recursive functions on
sequences (`RunningWidth`, and the fold behind `FlattenSeq`). Induction is stated over a set of
numbers instead of a predicate (`Induction`): a set of counterexamples that is not empty
has a least element (`LeastExists`, from the library's `WFMin` and `NatLessThanWellFounded`, which take no operator).
That a recursive definition denotes the function it describes is shown by
proving that one exists, by that induction on its domain (`SumsExist`, `JoinsExist`).

Only model-checked: the liveness properties (`PushReturns`, `ClaimedIsPopped`, `StopCompletes`,
`DeliveredWhileRunning`), since the prover handles neither fairness nor `ENABLED`.

## 5. Not modelled

Weak memory; loss of the page cache in a power failure (`Flush` is a no-op in
the models of the file sinks); the clock being set while a call of `Write` runs;
two daily sinks in one directory; a memory sink of capacity 0; where exactly a
JSON line is cut in front of its last tag; the out-of-range NUL that the fmtlib build
writes behind a message that was cut; time stamps beyond the length of a
formatted date; process name, version, thread name and ids, which are plain
copies; which stream the console writes to; the UART sink, which has no
implementation; `ros2::init` and `shutdown`, which are calls of `AddSink`, `Start` and
`Stop` in the order that `Logger` is modelled with.

`TypeOK` of `Logger` and of `DailyFileSink` is in no run; it holds on the instances of
`logger` and `daily`. That of `DailyFileSink` is part of the invariant that is
proved; that of `Logger` documents the state.

## 6. What is left

Every invariant and every safety property of an action that a passing run
checks is stated by a theorem. What remains to be done: `TypeOK` of `Logger`, which no property needs;
two daily sinks in one directory, of which one with the other's name as a prefix
unlinks the other's files; weak memory for the ring.
