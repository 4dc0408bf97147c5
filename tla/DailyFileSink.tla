--------------------------- MODULE DailyFileSink ---------------------------
(***************************************************************************)
(* br_logger::DailyFileSink: one file per calendar day, old files deleted. *)
(* The code asks for the time three times in one Write (to see whether the *)
(* day has changed, to name the new file, to age the old ones), and the    *)
(* clock moves between these calls, so each is a step.                     *)
(*                                                                         *)
(* Between calls of Write the clock may also be set, forwards or back, and *)
(* the process may be killed at any step and started again: the            *)
(* constructor opens the file of the day and cleans up as Write does.      *)
(*                                                                         *)
(* open, opendir, stat and unlink may fail, and write may fail or write    *)
(* only a part (MaxFaults of these in all); the code looks at none of the  *)
(* results but those of open and opendir.                                  *)
(*                                                                         *)
(* Time is counted in ticks, DayLength of them a day.  A file is known by  *)
(* the day in its name; its content is the sequence of entries whose text, *)
(* or a part of it, was written to it.  Entries the sink's level or an     *)
(* empty format rejects change nothing and are left out, and so are other  *)
(* files of the directory.                                                 *)
(***************************************************************************)
EXTENDS Integers, Sequences, FiniteSets, SequencesExt

CONSTANTS
    DayLength,      \* 86400 in the code
    max_days,       \* max_days_; 0 keeps everything
    MaxTime,        \* bound: the clock
    MaxWrites,      \* bound: calls of Write
    MaxFaults,      \* bound: failing system calls
    MaxSets,        \* bound: how often the clock is set
    MaxRestarts     \* bound: restarts of the process

ASSUME TimesAssumption == DayLength \in Nat \ {0} /\ max_days \in Nat
ASSUME LimitsAssumption ==
    {MaxTime, MaxWrites, MaxFaults, MaxSets, MaxRestarts} \subseteq Nat

VARIABLES
    clock,          \* std::time(nullptr)
    files,          \* the directory: a function from days to contents
    mtime,          \* st_mtime of each file
    fd,             \* the day of the file fd_ is open on, or -1
    current_day,    \* current_day_
    pc,             \* where the constructor or Write is
    constructing,   \* it is the constructor
    expired,        \* files the loop of CleanupOldFiles still has to unlink
    writes,         \* calls of Write: also the id of the current entry
    faults, sets, restarts,
    setBack,        \* history: the clock was set back at least once
    failed,         \* history: open or write failed at least once
    skipped,        \* history: the last CleanupOldFiles left a file it should not
    since,          \* history: the clock when the current call began
    lost,           \* history: ids whose text is not whole in a file
    cut             \* history: those of them whose Write was cut short by a kill

counters == <<faults, sets, restarts>>
history == <<setBack, failed, skipped, since, lost, cut>>
vars == <<clock, files, mtime, fd, current_day, pc, constructing, expired, writes, counters,
          history>>

Days == 0..(MaxTime \div DayLength)

GetDay(t) == t \div DayLength

\* Mutant: the name repeats, as it would without the year.
MakeFilenameRepeats(t) == (t \div DayLength) % 3

\* The date in the name; base_dir_ and base_name_ are the same for all files.
MakeFilename(t) == t \div DayLength

\* Mutants: `>=`; a day more is kept.
ExpiredEarly(t) == {d \in DOMAIN files : t - mtime[d] >= max_days * DayLength}
ExpiredLate(t) == {d \in DOMAIN files : t - mtime[d] > (max_days + 1) * DayLength}

\* CleanupOldFiles at time t unlinks what was last written too long ago.
Expired(t) == {d \in DOMAIN files : t - mtime[d] > max_days * DayLength}

\* A system call fails.
Fault == faults < MaxFaults /\ faults' = faults + 1
NoFault == UNCHANGED faults

\* The constructor is entered, with an empty directory, on day 0.
Init ==
    /\ clock = 0
    /\ files = [d \in {} |-> << >>]
    /\ mtime = [d \in {} |-> 0]
    /\ fd = -1
    /\ current_day = -1
    /\ pc = "open"
    /\ constructing = TRUE
    /\ expired = {}
    /\ writes = 0
    /\ faults = 0 /\ sets = 0 /\ restarts = 0
    /\ setBack = FALSE /\ failed = FALSE /\ skipped = FALSE
    /\ since = 0
    /\ lost = {} /\ cut = {}

\* One call lasts at most a day.
Tick ==
    /\ clock < MaxTime
    /\ pc # "idle" => clock < since + DayLength
    /\ clock' = clock + 1
    /\ UNCHANGED <<files, mtime, fd, current_day, pc, constructing, expired, writes, counters,
                   history>>

\* The administrator or a time service sets the clock while no call runs.
SetClock(t) ==
    /\ pc = "idle"
    /\ sets < MaxSets
    /\ t # clock
    /\ clock' = t
    /\ sets' = sets + 1
    /\ setBack' = (setBack \/ t < clock)
    /\ UNCHANGED <<files, mtime, fd, current_day, pc, constructing, expired, writes, faults,
                   restarts, failed, skipped, since, lost, cut>>

\* The id of an entry whose text is still to be written.
Unwritten == IF constructing \/ pc \in {"idle", "newline"} THEN {} ELSE {writes}

\* The process ends, wherever it is, and the next one constructs its sink.
Restart ==
    /\ restarts < MaxRestarts
    /\ restarts' = restarts + 1
    /\ fd' = -1
    /\ current_day' = -1
    /\ pc' = "open"
    /\ constructing' = TRUE
    /\ expired' = {}
    /\ since' = clock
    /\ lost' = lost \cup Unwritten
    /\ cut' = cut \cup Unwritten
    /\ UNCHANGED <<clock, files, mtime, writes, faults, sets, setBack, failed, skipped>>

-----------------------------------------------------------------------------
(***************************************************************************)
(* Write.                                                                  *)
(***************************************************************************)
\* Mutant: a day earlier than the current one is not noticed.
CheckLaterDay ==
    /\ pc = "idle"
    /\ writes < MaxWrites
    /\ writes' = writes + 1
    /\ since' = clock
    /\ pc' = IF GetDay(clock) > current_day THEN "open" ELSE "payload"
    /\ UNCHANGED <<clock, files, mtime, fd, current_day, constructing, expired, counters,
                   setBack, failed, skipped, lost, cut>>

\* The first look at the clock.
CheckDay ==
    /\ pc = "idle"
    /\ writes < MaxWrites
    /\ writes' = writes + 1
    /\ since' = clock
    /\ pc' = IF GetDay(clock) # current_day THEN "open" ELSE "payload"
    /\ UNCHANGED <<clock, files, mtime, fd, current_day, constructing, expired, counters,
                   setBack, failed, skipped, lost, cut>>

\* The constructor returns to its caller, OpenFileForToday to Write.
AfterOpen == IF constructing THEN "idle" ELSE "payload"

\* O_CREAT without O_TRUNC: a file that exists is kept as it is.
Created(f, d, new) == [e \in DOMAIN f \cup {d} |-> IF e \in DOMAIN f THEN f[e] ELSE new]

\* OpenFileForToday, at the second look: the old file is closed, the file of
\* the day is opened or created; current_day_ is set even if that fails.
OpenFileForToday ==
    /\ pc = "open"
    /\ current_day' = GetDay(clock)
    /\ pc' = IF max_days > 0 THEN "cleanup" ELSE AfterOpen
    /\ constructing' = (constructing /\ max_days > 0)
    /\ LET d == MakeFilename(clock) IN
         \/ /\ fd' = d
            /\ files' = Created(files, d, << >>)
            /\ mtime' = Created(mtime, d, clock)
            /\ NoFault /\ UNCHANGED failed
         \/ /\ fd' = -1
            /\ Fault /\ failed' = TRUE
            /\ UNCHANGED <<files, mtime>>
    /\ UNCHANGED <<clock, expired, writes, sets, restarts, setBack, skipped, since, lost, cut>>

\* CleanupOldFiles, at the third look; without a directory it returns at once.
\* What is not expired stays, also if stat fails, and needs no step.
CleanupOldFiles ==
    /\ pc = "cleanup"
    /\ \/ /\ expired' = Expired(clock)
          /\ pc' = "unlink"
          /\ skipped' = FALSE
          /\ NoFault /\ UNCHANGED constructing
       \/ /\ pc' = AfterOpen /\ constructing' = FALSE
          /\ skipped' = TRUE
          /\ Fault /\ UNCHANGED expired
    /\ UNCHANGED <<clock, files, mtime, fd, current_day, writes, sets, restarts, setBack,
                   failed, since, lost, cut>>

\* A turn of the loop, in the order of readdir, for a file that is too old;
\* stat or unlink may fail.
UnlinkExpired(d) ==
    /\ pc = "unlink"
    /\ expired' = expired \ {d}
    /\ \/ /\ files' = Restrict(files, DOMAIN files \ {d})
          /\ mtime' = Restrict(mtime, DOMAIN files \ {d})
          /\ NoFault /\ UNCHANGED skipped
       \/ Fault /\ skipped' = TRUE /\ UNCHANGED <<files, mtime>>
    /\ UNCHANGED <<clock, fd, current_day, pc, constructing, writes, sets, restarts,
                   setBack, failed, since, lost, cut>>

CleanupReturn ==
    /\ pc = "unlink" /\ expired = {}
    /\ pc' = AfterOpen
    /\ constructing' = FALSE
    /\ UNCHANGED <<clock, files, mtime, fd, current_day, expired, writes, counters, history>>

\* Write returns early when there is no descriptor.
WriteClosed ==
    /\ pc = "payload" /\ fd = -1
    /\ lost' = lost \cup {writes}
    /\ pc' = "idle"
    /\ UNCHANGED <<clock, files, mtime, fd, current_day, constructing, expired, writes,
                   counters, setBack, failed, skipped, since, cut>>

\* ::write of the text: all of it, a part, or nothing.  Through an unlinked file
\* it reaches nothing.
WritePayload ==
    /\ pc = "payload" /\ fd # -1
    /\ \E written \in {"all", "part", "nothing"} :
         /\ IF written = "all" THEN NoFault /\ UNCHANGED failed ELSE Fault /\ failed' = TRUE
         /\ IF fd \in DOMAIN files /\ written # "nothing"
            THEN /\ files' = [files EXCEPT ![fd] = Append(@, writes)]
                 /\ mtime' = [mtime EXCEPT ![fd] = clock]
            ELSE UNCHANGED <<files, mtime>>
         /\ lost' = IF fd \in DOMAIN files /\ written = "all" THEN lost
                    ELSE lost \cup {writes}
    /\ pc' = "newline"
    /\ UNCHANGED <<clock, fd, current_day, constructing, expired, writes, sets, restarts,
                   setBack, skipped, since, cut>>

\* ::write of the newline, without which two lines run together.
WriteNewline ==
    /\ pc = "newline"
    /\ \/ /\ mtime' = [d \in DOMAIN mtime |-> IF d = fd THEN clock ELSE mtime[d]]
          /\ NoFault /\ UNCHANGED failed
       \/ Fault /\ failed' = TRUE /\ UNCHANGED mtime
    /\ pc' = "idle"
    /\ UNCHANGED <<clock, files, fd, current_day, constructing, expired, writes, sets,
                   restarts, setBack, skipped, since, lost, cut>>

Next ==
    \/ Tick \/ \E t \in 0..MaxTime : SetClock(t)
    \/ Restart
    \/ CheckDay \/ OpenFileForToday
    \/ CleanupOldFiles \/ (\E d \in expired : UnlinkExpired(d)) \/ CleanupReturn
    \/ WriteClosed \/ WritePayload \/ WriteNewline

Spec == Init /\ [][Next]_vars

-----------------------------------------------------------------------------
(***************************************************************************)
(* Properties.                                                             *)
(***************************************************************************)
\* The type invariant.
TypeOK ==
    /\ clock \in 0..MaxTime
    /\ DOMAIN files \subseteq Days /\ DOMAIN mtime = DOMAIN files
    /\ \A d \in DOMAIN files :
          files[d] \in Seq(1..MaxWrites) /\ mtime[d] \in 0..MaxTime
    /\ fd \in Days \cup {-1}
    /\ current_day \in Days \cup {-1}
    /\ pc \in {"idle", "open", "cleanup", "unlink", "payload", "newline"}
    /\ constructing \in BOOLEAN
    /\ expired \subseteq DOMAIN files
    /\ writes \in 0..MaxWrites
    /\ faults \in 0..MaxFaults /\ sets \in 0..MaxSets /\ restarts \in 0..MaxRestarts
    /\ setBack \in BOOLEAN /\ failed \in BOOLEAN /\ skipped \in BOOLEAN
    /\ since \in 0..MaxTime
    /\ lost \subseteq 1..MaxWrites /\ cut \subseteq 1..MaxWrites

\* The file an entry goes to is named for a day that the call of Write saw:
\* not before the day it began on, not after the day it ended on, however
\* midnight falls between the looks at the clock and however the clock was
\* set before.
EntryInFileOfItsDay ==
    [][pc = "payload" /\ pc' = "newline" =>
         \A d \in DOMAIN files' : writes \in ToSet(files'[d]) =>
             GetDay(since) <= d /\ d <= GetDay(clock)]_vars

\* An entry is lost only when open or write failed or the process was killed
\* while writing it: cleaning up, complete or not, never removes the file that
\* is being written, also when a restart makes it an old file that is opened
\* again.  (A clock that is set back can bring the sink back to a file that its
\* cleaning up has unlinked.)
LostOnlyByFailure == ~failed /\ ~setBack => lost = cut

\* What is on disk, read by the days in the file names, is in the order it was
\* written, with no entry twice, unless the clock was set back.
DaysInOrder ==
    ~setBack =>
    \A d, e \in DOMAIN files : \A i \in DOMAIN files[d], j \in DOMAIN files[e] :
        d < e \/ (d = e /\ i < j) => files[d][i] < files[e][j]

\* Old files do not pile up: in between calls there is one file for each of the
\* last max_days_ days, one of the current day and one that was written to
\* across midnight, also after restarts in the middle of cleaning up and days
\* without an entry, and whatever earlier calls of CleanupOldFiles could not
\* unlink.  (When opendir, stat or unlink fails in the last one, its files stay.)
FilesBounded ==
    max_days > 0 /\ ~setBack /\ ~skipped /\ pc = "idle" =>
        Cardinality(DOMAIN files) <= max_days + 2
=============================================================================
