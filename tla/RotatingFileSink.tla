-------------------------- MODULE RotatingFileSink --------------------------
(***************************************************************************)
(* br_logger::RotatingFileSink: a log file that is moved aside when the    *)
(* next line would exceed max_file_size_, and the max_files_ older files.  *)
(* File 0 is base_path_; file i is base_path_.i.log.  One thread uses the  *)
(* sink, but each system call is a step of its own, because the process    *)
(* may be killed between any two of them and restart on the files it left  *)
(* behind.  open and rename may fail, and write may fail or write only a   *)
(* part (MaxFaults of these in all); fstat on the file just opened does    *)
(* not fail.                                                               *)
(*                                                                         *)
(* A file is its size, st_size, and the ids of the entries whose text, or  *)
(* a part of it, was written to it.  Entries that the sink's level or an   *)
(* empty format rejects change nothing and are left out.                   *)
(***************************************************************************)
EXTENDS Integers, Sequences, SequencesExt

CONSTANTS
    max_files,      \* max_files_
    max_file_size,  \* max_file_size_
    Lens,           \* lengths of formatted entries
    MaxWrites,      \* bound: calls of Write
    MaxCrashes,     \* bound: kills and restarts
    MaxFaults,      \* bound: failing open, rename and write calls
    Absent          \* a file that does not exist

ASSUME SizesAssumption == max_files \in Nat /\ max_file_size \in Nat
ASSUME LensAssumption == Lens \subseteq Nat \ {0}
ASSUME LimitsAssumption ==
    MaxWrites \in Nat /\ MaxCrashes \in Nat /\ MaxFaults \in Nat

VARIABLES
    disk,           \* the files
    fd_open,        \* fd_ >= 0: open for append on file 0
    current_size,   \* current_size_
    pc,             \* where Write is
    index,          \* i of the loop in Rotate
    chunk,          \* the entry being written: its id and length
    writes,         \* calls of Write so far: also the last id
    crashes, faults,
    lost,           \* history: ids whose payload never reached the file
    oversize        \* history: an entry too large for any file was written

vars == <<disk, fd_open, current_size, pc, index, chunk, writes, crashes, faults,
          lost, oversize>>

Files == 0..max_files
Newline == [id |-> 0, size |-> 1]
Chunks == [id : 0..MaxWrites, size : Nat \ {0}]
Contents == [size : Nat, ids : Seq(1..MaxWrites)]
NewFile == [size |-> 0, ids |-> << >>]

ASSUME AbsentAssumption == Absent \notin Contents

\* A system call fails.
Fault == faults < MaxFaults /\ faults' = faults + 1
NoFault == UNCHANGED faults

\* Mutant: O_TRUNC in place of O_APPEND.
OpenFileTruncates ==
    \/ /\ disk' = [disk EXCEPT ![0] = NewFile]
       /\ fd_open' = TRUE
       /\ current_size' = 0
       /\ NoFault
    \/ /\ fd_open' = FALSE
       /\ current_size' = 0
       /\ Fault
       /\ UNCHANGED disk

(***************************************************************************)
(* OpenFile: O_CREAT | O_APPEND on file 0; the size is what fstat says.    *)
(* Both callers have set current_size_ to 0, where a failing open leaves   *)
(* it.                                                                     *)
(***************************************************************************)
OpenFile ==
    \/ /\ disk' = [disk EXCEPT ![0] = IF @ = Absent THEN NewFile ELSE @]
       /\ fd_open' = TRUE
       /\ current_size' = disk'[0].size
       /\ NoFault
    \/ /\ fd_open' = FALSE
       /\ current_size' = 0
       /\ Fault
       /\ UNCHANGED disk

\* The constructor on an empty directory.
Init ==
    /\ disk = [i \in Files |-> IF i = 0 THEN NewFile ELSE Absent]
    /\ fd_open = TRUE
    /\ current_size = 0
    /\ pc = "idle"
    /\ index = 0
    /\ chunk = Newline
    /\ writes = 0
    /\ crashes = 0
    /\ faults = 0
    /\ lost = {}
    /\ oversize = FALSE

-----------------------------------------------------------------------------
(***************************************************************************)
(* Write.                                                                  *)
(***************************************************************************)
\* Mutant: the newline is not counted.
NeedsRotationNoNewline(len) == current_size + len > max_file_size

NeedsRotation(len) == current_size + len + 1 > max_file_size

\* An entry that does not fit even in a file of its own.
TooLarge(len) == len + 1 > max_file_size

\* fd_ < 0: the entry is dropped.
WriteClosed ==
    /\ pc = "idle" /\ ~fd_open
    /\ writes < MaxWrites
    /\ writes' = writes + 1
    /\ lost' = lost \cup {writes + 1}
    /\ UNCHANGED <<disk, fd_open, current_size, pc, index, chunk, crashes, faults,
                   oversize>>

\* Mutant: the loop of Rotate starts one file too high.
WriteBeginTooHigh(len) ==
    /\ pc = "idle" /\ fd_open
    /\ writes < MaxWrites
    /\ writes' = writes + 1
    /\ chunk' = [id |-> writes + 1, size |-> len]
    /\ IF NeedsRotation(len)
       THEN pc' = "rotate" /\ index' = max_files + 1 /\ fd_open' = FALSE
       ELSE pc' = "payload" /\ UNCHANGED <<index, fd_open>>
    /\ oversize' = (oversize \/ TooLarge(len))
    /\ UNCHANGED <<disk, current_size, crashes, faults, lost>>

\* Rotate begins by closing the file.
WriteBegin(len) ==
    /\ pc = "idle" /\ fd_open
    /\ writes < MaxWrites
    /\ writes' = writes + 1
    /\ chunk' = [id |-> writes + 1, size |-> len]
    /\ IF NeedsRotation(len)
       THEN pc' = "rotate" /\ index' = max_files /\ fd_open' = FALSE
       ELSE pc' = "payload" /\ UNCHANGED <<index, fd_open>>
    /\ oversize' = (oversize \/ TooLarge(len))
    /\ UNCHANGED <<disk, current_size, crashes, faults, lost>>

\* std::remove of the oldest file, in the first round of the loop.
RemoveOldest ==
    /\ pc = "rotate" /\ index > 0 /\ index = max_files
    /\ disk' = [disk EXCEPT ![max_files] = Absent]
    /\ pc' = "rename"
    /\ UNCHANGED <<fd_open, current_size, index, chunk, writes, crashes, faults,
                   lost, oversize>>

\* Mutant: files are copied and not moved.
CopyFile ==
    /\ pc = "rename" \/ (pc = "rotate" /\ index < max_files)
    /\ index > 0
    /\ \/ disk' = [disk EXCEPT ![index] = disk[index - 1]] /\ NoFault
       \/ UNCHANGED disk /\ Fault
    /\ index' = index - 1
    /\ pc' = "rotate"
    /\ UNCHANGED <<fd_open, current_size, chunk, writes, crashes, lost, oversize>>

\* std::rename(file i - 1, file i), if there is such a file.
Moved(i) ==
    IF disk[i - 1] = Absent THEN disk
    ELSE [f \in Files |-> IF f = i THEN disk[i - 1]
                          ELSE IF f = i - 1 THEN Absent ELSE disk[f]]

\* The result of rename is not looked at.
Rename ==
    /\ pc = "rename" \/ (pc = "rotate" /\ index < max_files)
    /\ index > 0
    /\ \/ disk' = Moved(index) /\ NoFault
       \/ UNCHANGED disk /\ Fault
    /\ index' = index - 1
    /\ pc' = "rotate"
    /\ UNCHANGED <<fd_open, current_size, chunk, writes, crashes, lost, oversize>>

\* Rotate ends with OpenFile; Write gives up if that failed.
Reopen ==
    /\ pc = "rotate" /\ index = 0
    /\ OpenFile
    /\ pc' = IF fd_open' THEN "payload" ELSE "idle"
    /\ lost' = IF fd_open' THEN lost ELSE lost \cup {chunk.id}
    /\ UNCHANGED <<index, chunk, writes, crashes, oversize>>

\* What ::write leaves in the file when it writes the first n bytes of chunk c.
Written(c, n) ==
    [size |-> disk[0].size + n,
     ids |-> IF c.id = 0 THEN disk[0].ids ELSE Append(disk[0].ids, c.id)]

\* Mutant: current_size_ grows by what should have been written.
Append0Counted(c) ==
    /\ current_size' = current_size + c.size
    /\ \/ disk' = [disk EXCEPT ![0] = Written(c, c.size)] /\ NoFault
       \/ \E n \in 1..(c.size - 1) :
             disk' = [disk EXCEPT ![0] = Written(c, n)] /\ Fault
       \/ Fault /\ UNCHANGED disk

\* ::write appends the chunk, a part of it, or nothing; current_size_ counts
\* what was written.
Append0(c) ==
    \/ /\ disk' = [disk EXCEPT ![0] = Written(c, c.size)]
       /\ current_size' = current_size + c.size
       /\ NoFault
    \/ \E n \in 1..(c.size - 1) :
          /\ disk' = [disk EXCEPT ![0] = Written(c, n)]
          /\ current_size' = current_size + n
          /\ Fault
    \/ Fault /\ UNCHANGED <<disk, current_size>>

WritePayload ==
    /\ pc = "payload"
    /\ Append0(chunk)
    /\ pc' = "newline"
    /\ lost' = IF disk' = disk THEN lost \cup {chunk.id} ELSE lost
    /\ UNCHANGED <<fd_open, index, chunk, writes, crashes, oversize>>

WriteNewline ==
    /\ pc = "newline"
    /\ Append0(Newline)
    /\ pc' = "idle"
    /\ UNCHANGED <<fd_open, index, chunk, writes, crashes, lost, oversize>>

\* The id of an entry whose payload is still to be written.
Unwritten == IF pc \in {"rotate", "rename", "payload"} THEN {chunk.id} ELSE {}

(***************************************************************************)
(* The process is killed, or the sink destroyed, and constructed again on  *)
(* the same path.                                                          *)
(***************************************************************************)
Restart ==
    /\ crashes < MaxCrashes
    /\ crashes' = crashes + 1
    /\ OpenFile
    /\ pc' = "idle"
    /\ index' = 0
    /\ chunk' = Newline
    /\ lost' = lost \cup Unwritten
    /\ UNCHANGED <<writes, oversize>>

Next ==
    \/ WriteClosed \/ RemoveOldest \/ Rename \/ Reopen \/ WritePayload
    \/ WriteNewline \/ Restart
    \/ \E len \in Lens : WriteBegin(len)

Spec == Init /\ [][Next]_vars

-----------------------------------------------------------------------------
(***************************************************************************)
(* Properties.                                                             *)
(***************************************************************************)
\* The type invariant.
TypeOK ==
    /\ disk \in [Files -> Contents \cup {Absent}]
    /\ fd_open \in BOOLEAN
    /\ current_size \in Nat
    /\ pc \in {"idle", "rotate", "rename", "payload", "newline"}
    /\ index \in Files
    /\ chunk \in Chunks
    /\ writes \in 0..MaxWrites
    /\ crashes \in 0..MaxCrashes
    /\ faults \in 0..MaxFaults
    /\ lost \subseteq 1..MaxWrites
    /\ oversize \in BOOLEAN

\* While the file is open current_size_ is its size, after restarts, failed
\* renames (which reopen the old file) and failed writes too; the decision to
\* rotate never works from a stale size.
SizeTracked == fd_open => disk[0] # Absent /\ current_size = disk[0].size

\* The ids in file i.
Ids(i) == IF disk[i] = Absent THEN << >> ELSE disk[i].ids

\* Read from the oldest file to the current one, entries are in the order they
\* were written and none appears twice, whatever crashed or failed.
EntriesInOrder ==
    \A i, j \in Files : \A m \in DOMAIN Ids(i), n \in DOMAIN Ids(j) :
        i > j \/ (i = j /\ m < n) => Ids(i)[m] < Ids(j)[n]

\* The ids in all files.
Kept == UNION {ToSet(Ids(i)) : i \in Files}

\* Rotation only ever discards the oldest entries: of the entries that were
\* written, the files hold the most recent ones without a hole, at every step
\* of a rotation, so also when the process is killed there and restarts; and
\* they hold at least one, unless an entry too large for a file keeps rotating
\* empty files.  (A rename that fails may leave a hole.)
NoHole ==
    LET all == (1..writes) \ (lost \cup Unwritten)
    IN  faults = 0 =>
            \A id \in all \ Kept : /\ \A k \in Kept : id < k
                                   /\ ~oversize => Kept # {}

\* No file outgrows max_file_size_, also when a restart reopens a file that
\* ends in the middle of a line, except one that holds a single entry too large
\* for any file.  (A rename that fails makes Rotate reopen the full file, and
\* so does max_files_ = 0.)
FilesBounded ==
    faults = 0 /\ max_files > 0 =>
        \A i \in Files :
            disk[i] # Absent /\ disk[i].size > max_file_size => Len(Ids(i)) <= 1
=============================================================================
