---------------------- MODULE RotatingFileSink_proofs ----------------------
(***************************************************************************)
(* Proofs about RotatingFileSink, for any number and size of files, any    *)
(* lengths of entries and any number of writes, kills and failing calls.   *)
(***************************************************************************)
EXTENDS RotatingFileSink, TLAPS

-----------------------------------------------------------------------------
(***************************************************************************)
(* The inductive invariant.                                                *)
(***************************************************************************)
\* The text of the current entry is still to be written.
Writing == pc \in {"rotate", "rename", "payload"}

\* Where Write is, and what that says of its locals.
CallInv ==
    /\ pc \in {"payload", "newline"} => fd_open
    /\ pc \in {"rotate", "rename"} => ~fd_open
    /\ pc = "rename" => index = max_files /\ index > 0
    /\ Writing => chunk.id = writes /\ writes >= 1

\* The entry that is being written is in no file yet.
FreshInv ==
    \A i \in Files : \A m \in DOMAIN Ids(i) :
        Ids(i)[m] <= writes /\ (Writing => Ids(i)[m] < writes)

\* As long as no call has failed, a rename has a free place to move to, and
\* the place it came from is free when Rotate opens the new file.
GapInv ==
    faults = 0 /\ (pc = "rename" \/ (pc = "rotate" /\ index < max_files)) =>
        disk[index] = Absent

\* As long as no call has failed, a file that is not empty holds an entry, and
\* so does the file that a rotation moves aside first.
FullInv ==
    faults = 0 =>
        /\ \A i \in Files : disk[i] # Absent /\ disk[i].size > 0 => Ids(i) # << >>
        /\ pc = "newline" => Ids(0) # << >>
        /\ pc = "rotate" /\ index = max_files /\ index > 0 /\ ~oversize =>
              Ids(0) # << >>

\* What is to be written fits, or the file holds nothing else.
RoomInv ==
    faults = 0 /\ max_files > 0 =>
        /\ pc = "payload" =>
              Len(Ids(0)) = 0 \/ disk[0].size + chunk.size + 1 <= max_file_size
        /\ pc = "newline" => Len(Ids(0)) <= 1 \/ disk[0].size + 1 <= max_file_size

RotatingInv ==
    /\ TypeOK /\ CallInv /\ SizeTracked /\ FreshInv /\ EntriesInOrder
    /\ GapInv /\ FullInv /\ NoHole /\ RoomInv /\ FilesBounded

-----------------------------------------------------------------------------
(***************************************************************************)
(* What the steps do to the files.                                         *)
(***************************************************************************)
\* The types of constants and of the variables the proofs calculate with.
LEMMA Typed ==
  ASSUME TypeOK
  PROVE  /\ max_files \in Nat /\ max_file_size \in Nat /\ MaxWrites \in Nat
         /\ 0 \in Files /\ max_files \in Files /\ Files \subseteq Nat
         /\ index \in Nat /\ index <= max_files
         /\ writes \in Nat /\ current_size \in Nat /\ faults \in Nat
         /\ chunk.id \in 0..MaxWrites /\ chunk.size \in Nat \ {0}
         /\ DOMAIN disk = Files
         /\ \A i \in Files : disk[i] = Absent \/ disk[i] \in Contents
         /\ \A i \in Files : Ids(i) \in Seq(1..MaxWrites)
<1>1. max_files \in Nat /\ max_file_size \in Nat /\ MaxWrites \in Nat /\ MaxFaults \in Nat
  BY SizesAssumption, LimitsAssumption
<1>2. 0 \in Files /\ max_files \in Files /\ Files \subseteq Nat
  BY <1>1 DEF Files
<1>3. /\ index \in Nat /\ index <= max_files
      /\ writes \in Nat /\ current_size \in Nat /\ faults \in Nat
  BY <1>1, <1>2 DEF TypeOK, Files
<1>4. chunk.id \in 0..MaxWrites /\ chunk.size \in Nat \ {0}
  BY DEF TypeOK, Chunks
<1>5. DOMAIN disk = Files /\ \A i \in Files : disk[i] = Absent \/ disk[i] \in Contents
  BY DEF TypeOK
<1>6. ASSUME NEW i \in Files PROVE Ids(i) \in Seq(1..MaxWrites)
  <2>1. CASE disk[i] = Absent
    BY <2>1 DEF Ids
  <2>2. CASE disk[i] # Absent
    <3>1. disk[i].ids \in Seq(1..MaxWrites)
      BY <1>5, <2>2 DEF Contents
    <3> QED BY <2>2, <3>1 DEF Ids
  <2> QED BY <2>1, <2>2
<1> QED BY <1>1, <1>2, <1>3, <1>4, <1>5, <1>6

\* An element of a sequence is in the set it is a sequence over.
LEMMA ElementOf == \A S : \A s \in Seq(S) : \A k \in DOMAIN s : s[k] \in S
OBVIOUS

\* Ids in the files are numbers.
LEMMA IdTyped ==
  ASSUME TypeOK, NEW i \in Files, NEW m \in DOMAIN Ids(i)
  PROVE  Ids(i)[m] \in Nat
<1>1. Ids(i) \in Seq(1..MaxWrites)
  BY Typed
<1>2. Ids(i)[m] \in 1..MaxWrites
  BY <1>1, ElementOf
<1> QED BY <1>2, LimitsAssumption

\* A new file is a file.
LEMMA NewFileTyped == NewFile \in Contents /\ NewFile.size = 0 /\ NewFile.ids = << >>
  BY DEF NewFile, Contents

\* OpenFile creates file 0 or leaves it as it is.
LEMMA OpenEffect ==
  ASSUME TypeOK, OpenFile
  PROVE  /\ disk' \in [Files -> Contents \cup {Absent}]
         /\ fd_open' \in BOOLEAN /\ current_size' \in Nat
         /\ faults' \in 0..MaxFaults /\ (faults' = 0 => faults = 0 /\ fd_open')
         /\ \A i \in Files : Ids(i)' = Ids(i)
         /\ \A i \in Files : i # 0 => disk'[i] = disk[i]
         /\ disk[0] # Absent => disk'[0] = disk[0]
         /\ disk'[0] # disk[0] => disk'[0] = NewFile
         /\ fd_open' => disk'[0] # Absent /\ current_size' = disk'[0].size
<1>0. /\ 0 \in Files /\ DOMAIN disk = Files /\ faults \in Nat
      /\ disk \in [Files -> Contents \cup {Absent}]
      /\ \A i \in Files : disk[i] = Absent \/ disk[i] \in Contents
  BY Typed DEF TypeOK
<1>1. CASE /\ disk' = [disk EXCEPT ![0] = IF disk[0] = Absent THEN NewFile ELSE disk[0]]
           /\ fd_open' = TRUE /\ current_size' = disk'[0].size /\ faults' = faults
  <2>1. /\ disk'[0] = IF disk[0] = Absent THEN NewFile ELSE disk[0]
        /\ \A i \in Files : i # 0 => disk'[i] = disk[i]
    BY <1>0, <1>1
  <2>2. disk'[0] \in Contents
    BY <1>0, <2>1, NewFileTyped
  <2>3. disk' \in [Files -> Contents \cup {Absent}]
    <3> DEFINE g == IF disk[0] = Absent THEN NewFile ELSE disk[0]
    <3>1. g \in Contents
      BY <1>0, NewFileTyped
    <3> HIDE DEF g
    <3>2. [disk EXCEPT ![0] = g] \in [Files -> Contents \cup {Absent}]
      BY <1>0, <3>1
    <3> QED BY <1>1, <3>2 DEF g
  <2>4. disk'[0] # Absent /\ current_size' \in Nat
    BY <1>1, <2>2, AbsentAssumption DEF Contents
  <2>5. ASSUME NEW i \in Files PROVE Ids(i)' = Ids(i)
    <3>1. CASE i # 0 \/ disk[0] # Absent
      BY <2>1, <3>1 DEF Ids
    <3>2. CASE i = 0 /\ disk[0] = Absent
      BY <2>1, <2>4, <3>2, NewFileTyped DEF Ids
    <3> QED BY <3>1, <3>2
  <2>6. faults' \in 0..MaxFaults
    BY <1>1 DEF TypeOK
  <2> QED BY <1>1, <2>1, <2>3, <2>4, <2>5, <2>6
<1>2. CASE /\ fd_open' = FALSE /\ current_size' = 0 /\ faults < MaxFaults
           /\ faults' = faults + 1 /\ disk' = disk
  <2>1. faults' \in 0..MaxFaults /\ faults' # 0
    BY <1>0, <1>2, LimitsAssumption
  <2> QED BY <1>0, <1>2, <2>1 DEF Ids
<1> QED BY <1>1, <1>2 DEF OpenFile, NoFault, Fault

\* rename moves a file one place up, over the file that is there.
LEMMA RenameEffect ==
  ASSUME TypeOK, Rename
  PROVE  /\ index \in Nat \ {0} /\ index \in Files /\ index - 1 \in Files
         /\ disk' \in [Files -> Contents \cup {Absent}]
         /\ faults' \in 0..MaxFaults /\ (faults' = 0 => faults = 0)
         /\ \/ disk' = disk /\ (faults' = 0 => disk[index - 1] = Absent)
            \/ /\ disk[index - 1] # Absent /\ disk'[index] = disk[index - 1]
               /\ disk'[index - 1] = Absent
               /\ \A i \in Files : i \notin {index, index - 1} => disk'[i] = disk[i]
<1>0. /\ index \in Nat /\ index <= max_files /\ DOMAIN disk = Files /\ faults \in Nat
      /\ max_files \in Nat /\ disk \in [Files -> Contents \cup {Absent}]
  BY Typed DEF TypeOK
<1>1. index \in Nat \ {0} /\ index \in Files /\ index - 1 \in Files
  BY <1>0 DEF Rename, Files
<1>2. CASE disk' = disk /\ faults < MaxFaults /\ faults' = faults + 1
  <2>1. faults' \in 0..MaxFaults /\ faults' # 0
    BY <1>0, <1>2, LimitsAssumption
  <2> QED BY <1>0, <1>1, <1>2, <2>1
<1>3. CASE disk' = Moved(index) /\ faults' = faults
  <2>1. faults' \in 0..MaxFaults
    BY <1>3 DEF TypeOK
  <2>2. CASE disk[index - 1] = Absent
    <3>1. disk' = disk
      BY <1>3, <2>2 DEF Moved
    <3> QED BY <1>0, <1>1, <1>3, <2>1, <2>2, <3>1
  <2>3. CASE disk[index - 1] # Absent
    <3> DEFINE g == [f \in Files |-> IF f = index THEN disk[index - 1]
                                     ELSE IF f = index - 1 THEN Absent ELSE disk[f]]
    <3>1. disk' = g
      BY <1>3, <2>3 DEF Moved
    <3>2. g \in [Files -> Contents \cup {Absent}]
      BY <1>0, <1>1
    <3>3. /\ g[index] = disk[index - 1] /\ g[index - 1] = Absent
          /\ \A i \in Files : i \notin {index, index - 1} => g[i] = disk[i]
      BY <1>1
    <3> HIDE DEF g
    <3> QED BY <1>1, <1>3, <2>1, <2>3, <3>1, <3>2, <3>3
  <2> QED BY <2>2, <2>3
<1> QED BY <1>2, <1>3 DEF Rename, NoFault, Fault

\* remove takes the oldest file, which is not the current one.
LEMMA RemoveEffect ==
  ASSUME TypeOK, RemoveOldest
  PROVE  /\ pc = "rotate" /\ pc' = "rename" /\ index = max_files /\ index > 0
         /\ UNCHANGED <<fd_open, current_size, index, chunk, writes, crashes, faults,
                        lost, oversize>>
         /\ max_files # 0 /\ 0 \in Files /\ max_files \in Files
         /\ disk' \in [Files -> Contents \cup {Absent}]
         /\ disk'[max_files] = Absent
         /\ \A i \in Files : i # max_files => disk'[i] = disk[i]
<1>0. /\ index \in Nat /\ index <= max_files /\ DOMAIN disk = Files /\ max_files \in Files
      /\ 0 \in Files /\ max_files \in Nat /\ disk \in [Files -> Contents \cup {Absent}]
  BY Typed DEF TypeOK
<1> QED BY <1>0 DEF RemoveOldest

\* write adds the id of the text it writes to file 0, and nothing else.
LEMMA AppendEffect ==
  ASSUME TypeOK, SizeTracked, fd_open, NEW c \in Chunks, Append0(c)
  PROVE  /\ disk[0] \in Contents /\ current_size = disk[0].size
         /\ disk' \in [Files -> Contents \cup {Absent}]
         /\ disk'[0] \in Contents /\ current_size' = disk'[0].size /\ current_size' \in Nat
         /\ \A i \in Files : i # 0 => disk'[i] = disk[i]
         /\ faults' \in 0..MaxFaults
         /\ \/ disk' = disk /\ faults' # 0
            \/ /\ disk'[0].size > disk[0].size
               /\ disk'[0].ids = IF c.id = 0 THEN disk[0].ids ELSE Append(disk[0].ids, c.id)
               /\ faults' = 0 => faults = 0 /\ disk'[0].size = disk[0].size + c.size
<1>0. /\ 0 \in Files /\ DOMAIN disk = Files /\ faults \in Nat /\ MaxFaults \in Nat
      /\ disk \in [Files -> Contents \cup {Absent}] /\ faults \in 0..MaxFaults
  BY Typed, LimitsAssumption DEF TypeOK
<1>1. disk[0] \in Contents /\ current_size = disk[0].size /\ current_size \in Nat
  BY <1>0 DEF SizeTracked, TypeOK
<1>2. c.size \in Nat \ {0} /\ c.id \in 0..MaxWrites
  BY DEF Chunks
<1>3. ASSUME NEW n \in 1..c.size PROVE Written(c, n) \in Contents
  <2> DEFINE f == disk[0].ids
             s == disk[0].size
             g == IF c.id = 0 THEN f ELSE Append(f, c.id)
  <2>1. f \in Seq(1..MaxWrites) /\ s \in Nat
    BY <1>1 DEF Contents
  <2>2. Written(c, n) = [size |-> s + n, ids |-> g]
    BY DEF Written
  <2> HIDE DEF f, s
  <2>3. g \in Seq(1..MaxWrites)
    <3>1. CASE c.id = 0
      BY <2>1, <3>1
    <3>2. CASE c.id # 0
      <4> DEFINE e == c.id
      <4>1. e \in 1..MaxWrites
        BY <1>2, <3>2, LimitsAssumption
      <4>2. g = Append(f, e)
        BY <3>2
      <4> HIDE DEF e, g
      <4> QED BY <2>1, <4>1, <4>2
    <3> QED BY <3>1, <3>2
  <2>4. s + n \in Nat
    BY <1>2, <2>1
  <2> HIDE DEF g
  <2> QED BY <2>2, <2>3, <2>4 DEF Contents
<1>4. ASSUME NEW n \in 1..c.size, disk' = [disk EXCEPT ![0] = Written(c, n)],
             current_size' = current_size + n
      PROVE  /\ disk' \in [Files -> Contents \cup {Absent}]
             /\ disk'[0] \in Contents /\ current_size' = disk'[0].size
             /\ current_size' \in Nat
             /\ \A i \in Files : i # 0 => disk'[i] = disk[i]
             /\ disk'[0].size > disk[0].size /\ disk'[0].size = disk[0].size + n
             /\ disk'[0].ids = IF c.id = 0 THEN disk[0].ids ELSE Append(disk[0].ids, c.id)
  <2>1. Written(c, n) \in Contents
    BY <1>3
  <2>2. /\ disk' \in [Files -> Contents \cup {Absent}] /\ disk'[0] = Written(c, n)
        /\ \A i \in Files : i # 0 => disk'[i] = disk[i]
    BY <1>0, <1>4, <2>1
  <2>3. /\ disk'[0].size = disk[0].size + n
        /\ disk'[0].ids = IF c.id = 0 THEN disk[0].ids ELSE Append(disk[0].ids, c.id)
    BY <2>2 DEF Written
  <2> QED BY <1>1, <1>2, <1>4, <2>1, <2>2, <2>3
<1>5. CASE /\ disk' = [disk EXCEPT ![0] = Written(c, c.size)]
           /\ current_size' = current_size + c.size /\ faults' = faults
  <2>1. c.size \in 1..c.size
    BY <1>2
  <2> QED BY <1>0, <1>1, <1>4, <1>5, <2>1
<1>6. ASSUME NEW n \in 1..(c.size - 1), disk' = [disk EXCEPT ![0] = Written(c, n)],
             current_size' = current_size + n, faults < MaxFaults, faults' = faults + 1
      PROVE  /\ disk' \in [Files -> Contents \cup {Absent}]
             /\ disk'[0] \in Contents /\ current_size' = disk'[0].size
             /\ current_size' \in Nat
             /\ \A i \in Files : i # 0 => disk'[i] = disk[i]
             /\ disk'[0].size > disk[0].size
             /\ disk'[0].ids = IF c.id = 0 THEN disk[0].ids ELSE Append(disk[0].ids, c.id)
             /\ faults' \in 0..MaxFaults /\ faults' # 0
  <2>1. n \in 1..c.size /\ faults' \in 0..MaxFaults /\ faults' # 0
    BY <1>0, <1>2, <1>6
  <2> QED BY <1>4, <1>6, <2>1
<1>7. CASE /\ faults < MaxFaults /\ faults' = faults + 1
           /\ disk' = disk /\ current_size' = current_size
  <2>1. faults' \in 0..MaxFaults /\ faults' # 0
    BY <1>0, <1>7
  <2> QED BY <1>0, <1>1, <1>7, <2>1
<1> QED BY <1>1, <1>5, <1>6, <1>7 DEF Append0, NoFault, Fault

\* write of the text of an entry: it is in file 0 then, or nothing was written.
LEMMA PayloadEffect ==
  ASSUME TypeOK, CallInv, SizeTracked, WritePayload
  PROVE  /\ pc = "payload" /\ pc' = "newline" /\ fd_open
         /\ chunk.id = writes /\ writes \in 1..MaxWrites
         /\ UNCHANGED <<fd_open, index, chunk, writes, crashes, oversize>>
         /\ disk' \in [Files -> Contents \cup {Absent}] /\ faults' \in 0..MaxFaults
         /\ disk[0] # Absent /\ disk'[0] # Absent /\ current_size' = disk'[0].size
         /\ current_size' \in Nat
         /\ \A i \in Files : i # 0 => disk'[i] = disk[i] /\ Ids(i)' = Ids(i)
         /\ \/ disk' = disk /\ faults' # 0 /\ lost' = lost \cup {writes}
            \/ /\ Ids(0)' = Append(Ids(0), writes) /\ lost' = lost
               /\ disk'[0].size > disk[0].size
               /\ faults' = 0 => faults = 0 /\ disk'[0].size = disk[0].size + chunk.size
<1>1. pc = "payload" /\ pc' = "newline" /\ fd_open /\ chunk \in Chunks /\ Append0(chunk)
  BY DEF WritePayload, CallInv, TypeOK
<1>2. chunk.id = writes /\ writes \in 1..MaxWrites
  BY <1>1, LimitsAssumption DEF CallInv, Writing, TypeOK
<1>3. /\ disk[0] \in Contents /\ current_size = disk[0].size
      /\ disk' \in [Files -> Contents \cup {Absent}]
      /\ disk'[0] \in Contents /\ current_size' = disk'[0].size /\ current_size' \in Nat
      /\ \A i \in Files : i # 0 => disk'[i] = disk[i]
      /\ faults' \in 0..MaxFaults
      /\ \/ disk' = disk /\ faults' # 0
         \/ /\ disk'[0].size > disk[0].size
            /\ disk'[0].ids = IF chunk.id = 0 THEN disk[0].ids
                              ELSE Append(disk[0].ids, chunk.id)
            /\ faults' = 0 => faults = 0 /\ disk'[0].size = disk[0].size + chunk.size
  BY <1>1, AppendEffect
<1>4. disk[0] # Absent /\ disk'[0] # Absent
  BY <1>3, AbsentAssumption
<1>5. \A i \in Files : i # 0 => Ids(i)' = Ids(i)
  BY <1>3 DEF Ids
<1>6. disk'[0].size > disk[0].size => disk' # disk
  BY <1>3 DEF Contents
<1>7. /\ UNCHANGED <<fd_open, index, chunk, writes, crashes, oversize>>
      /\ lost' = IF disk' = disk THEN lost \cup {writes} ELSE lost
  BY <1>2 DEF WritePayload
<1>8. CASE disk' = disk /\ faults' # 0
  BY <1>1, <1>2, <1>3, <1>4, <1>5, <1>7, <1>8
<1>9. CASE /\ disk'[0].size > disk[0].size
           /\ disk'[0].ids = IF chunk.id = 0 THEN disk[0].ids
                             ELSE Append(disk[0].ids, chunk.id)
           /\ faults' = 0 => faults = 0 /\ disk'[0].size = disk[0].size + chunk.size
  <2>1. disk'[0].ids = Append(disk[0].ids, writes)
    BY <1>2, <1>9
  <2>2. Ids(0)' = Append(Ids(0), writes)
    BY <1>4, <2>1 DEF Ids
  <2> QED BY <1>1, <1>2, <1>3, <1>4, <1>5, <1>6, <1>7, <1>9, <2>2
<1> QED BY <1>3, <1>8, <1>9

\* write of the newline adds no entry.
LEMMA NewlineEffect ==
  ASSUME TypeOK, CallInv, SizeTracked, WriteNewline
  PROVE  /\ pc = "newline" /\ pc' = "idle" /\ fd_open
         /\ UNCHANGED <<fd_open, index, chunk, writes, crashes, lost, oversize>>
         /\ disk' \in [Files -> Contents \cup {Absent}] /\ faults' \in 0..MaxFaults
         /\ disk[0] # Absent /\ disk'[0] # Absent /\ current_size' = disk'[0].size
         /\ current_size' \in Nat
         /\ \A i \in Files : Ids(i)' = Ids(i)
         /\ \A i \in Files : i # 0 => disk'[i] = disk[i]
         /\ faults' = 0 => faults = 0 /\ disk'[0].size = disk[0].size + 1
<1>1. /\ pc = "newline" /\ pc' = "idle" /\ fd_open /\ Append0(Newline)
      /\ UNCHANGED <<fd_open, index, chunk, writes, crashes, lost, oversize>>
  BY DEF WriteNewline, CallInv
<1>2. Newline \in Chunks /\ Newline.id = 0 /\ Newline.size = 1
  BY LimitsAssumption DEF Newline, Chunks
<1>3. /\ disk[0] \in Contents
      /\ disk' \in [Files -> Contents \cup {Absent}]
      /\ disk'[0] \in Contents /\ current_size' = disk'[0].size /\ current_size' \in Nat
      /\ \A i \in Files : i # 0 => disk'[i] = disk[i]
      /\ faults' \in 0..MaxFaults
      /\ \/ disk' = disk /\ faults' # 0
         \/ /\ disk'[0].ids = disk[0].ids
            /\ faults' = 0 => faults = 0 /\ disk'[0].size = disk[0].size + 1
  BY <1>1, <1>2, AppendEffect
<1>4. disk[0] # Absent /\ disk'[0] # Absent
  BY <1>3, AbsentAssumption
<1>5. disk'[0].ids = disk[0].ids
  BY <1>3
<1>6. \A i \in Files : Ids(i)' = Ids(i)
  BY <1>3, <1>4, <1>5 DEF Ids
<1> QED BY <1>1, <1>3, <1>4, <1>6

-----------------------------------------------------------------------------
(***************************************************************************)
(* Type correctness, and the size the sink keeps.                          *)
(***************************************************************************)
\* Initially there is one empty file.
LEMMA InitRotating == Init => RotatingInv
<1> SUFFICES ASSUME Init PROVE RotatingInv
  OBVIOUS
<1>0. /\ max_files \in Nat /\ MaxWrites \in Nat /\ MaxCrashes \in Nat /\ MaxFaults \in Nat
      /\ 0 \in Files /\ max_files \in Files
  BY SizesAssumption, LimitsAssumption DEF Files
<1>1. /\ disk = [i \in Files |-> IF i = 0 THEN NewFile ELSE Absent]
      /\ fd_open = TRUE /\ current_size = 0 /\ pc = "idle" /\ index = 0
      /\ chunk = Newline /\ writes = 0 /\ crashes = 0 /\ faults = 0 /\ lost = {}
      /\ oversize = FALSE
  BY DEF Init
<1>2. /\ disk \in [Files -> Contents \cup {Absent}]
      /\ disk[0] = NewFile /\ \A i \in Files : i # 0 => disk[i] = Absent
  BY <1>0, <1>1, NewFileTyped
<1>3. disk[0] # Absent /\ disk[0].size = 0
  BY <1>2, NewFileTyped, AbsentAssumption
<1>4. \A i \in Files : Ids(i) = << >>
  BY <1>2, <1>3, NewFileTyped DEF Ids
<1>5. TypeOK
  <2>1. chunk \in Chunks
    BY <1>0, <1>1 DEF Newline, Chunks
  <2>2. /\ current_size \in Nat /\ index \in Files /\ writes \in 0..MaxWrites
        /\ crashes \in 0..MaxCrashes /\ faults \in 0..MaxFaults
    BY <1>0, <1>1
  <2>3. fd_open \in BOOLEAN /\ oversize \in BOOLEAN /\ lost \subseteq 1..MaxWrites
    BY <1>1
  <2> QED BY <1>1, <1>2, <2>1, <2>2, <2>3 DEF TypeOK
<1>6. CallInv /\ SizeTracked /\ FreshInv /\ EntriesInOrder
  BY <1>1, <1>3, <1>4 DEF CallInv, SizeTracked, FreshInv, EntriesInOrder, Writing
<1>7. GapInv /\ RoomInv
  BY <1>1 DEF GapInv, RoomInv
<1>8. FullInv
  <2>1. \A i \in Files : ~(disk[i] # Absent /\ disk[i].size > 0)
    BY <1>2, <1>3
  <2> QED BY <1>1, <2>1 DEF FullInv
<1>9. NoHole
  BY <1>1 DEF NoHole
<1>10. FilesBounded
  <2>1. \A i \in Files : Len(Ids(i)) <= 1
    BY <1>4
  <2> QED BY <2>1 DEF FilesBounded
<1> QED BY <1>5, <1>6, <1>7, <1>8, <1>9, <1>10 DEF RotatingInv

\* The types are preserved.
LEMMA NextTyped == TypeOK /\ CallInv /\ SizeTracked /\ [Next]_vars => TypeOK'
<1> SUFFICES ASSUME TypeOK, CallInv, SizeTracked, [Next]_vars PROVE TypeOK'
  OBVIOUS
<1>0. /\ max_files \in Nat /\ MaxWrites \in Nat /\ MaxCrashes \in Nat /\ MaxFaults \in Nat
      /\ 0 \in Files /\ max_files \in Files /\ writes \in 0..MaxWrites
      /\ lost \subseteq 1..MaxWrites
  BY Typed, LimitsAssumption DEF TypeOK
<1>1. Writing => writes \in 1..MaxWrites /\ chunk.id = writes
  BY <1>0 DEF CallInv
<1>2. CASE WriteClosed
  BY <1>0, <1>2 DEF WriteClosed, TypeOK
<1>3. ASSUME NEW len \in Lens, WriteBegin(len) PROVE TypeOK'
  <2>1. /\ chunk' = [id |-> writes + 1, size |-> len] /\ writes < MaxWrites
        /\ writes' = writes + 1 /\ oversize' \in BOOLEAN
        /\ UNCHANGED <<disk, current_size, crashes, faults, lost>>
    BY <1>3 DEF WriteBegin, TypeOK
  <2>2. pc' \in {"rotate", "payload"} /\ index' \in Files /\ fd_open' \in BOOLEAN
    <3>1. CASE NeedsRotation(len)
      BY <1>0, <1>3, <3>1 DEF WriteBegin
    <3>2. CASE ~NeedsRotation(len)
      BY <1>3, <3>2 DEF WriteBegin, TypeOK
    <3> QED BY <3>1, <3>2
  <2>3. chunk' \in Chunks /\ writes' \in 0..MaxWrites
    BY <1>0, <2>1, LensAssumption DEF Chunks
  <2> QED BY <2>1, <2>2, <2>3 DEF TypeOK
<1>4. CASE RemoveOldest
  <2>1. /\ pc' = "rename" /\ disk' \in [Files -> Contents \cup {Absent}]
        /\ UNCHANGED <<fd_open, current_size, index, chunk, writes, crashes, faults,
                       lost, oversize>>
    BY <1>4, RemoveEffect
  <2> QED BY <2>1 DEF TypeOK
<1>5. CASE Rename
  <2>1. /\ index' = index - 1 /\ index - 1 \in Files /\ faults' \in 0..MaxFaults
        /\ disk' \in [Files -> Contents \cup {Absent}]
    BY <1>5, RenameEffect DEF Rename
  <2>2. /\ pc' = "rotate"
        /\ UNCHANGED <<fd_open, current_size, chunk, writes, crashes, lost, oversize>>
    BY <1>5 DEF Rename
  <2> QED BY <2>1, <2>2 DEF TypeOK
<1>6. CASE Reopen
  <2>1. /\ pc = "rotate" /\ OpenFile /\ pc' \in {"payload", "idle"}
        /\ lost' \in {lost, lost \cup {chunk.id}}
        /\ UNCHANGED <<index, chunk, writes, crashes, oversize>>
    BY <1>6 DEF Reopen
  <2>2. lost' \subseteq 1..MaxWrites
    BY <1>0, <1>1, <2>1 DEF Writing
  <2>3. /\ disk' \in [Files -> Contents \cup {Absent}]
        /\ fd_open' \in BOOLEAN /\ current_size' \in Nat /\ faults' \in 0..MaxFaults
    BY <2>1, OpenEffect
  <2> QED BY <2>1, <2>2, <2>3 DEF TypeOK
<1>7. CASE Restart
  <2>1. /\ OpenFile /\ pc' = "idle" /\ index' = 0 /\ chunk' = Newline
        /\ crashes < MaxCrashes /\ crashes' = crashes + 1
        /\ lost' = lost \cup Unwritten /\ UNCHANGED <<writes, oversize>>
    BY <1>7 DEF Restart
  <2>2. lost' \subseteq 1..MaxWrites
    BY <1>0, <1>1, <2>1 DEF Writing, Unwritten
  <2>3. /\ disk' \in [Files -> Contents \cup {Absent}]
        /\ fd_open' \in BOOLEAN /\ current_size' \in Nat /\ faults' \in 0..MaxFaults
    BY <2>1, OpenEffect
  <2>4. chunk' \in Chunks /\ crashes' \in 0..MaxCrashes
    BY <1>0, <2>1 DEF Newline, Chunks, TypeOK
  <2> QED BY <1>0, <2>1, <2>2, <2>3, <2>4 DEF TypeOK
<1>8. CASE WritePayload
  <2>1. lost' \subseteq 1..MaxWrites
    BY <1>0, <1>8, PayloadEffect
  <2>2. /\ pc' = "newline" /\ disk' \in [Files -> Contents \cup {Absent}]
        /\ faults' \in 0..MaxFaults /\ current_size' \in Nat
        /\ UNCHANGED <<fd_open, index, chunk, writes, crashes, oversize>>
    BY <1>8, PayloadEffect
  <2> QED BY <2>1, <2>2 DEF TypeOK
<1>9. CASE WriteNewline
  <2>1. /\ pc' = "idle" /\ disk' \in [Files -> Contents \cup {Absent}]
        /\ faults' \in 0..MaxFaults /\ current_size' \in Nat
        /\ UNCHANGED <<fd_open, index, chunk, writes, crashes, lost, oversize>>
    BY <1>9, NewlineEffect
  <2> QED BY <2>1 DEF TypeOK
<1>10. CASE UNCHANGED vars
  BY <1>10 DEF vars, TypeOK
<1> QED BY <1>2, <1>3, <1>4, <1>5, <1>6, <1>7, <1>8, <1>9, <1>10 DEF Next

\* What each place in Write says of its locals is preserved.
LEMMA NextCall == TypeOK /\ CallInv /\ SizeTracked /\ [Next]_vars => CallInv'
<1> SUFFICES ASSUME TypeOK, CallInv, SizeTracked, [Next]_vars PROVE CallInv'
  OBVIOUS
<1>0. writes \in Nat /\ index \in Nat /\ max_files \in Nat
  BY Typed
<1>1. CASE WriteClosed
  BY <1>1 DEF WriteClosed, CallInv, Writing
<1>2. ASSUME NEW len \in Lens, WriteBegin(len) PROVE CallInv'
  <2>1. /\ chunk' = [id |-> writes + 1, size |-> len] /\ writes' = writes + 1 /\ fd_open
    BY <1>2 DEF WriteBegin
  <2>2. chunk'.id = writes' /\ writes' >= 1
    BY <1>0, <2>1
  <2>3. CASE NeedsRotation(len)
    <3>1. pc' = "rotate" /\ fd_open' = FALSE
      BY <1>2, <2>3 DEF WriteBegin
    <3> QED BY <2>2, <3>1 DEF CallInv
  <2>4. CASE ~NeedsRotation(len)
    <3>1. pc' = "payload" /\ fd_open'
      BY <1>2, <2>1, <2>4 DEF WriteBegin
    <3> QED BY <2>2, <3>1 DEF CallInv
  <2> QED BY <2>3, <2>4
<1>3. CASE RemoveOldest
  <2>1. /\ pc = "rotate" /\ pc' = "rename" /\ index = max_files /\ index > 0
        /\ UNCHANGED <<fd_open, index, chunk, writes>>
    BY <1>3, RemoveEffect
  <2> QED BY <2>1 DEF CallInv, Writing
<1>4. CASE Rename
  <2>1. pc \in {"rename", "rotate"} /\ pc' = "rotate" /\ UNCHANGED <<fd_open, chunk, writes>>
    BY <1>4 DEF Rename
  <2> QED BY <2>1 DEF CallInv, Writing
<1>5. CASE Reopen
  <2>1. pc = "rotate" /\ UNCHANGED <<index, chunk, writes>>
        /\ pc' = IF fd_open' THEN "payload" ELSE "idle"
    BY <1>5 DEF Reopen
  <2> QED BY <2>1 DEF CallInv, Writing
<1>6. CASE Restart
  BY <1>6 DEF Restart, CallInv, Writing
<1>7. CASE WritePayload
  <2>1. pc' = "newline" /\ fd_open /\ UNCHANGED fd_open
    BY <1>7, PayloadEffect
  <2> QED BY <2>1 DEF CallInv, Writing
<1>8. CASE WriteNewline
  BY <1>8, NewlineEffect DEF CallInv, Writing
<1>9. CASE UNCHANGED vars
  BY <1>9 DEF vars, CallInv, Writing
<1> QED BY <1>1, <1>2, <1>3, <1>4, <1>5, <1>6, <1>7, <1>8, <1>9 DEF Next

\* The size the sink keeps is that of the open file.
LEMMA NextSize == TypeOK /\ CallInv /\ SizeTracked /\ [Next]_vars => SizeTracked'
<1> SUFFICES ASSUME TypeOK, CallInv, SizeTracked, [Next]_vars, fd_open'
             PROVE  disk'[0] # Absent /\ current_size' = disk'[0].size
  BY DEF SizeTracked
<1>1. CASE Reopen \/ Restart
  <2>1. OpenFile
    BY <1>1 DEF Reopen, Restart
  <2> QED BY <2>1, OpenEffect
<1>2. CASE WritePayload
  BY <1>2, PayloadEffect
<1>3. CASE WriteNewline
  BY <1>3, NewlineEffect
<1>4. CASE RemoveOldest \/ Rename
  <2>1. pc \in {"rotate", "rename"} /\ fd_open' = fd_open
    BY <1>4 DEF RemoveOldest, Rename
  <2> QED BY <2>1 DEF CallInv
<1>5. CASE WriteClosed \/ (\E len \in Lens : WriteBegin(len)) \/ UNCHANGED vars
  <2>1. fd_open /\ UNCHANGED <<disk, current_size>>
    BY <1>5 DEF WriteClosed, WriteBegin, vars
  <2> QED BY <2>1 DEF SizeTracked
<1> QED BY <1>1, <1>2, <1>3, <1>4, <1>5 DEF Next

\* The core of the invariant is inductive.
LEMMA CoreStep ==
  TypeOK /\ CallInv /\ SizeTracked /\ [Next]_vars => TypeOK' /\ CallInv' /\ SizeTracked'
BY NextTyped, NextCall, NextSize

\* Variables stay in their types; ids in the files are ids of entries.
THEOREM RotatingTypeCorrect == Spec => []TypeOK
<1>1. RotatingInv => TypeOK /\ CallInv /\ SizeTracked
  BY DEF RotatingInv
<1> QED BY <1>1, InitRotating, CoreStep, PTL DEF Spec

\* While the file is open current_size_ is its size, whatever was killed or
\* failed, so the decision to rotate never works from a stale size.
THEOREM SizeTrackedCorrect == Spec => []SizeTracked
<1>1. RotatingInv => TypeOK /\ CallInv /\ SizeTracked
  BY DEF RotatingInv
<1> QED BY <1>1, InitRotating, CoreStep, PTL DEF Spec

-----------------------------------------------------------------------------
(***************************************************************************)
(* The order of what is on disk.                                           *)
(***************************************************************************)
\* A step leaves the entries where they are, drops those of the oldest file,
\* moves those of a file one place up, or adds the current one to file 0.
LEMMA IdsStep ==
  ASSUME TypeOK, CallInv, SizeTracked, [Next]_vars
  PROVE  \/ \A i \in Files : Ids(i)' = Ids(i)
         \/ /\ RemoveOldest
            /\ \A i \in Files : Ids(i)' = IF i = max_files THEN << >> ELSE Ids(i)
         \/ /\ Rename
            /\ \A i \in Files : Ids(i)' = IF i = index THEN Ids(index - 1)
                                          ELSE IF i = index - 1 THEN << >> ELSE Ids(i)
         \/ /\ WritePayload
            /\ \A i \in Files : Ids(i)' = IF i = 0 THEN Append(Ids(0), writes) ELSE Ids(i)
<1>1. CASE WriteClosed \/ (\E len \in Lens : WriteBegin(len)) \/ UNCHANGED vars
  <2>1. disk' = disk
    BY <1>1 DEF WriteClosed, WriteBegin, vars
  <2> QED BY <2>1 DEF Ids
<1>2. CASE RemoveOldest
  <2>1. disk'[max_files] = Absent /\ \A i \in Files : i # max_files => disk'[i] = disk[i]
    BY <1>2, RemoveEffect
  <2>2. \A i \in Files : Ids(i)' = IF i = max_files THEN << >> ELSE Ids(i)
    BY <2>1 DEF Ids
  <2> QED BY <1>2, <2>2
<1>3. CASE Rename
  <2>1. CASE disk' = disk
    BY <2>1 DEF Ids
  <2>2. CASE disk' # disk
    <3>1. /\ disk[index - 1] # Absent /\ disk'[index] = disk[index - 1]
          /\ disk'[index - 1] = Absent /\ index \in Nat
          /\ \A i \in Files : i \notin {index, index - 1} => disk'[i] = disk[i]
      BY <1>3, <2>2, RenameEffect
    <3>2. \A i \in Files : Ids(i)' = IF i = index THEN Ids(index - 1)
                                     ELSE IF i = index - 1 THEN << >> ELSE Ids(i)
      BY <3>1 DEF Ids
    <3> QED BY <1>3, <3>2
  <2> QED BY <2>1, <2>2
<1>4. CASE Reopen \/ Restart
  <2>1. OpenFile
    BY <1>4 DEF Reopen, Restart
  <2> QED BY <2>1, OpenEffect
<1>5. CASE WritePayload
  <2>1. CASE disk' = disk
    BY <2>1 DEF Ids
  <2>2. CASE disk' # disk
    BY <1>5, <2>2, PayloadEffect
  <2> QED BY <2>1, <2>2
<1>6. CASE WriteNewline
  BY <1>6, NewlineEffect
<1> QED BY <1>1, <1>2, <1>3, <1>4, <1>5, <1>6 DEF Next

\* What appending does to a sequence of ids.
LEMMA AppendIds ==
  ASSUME NEW s \in Seq(1..MaxWrites), NEW e
  PROVE  /\ Len(s) \in Nat /\ DOMAIN s = 1..Len(s)
         /\ DOMAIN Append(s, e) = 1..(Len(s) + 1)
         /\ Append(s, e)[Len(s) + 1] = e
         /\ \A m \in 1..Len(s) : Append(s, e)[m] = s[m]
         /\ Len(Append(s, e)) = Len(s) + 1 /\ Append(s, e) # << >>
OBVIOUS

\* A new entry gets an id of its own; otherwise Write does not go back.
LEMMA WritesStep ==
  ASSUME TypeOK, CallInv, SizeTracked, [Next]_vars
  PROVE  writes' = writes + 1 \/ (writes' = writes /\ (Writing' => Writing))
<1>1. CASE WriteClosed \/ (\E len \in Lens : WriteBegin(len))
  BY <1>1 DEF WriteClosed, WriteBegin
<1>2. CASE RemoveOldest \/ Rename \/ Reopen
  <2>1. Writing /\ writes' = writes
    BY <1>2 DEF RemoveOldest, Rename, Reopen, Writing
  <2> QED BY <2>1
<1>3. CASE Restart \/ WritePayload \/ WriteNewline
  <2>1. ~Writing' /\ writes' = writes
    BY <1>3 DEF Restart, WritePayload, WriteNewline, Writing
  <2> QED BY <2>1
<1>4. CASE UNCHANGED vars
  BY <1>4 DEF vars, Writing
<1> QED BY <1>1, <1>2, <1>3, <1>4 DEF Next

\* Ids in the files are those of earlier entries.
LEMMA NextFresh ==
  TypeOK /\ CallInv /\ SizeTracked /\ FreshInv /\ [Next]_vars => FreshInv'
<1> SUFFICES ASSUME TypeOK, CallInv, SizeTracked, FreshInv, [Next]_vars,
                    NEW i \in Files, NEW m \in DOMAIN Ids(i)'
             PROVE  Ids(i)'[m] <= writes' /\ (Writing' => Ids(i)'[m] < writes')
  BY DEF FreshInv
<1>0. writes \in Nat /\ 0 \in Files /\ \A j \in Files : Ids(j) \in Seq(1..MaxWrites)
  BY Typed
<1>1. ASSUME NEW j \in Files, NEW n \in DOMAIN Ids(j), Ids(i)'[m] = Ids(j)[n]
      PROVE  Ids(i)'[m] <= writes' /\ (Writing' => Ids(i)'[m] < writes')
  <2> DEFINE a == Ids(j)[n]
  <2>1. a <= writes /\ (Writing => a < writes)
    BY DEF FreshInv
  <2>2. a \in Nat
    BY IdTyped
  <2> HIDE DEF a
  <2>3. a <= writes' /\ (Writing' => a < writes')
    BY <1>0, <2>1, <2>2, WritesStep
  <2> QED BY <1>1, <2>3 DEF a
<1>2. CASE \A j \in Files : Ids(j)' = Ids(j)
  BY <1>1, <1>2
<1>3. CASE \A j \in Files : Ids(j)' = IF j = max_files THEN << >> ELSE Ids(j)
  <2>1. i # max_files
    BY <1>3
  <2> QED BY <1>1, <1>3, <2>1
<1>4. CASE Rename /\ \A j \in Files : Ids(j)' = IF j = index THEN Ids(index - 1)
                                     ELSE IF j = index - 1 THEN << >> ELSE Ids(j)
  <2>1. index - 1 \in Files
    BY <1>4, RenameEffect
  <2>2. CASE i = index
    BY <1>1, <1>4, <2>1, <2>2
  <2>3. CASE i # index
    <3>1. i # index - 1
      BY <1>4, <2>3
    <3> QED BY <1>1, <1>4, <2>3, <3>1
  <2> QED BY <2>2, <2>3
<1>5. CASE WritePayload /\ \A j \in Files :
              Ids(j)' = IF j = 0 THEN Append(Ids(0), writes) ELSE Ids(j)
  <2>1. CASE i # 0
    BY <1>1, <1>5, <2>1
  <2>2. CASE i = 0
    <3> DEFINE s == Ids(0)
    <3>1. s \in Seq(1..MaxWrites) /\ Ids(i)' = Append(s, writes)
      BY <1>0, <1>5, <2>2
    <3>2. CASE m = Len(s) + 1
      <4>1. Ids(i)'[m] = writes
        BY <3>1, <3>2, AppendIds
      <4>2. writes' = writes /\ ~Writing'
        BY <1>5 DEF WritePayload, Writing
      <4> QED BY <1>0, <4>1, <4>2
    <3>3. CASE m # Len(s) + 1
      <4>1. m \in DOMAIN s /\ Ids(i)'[m] = s[m]
        <5> HIDE DEF s
        <5>1. m \in 1..(Len(s) + 1) /\ Len(s) \in Nat /\ DOMAIN s = 1..Len(s)
          BY <3>1, AppendIds
        <5>2. m \in 1..Len(s)
          BY <3>3, <5>1
        <5> QED BY <3>1, <5>1, <5>2, AppendIds
      <4> QED BY <1>0, <1>1, <4>1
    <3> QED BY <3>2, <3>3
  <2> QED BY <2>1, <2>2
<1> QED BY <1>2, <1>3, <1>4, <1>5, IdsStep

\* Renaming keeps files in their order, and the current entry is newer than
\* all others.
LEMMA NextOrder ==
  TypeOK /\ CallInv /\ SizeTracked /\ FreshInv /\ EntriesInOrder /\ [Next]_vars
    => EntriesInOrder'
<1> SUFFICES ASSUME TypeOK, CallInv, SizeTracked, FreshInv, EntriesInOrder, [Next]_vars,
                    NEW i \in Files, NEW j \in Files,
                    NEW m \in DOMAIN Ids(i)', NEW n \in DOMAIN Ids(j)',
                    i > j \/ (i = j /\ m < n)
             PROVE  Ids(i)'[m] < Ids(j)'[n]
  BY DEF EntriesInOrder
<1>0. writes \in Nat /\ 0 \in Files /\ Files \subseteq Nat /\ Ids(0) \in Seq(1..MaxWrites)
  BY Typed
<1>1. ASSUME NEW a \in Files, NEW b \in Files, Ids(i)' = Ids(a), Ids(j)' = Ids(b),
             a > b \/ (a = b /\ m < n)
      PROVE  Ids(i)'[m] < Ids(j)'[n]
  BY <1>1 DEF EntriesInOrder
<1>2. CASE \A k \in Files : Ids(k)' = Ids(k)
  BY <1>1, <1>2
<1>3. CASE \A k \in Files : Ids(k)' = IF k = max_files THEN << >> ELSE Ids(k)
  <2>1. i # max_files /\ j # max_files
    BY <1>3
  <2> QED BY <1>1, <1>3, <2>1
<1>4. CASE Rename /\ \A k \in Files : Ids(k)' = IF k = index THEN Ids(index - 1)
                                     ELSE IF k = index - 1 THEN << >> ELSE Ids(k)
  <2> DEFINE Source(k) == IF k = index THEN index - 1 ELSE k
  <2>1. index - 1 \in Files /\ index \in Nat \ {0}
    BY <1>4, RenameEffect
  <2>2. i # index - 1 /\ j # index - 1
    BY <1>4, <2>1
  <2>3. Ids(i)' = Ids(Source(i)) /\ Ids(j)' = Ids(Source(j))
    BY <1>4, <2>2
  <2>4. Source(i) \in Files /\ Source(j) \in Files
    BY <2>1
  <2>5. Source(i) > Source(j) \/ (Source(i) = Source(j) /\ m < n)
    BY <1>0, <2>1, <2>2
  <2> HIDE DEF Source
  <2> QED BY <1>1, <2>3, <2>4, <2>5
<1>5. CASE WritePayload /\ \A k \in Files :
              Ids(k)' = IF k = 0 THEN Append(Ids(0), writes) ELSE Ids(k)
  <2> DEFINE s == Ids(0)
             l == Len(s)
  <2>0. /\ s \in Seq(1..MaxWrites) /\ l \in Nat /\ DOMAIN s = 1..l
        /\ DOMAIN Append(s, writes) = 1..(l + 1)
        /\ Append(s, writes)[l + 1] = writes
        /\ \A k \in 1..l : Append(s, writes)[k] = s[k]
    BY <1>0, AppendIds
  <2>1. \A k \in Files : Ids(k)' = IF k = 0 THEN Append(s, writes) ELSE Ids(k)
    BY <1>5
  <2>2. Writing
    BY <1>5 DEF WritePayload, Writing
  <2>3. s = Ids(0)
    OBVIOUS
  <2> HIDE DEF s, l
  <2>4. m \in DOMAIN Ids(i) /\ Ids(i)'[m] = Ids(i)[m]
    <3>1. CASE i # 0
      BY <2>1, <3>1
    <3>2. CASE i = 0
      <4>1. j = 0 /\ m < n
        BY <1>0, <3>2
      <4>2. n \in 1..(l + 1) /\ m \in 1..(l + 1)
        BY <2>0, <2>1, <3>2, <4>1
      <4>3. m \in 1..l
        BY <2>0, <4>1, <4>2
      <4> QED BY <2>0, <2>1, <2>3, <3>2, <4>3
    <3> QED BY <3>1, <3>2
  <2>5. CASE j = 0 /\ n = l + 1
    <3>1. Ids(j)'[n] = writes
      BY <2>0, <2>1, <2>5
    <3>2. Ids(i)[m] < writes
      BY <2>2, <2>4 DEF FreshInv
    <3> QED BY <2>4, <3>1, <3>2
  <2>6. CASE ~(j = 0 /\ n = l + 1)
    <3>1. n \in DOMAIN Ids(j) /\ Ids(j)'[n] = Ids(j)[n]
      <4>1. CASE j # 0
        BY <2>1, <4>1
      <4>2. CASE j = 0
        <5>1. n \in 1..(l + 1) /\ n # l + 1
          BY <2>0, <2>1, <2>6, <4>2
        <5>2. n \in 1..l
          BY <2>0, <5>1
        <5> QED BY <2>0, <2>1, <2>3, <4>2, <5>2
      <4> QED BY <4>1, <4>2
    <3>2. Ids(i)[m] < Ids(j)[n]
      BY <2>4, <3>1 DEF EntriesInOrder
    <3> QED BY <2>4, <3>1, <3>2
  <2> QED BY <2>5, <2>6
<1> QED BY <1>2, <1>3, <1>4, <1>5, IdsStep

\* Read from the oldest file to the current one, entries are in the order they
\* were written and none appears twice, whatever was killed or failed.
THEOREM EntriesInOrderCorrect == Spec => []EntriesInOrder
<1>1. RotatingInv => TypeOK /\ CallInv /\ SizeTracked /\ FreshInv /\ EntriesInOrder
  BY DEF RotatingInv
<1> QED BY <1>1, InitRotating, CoreStep, NextFresh, NextOrder, PTL DEF Spec

-----------------------------------------------------------------------------
(***************************************************************************)
(* What rotation discards.                                                 *)
(***************************************************************************)
\* A failure is never forgotten, and neither is an entry that was too large.
LEMMA HistoryStep ==
  ASSUME TypeOK, CallInv, SizeTracked, [Next]_vars
  PROVE  (faults' = 0 => faults = 0) /\ (~oversize' => ~oversize)
<1>1. CASE WriteClosed \/ RemoveOldest \/ UNCHANGED vars
  BY <1>1 DEF WriteClosed, RemoveOldest, vars
<1>2. CASE \E len \in Lens : WriteBegin(len)
  <2>1. PICK len \in Lens : WriteBegin(len)
    BY <1>2
  <2> QED BY <2>1 DEF WriteBegin
<1>3. CASE Rename
  BY <1>3, RenameEffect DEF Rename
<1>4. CASE Reopen \/ Restart
  <2>1. OpenFile /\ oversize' = oversize
    BY <1>4 DEF Reopen, Restart
  <2> QED BY <2>1, OpenEffect
<1>5. CASE WritePayload
  BY <1>5, PayloadEffect
<1>6. CASE WriteNewline
  BY <1>6, NewlineEffect
<1> QED BY <1>1, <1>2, <1>3, <1>4, <1>5, <1>6 DEF Next

\* The loop of Rotate leaves a free place behind each file it moves.
LEMMA NextGap == TypeOK /\ CallInv /\ SizeTracked /\ GapInv /\ [Next]_vars => GapInv'
<1> SUFFICES ASSUME TypeOK, CallInv, SizeTracked, GapInv, [Next]_vars, faults' = 0,
                    pc' = "rename" \/ (pc' = "rotate" /\ index' < max_files)
             PROVE  disk'[index'] = Absent
  BY DEF GapInv
<1>0. max_files \in Nat /\ faults = 0
  BY Typed, HistoryStep
<1>1. CASE RemoveOldest
  BY <1>1, RemoveEffect
<1>2. CASE Rename
  <2>1. index' = index - 1
    BY <1>2 DEF Rename
  <2> QED BY <1>2, <2>1, RenameEffect
<1>3. ASSUME NEW len \in Lens, WriteBegin(len) PROVE FALSE
  <2>1. CASE NeedsRotation(len)
    <3>1. pc' = "rotate" /\ index' = max_files
      BY <1>3, <2>1 DEF WriteBegin
    <3> QED BY <1>0, <3>1
  <2>2. CASE ~NeedsRotation(len)
    BY <1>3, <2>2 DEF WriteBegin
  <2> QED BY <2>1, <2>2
<1>4. CASE WriteClosed \/ Reopen \/ Restart \/ WritePayload \/ WriteNewline
  BY <1>4 DEF WriteClosed, Reopen, Restart, WritePayload, WriteNewline
<1>5. CASE UNCHANGED vars
  BY <1>0, <1>5 DEF vars, GapInv
<1> QED BY <1>1, <1>2, <1>3, <1>4, <1>5 DEF Next

\* A file that is not empty holds an entry.
LEMMA NextFull == TypeOK /\ CallInv /\ SizeTracked /\ FullInv /\ [Next]_vars => FullInv'
<1> SUFFICES ASSUME TypeOK, CallInv, SizeTracked, FullInv, [Next]_vars, faults' = 0
             PROVE  FullInv'
  BY DEF FullInv
<1>0. /\ max_files \in Nat /\ 0 \in Files /\ faults = 0 /\ current_size \in Nat
      /\ max_file_size \in Nat /\ Ids(0) \in Seq(1..MaxWrites)
      /\ \A i \in Files : disk[i] = Absent \/ disk[i] \in Contents
  BY Typed, HistoryStep
<1>a. /\ \A i \in Files : disk[i] # Absent /\ disk[i].size > 0 => Ids(i) # << >>
      /\ pc = "newline" => Ids(0) # << >>
      /\ pc = "rotate" /\ index = max_files /\ index > 0 /\ ~oversize => Ids(0) # << >>
  BY <1>0 DEF FullInv
<1>b. ASSUME NEW i \in Files, disk'[i] = disk[i]
      PROVE  disk'[i] # Absent /\ disk'[i].size > 0 => Ids(i)' # << >>
  BY <1>a, <1>b DEF Ids
<1>1. CASE WriteClosed
  <2>1. pc' = "idle" /\ disk' = disk
    BY <1>1 DEF WriteClosed
  <2> QED BY <1>b, <2>1 DEF FullInv
<1>2. ASSUME NEW len \in Lens, WriteBegin(len) PROVE FullInv'
  <2>1. /\ fd_open /\ disk' = disk /\ pc' \in {"rotate", "payload"}
        /\ pc' = "rotate" => NeedsRotation(len)
        /\ oversize' = (oversize \/ TooLarge(len))
    BY <1>2 DEF WriteBegin
  <2>2. ASSUME pc' = "rotate", ~oversize' PROVE Ids(0) # << >>
    <3>1. current_size + len + 1 > max_file_size /\ ~(len + 1 > max_file_size)
      BY <2>1, <2>2 DEF NeedsRotation, TooLarge
    <3>2. len \in Nat
      BY LensAssumption
    <3>3. current_size > 0
      BY <1>0, <3>1, <3>2
    <3> QED BY <1>0, <1>a, <2>1, <3>3 DEF SizeTracked
  <2>3. Ids(0)' = Ids(0)
    BY <2>1 DEF Ids
  <2> QED BY <1>b, <2>1, <2>2, <2>3 DEF FullInv
<1>3. CASE RemoveOldest
  <2>1. /\ pc' = "rename" /\ disk'[max_files] = Absent
        /\ \A i \in Files : i # max_files => disk'[i] = disk[i]
    BY <1>3, RemoveEffect
  <2> QED BY <1>b, <2>1 DEF FullInv
<1>4. CASE Rename
  <2>1. pc' = "rotate" /\ index' = index - 1
    BY <1>4 DEF Rename
  <2>2. index \in Nat /\ index <= max_files /\ index - 1 \in Files
    BY <1>4, Typed, RenameEffect
  <2>3. index' # max_files
    BY <1>0, <2>1, <2>2
  <2>4. ASSUME NEW i \in Files
        PROVE  disk'[i] # Absent /\ disk'[i].size > 0 => Ids(i)' # << >>
    <3>1. CASE disk'[i] = disk[i]
      BY <1>b, <3>1
    <3>2. CASE disk'[i] # disk[i]
      <4>1. disk'[i] = Absent \/ disk'[i] = disk[index - 1]
        BY <1>4, <3>2, RenameEffect
      <4>2. disk'[i] # Absent => Ids(i)' = Ids(index - 1)
        BY <4>1 DEF Ids
      <4> QED BY <1>a, <2>2, <4>1, <4>2
    <3> QED BY <3>1, <3>2
  <2> QED BY <2>1, <2>3, <2>4 DEF FullInv
<1>5. CASE Reopen \/ Restart
  <2>1. OpenFile /\ pc' \in {"payload", "idle"}
    BY <1>5 DEF Reopen, Restart
  <2>2. ASSUME NEW i \in Files
        PROVE  disk'[i] # Absent /\ disk'[i].size > 0 => Ids(i)' # << >>
    <3>1. CASE disk'[i] = disk[i]
      BY <1>b, <3>1
    <3>2. CASE disk'[i] # disk[i]
      <4>1. disk'[i] = NewFile
        BY <2>1, <3>2, OpenEffect
      <4> QED BY <4>1, NewFileTyped
    <3> QED BY <3>1, <3>2
  <2> QED BY <2>1, <2>2 DEF FullInv
<1>6. CASE WritePayload
  <2>1. Ids(0)' = Append(Ids(0), writes) /\ pc' = "newline"
    BY <1>6, PayloadEffect
  <2>2. Ids(0)' # << >>
    BY <1>0, <2>1, AppendIds
  <2>3. \A i \in Files : i # 0 => disk'[i] = disk[i]
    BY <1>6, PayloadEffect
  <2> QED BY <1>b, <2>1, <2>2, <2>3 DEF FullInv
<1>7. CASE WriteNewline
  <2>1. /\ pc = "newline" /\ pc' = "idle" /\ Ids(0)' = Ids(0)
        /\ \A i \in Files : i # 0 => disk'[i] = disk[i]
    BY <1>0, <1>7, NewlineEffect
  <2> QED BY <1>a, <1>b, <2>1 DEF FullInv
<1>8. CASE UNCHANGED vars
  BY <1>a, <1>8 DEF vars, FullInv, Ids
<1> QED BY <1>1, <1>2, <1>3, <1>4, <1>5, <1>6, <1>7, <1>8 DEF Next

\* An id is kept when it stands in some file.
LEMMA KeptMeans ==
  /\ \A k : k \in Kept <=> \E i \in Files : \E m \in DOMAIN Ids(i) : k = Ids(i)[m]
  /\ \A k : k \in Kept' <=> \E i \in Files : \E m \in DOMAIN Ids(i)' : k = Ids(i)'[m]
<1>1. \A k : k \in Kept <=> \E i \in Files : \E m \in DOMAIN Ids(i) : k = Ids(i)[m]
  BY DEF Kept, ToSet
<1>2. \A k : k \in Kept' <=> \E i \in Files : \E m \in DOMAIN Ids(i)' : k = Ids(i)'[m]
  BY DEF Kept, ToSet
<1> QED BY <1>1, <1>2

\* The entries whose text was written.
All == (1..writes) \ (lost \cup Unwritten)

\* Only writing the text of an entry adds to these.
LEMMA AllStep ==
  ASSUME TypeOK, CallInv, SizeTracked, [Next]_vars, faults' = 0
  PROVE  All' \subseteq All \/ (WritePayload /\ All' \subseteq All \cup {writes})
<1>0. writes \in Nat
  BY Typed
<1>1. CASE WriteClosed
  <2>1. pc = "idle" /\ pc' = pc /\ writes' = writes + 1 /\ lost' = lost \cup {writes + 1}
    BY <1>1 DEF WriteClosed
  <2>2. Unwritten = {} /\ Unwritten' = {}
    BY <2>1 DEF Unwritten
  <2> QED BY <1>0, <2>1, <2>2 DEF All
<1>2. ASSUME NEW len \in Lens, WriteBegin(len) PROVE All' \subseteq All
  <2>1. /\ pc = "idle" /\ writes' = writes + 1 /\ lost' = lost
        /\ chunk' = [id |-> writes + 1, size |-> len] /\ pc' \in {"rotate", "payload"}
    BY <1>2 DEF WriteBegin
  <2>2. Unwritten = {} /\ Unwritten' = {writes + 1}
    BY <2>1 DEF Unwritten
  <2> QED BY <1>0, <2>1, <2>2 DEF All
<1>3. CASE RemoveOldest \/ Rename
  <2>1. /\ pc \in {"rotate", "rename"} /\ pc' \in {"rotate", "rename"}
        /\ UNCHANGED <<chunk, writes, lost>>
    BY <1>3 DEF RemoveOldest, Rename
  <2>2. Unwritten' = Unwritten
    BY <2>1 DEF Unwritten
  <2> QED BY <2>1, <2>2 DEF All
<1>4. CASE Reopen
  <2>1. fd_open'
    BY <1>4, OpenEffect DEF Reopen
  <2>2. pc = "rotate" /\ pc' = "payload" /\ UNCHANGED <<chunk, writes, lost>>
    BY <1>4, <2>1 DEF Reopen
  <2>3. Unwritten' = Unwritten
    BY <2>2 DEF Unwritten
  <2> QED BY <2>2, <2>3 DEF All
<1>5. CASE Restart
  BY <1>5 DEF Restart, All
<1>6. CASE WritePayload
  <2>1. pc = "payload" /\ chunk.id = writes /\ lost' = lost /\ writes' = writes
    BY <1>6, PayloadEffect
  <2>2. Unwritten = {writes}
    BY <2>1 DEF Unwritten
  <2> QED BY <1>6, <2>1, <2>2 DEF All
<1>7. CASE WriteNewline
  <2>1. pc = "newline" /\ lost' = lost /\ writes' = writes
    BY <1>7, NewlineEffect
  <2>2. Unwritten = {}
    BY <2>1 DEF Unwritten
  <2> QED BY <2>1, <2>2 DEF All
<1>8. CASE UNCHANGED vars
  BY <1>8 DEF vars, All, Unwritten
<1> QED BY <1>1, <1>2, <1>3, <1>4, <1>5, <1>6, <1>7, <1>8 DEF Next

\* Rotation discards the oldest entries only: remove takes the oldest file, and
\* a rename finds its target free.
LEMMA NextHole ==
  /\ TypeOK /\ CallInv /\ SizeTracked /\ EntriesInOrder
  /\ GapInv /\ FullInv /\ NoHole /\ [Next]_vars
  => NoHole'
<1> SUFFICES ASSUME TypeOK, CallInv, SizeTracked, EntriesInOrder,
                    GapInv, FullInv, NoHole, [Next]_vars, faults' = 0,
                    NEW id \in All', id \notin Kept'
             PROVE  (\A k \in Kept' : id < k) /\ (~oversize' => Kept' # {})
  BY DEF NoHole, All
<1>0. /\ writes \in Nat /\ 0 \in Files /\ max_files \in Files /\ Files = 0..max_files
      /\ max_files \in Nat /\ faults = 0 /\ (~oversize' => ~oversize)
      /\ \A j \in Files : Ids(j) \in Seq(1..MaxWrites)
  BY Typed, HistoryStep DEF Files
<1>1. \A x \in All : x \notin Kept => (\A k \in Kept : x < k) /\ (~oversize => Kept # {})
  BY <1>0 DEF NoHole, All
<1>2. CASE \A i \in Files : Ids(i)' = Ids(i)
  <2>1. Kept' = Kept
    BY <1>2, KeptMeans
  <2>2. CASE id \in All
    BY <1>0, <1>1, <2>1, <2>2
  <2>3. CASE id \notin All
    <3>1. WritePayload /\ id = writes
      BY <2>3, AllStep
    <3>2. Ids(0)' = Append(Ids(0), writes)
      BY <3>1, PayloadEffect
    <3>3. Len(Ids(0)') # Len(Ids(0))
      BY <1>0, <3>2, AppendIds
    <3> QED BY <1>0, <1>2, <3>3
  <2> QED BY <2>2, <2>3
<1>3. CASE /\ RemoveOldest
           /\ \A i \in Files : Ids(i)' = IF i = max_files THEN << >> ELSE Ids(i)
  <2>1. /\ pc = "rotate" /\ index = max_files /\ index > 0 /\ max_files # 0
        /\ oversize' = oversize
    BY <1>3, RemoveEffect
  <2>2. \A k \in Kept' :
           \E i \in Files : i < max_files /\ \E m \in DOMAIN Ids(i) : k = Ids(i)[m]
    <3> SUFFICES ASSUME NEW k \in Kept'
                 PROVE  \E i \in Files : /\ i < max_files
                                         /\ \E m \in DOMAIN Ids(i) : k = Ids(i)[m]
      OBVIOUS
    <3>0. PICK i \in Files : \E m \in DOMAIN Ids(i)' : k = Ids(i)'[m]
      BY KeptMeans
    <3>1. PICK m \in DOMAIN Ids(i)' : k = Ids(i)'[m]
      BY <3>0
    <3>2. i # max_files
      BY <1>3, <3>1
    <3> QED BY <1>0, <1>3, <3>1, <3>2
  <2>3. Kept' \subseteq Kept
    BY <2>2, KeptMeans
  <2>4. id \in All
    BY <1>3, AllStep DEF RemoveOldest, WritePayload
  <2>5. \A k \in Kept' : id < k
    <3>1. CASE id \notin Kept
      BY <1>1, <2>3, <2>4, <3>1
    <3>2. CASE id \in Kept
      <4>0. PICK i \in Files : \E m \in DOMAIN Ids(i) : id = Ids(i)[m]
        BY <3>2, KeptMeans
      <4>1. PICK m \in DOMAIN Ids(i) : id = Ids(i)[m]
        BY <4>0
      <4>2. i = max_files
        <5>1. i # max_files => id \in Kept'
          BY <1>3, <4>1, KeptMeans
        <5> QED BY <5>1
      <4>3. ASSUME NEW k \in Kept' PROVE id < k
        <5>0. PICK j \in Files : \E n \in DOMAIN Ids(j) : j < max_files /\ k = Ids(j)[n]
          BY <2>2
        <5>1. PICK n \in DOMAIN Ids(j) : j < max_files /\ k = Ids(j)[n]
          BY <5>0
        <5>2. i > j
          BY <1>0, <4>2, <5>1
        <5> QED BY <4>1, <5>1, <5>2 DEF EntriesInOrder
      <4> QED BY <4>3
    <3> QED BY <3>1, <3>2
  <2>6. ~oversize => Kept' # {}
    <3> HAVE ~oversize
    <3> DEFINE s == Ids(0)
    <3>1. s # << >> /\ s \in Seq(1..MaxWrites)
      BY <1>0, <2>1 DEF FullInv
    <3>2. Ids(0)' = s
      BY <1>0, <1>3, <2>1
    <3> HIDE DEF s
    <3>3. 1 \in DOMAIN s
      BY <3>1
    <3>4. s[1] \in Kept'
      BY <1>0, <3>2, <3>3, KeptMeans
    <3> QED BY <3>4
  <2> QED BY <2>1, <2>5, <2>6
<1>4. CASE /\ Rename
           /\ \A i \in Files : Ids(i)' = IF i = index THEN Ids(index - 1)
                                         ELSE IF i = index - 1 THEN << >> ELSE Ids(i)
  <2>1. index \in Files /\ index - 1 \in Files /\ index \in Nat \ {0}
    BY <1>4, RenameEffect
  <2>2. Ids(index) = << >>
    <3>1. disk[index] = Absent
      BY <1>0, <1>4 DEF Rename, GapInv
    <3> QED BY <3>1 DEF Ids
  <2>3. ASSUME NEW k \in Kept' PROVE k \in Kept
    <3>0. PICK i \in Files : \E m \in DOMAIN Ids(i)' : k = Ids(i)'[m]
      BY KeptMeans
    <3>1. PICK m \in DOMAIN Ids(i)' : k = Ids(i)'[m]
      BY <3>0
    <3>2. \E j \in Files : Ids(i)' = Ids(j)
      <4>1. i # index - 1 \/ i = index
        BY <1>4, <3>1
      <4> QED BY <1>4, <2>1, <4>1
    <3> QED BY <3>1, <3>2, KeptMeans
  <2>4. ASSUME NEW k \in Kept PROVE k \in Kept'
    <3>0. PICK i \in Files : \E m \in DOMAIN Ids(i) : k = Ids(i)[m]
      BY KeptMeans
    <3>1. PICK m \in DOMAIN Ids(i) : k = Ids(i)[m]
      BY <3>0
    <3>2. i # index
      BY <2>2, <3>1
    <3>3. \E j \in Files : Ids(j)' = Ids(i)
      <4>1. CASE i = index - 1
        BY <1>4, <2>1, <4>1
      <4>2. CASE i # index - 1
        BY <1>4, <3>2, <4>2
      <4> QED BY <4>1, <4>2
    <3> QED BY <3>1, <3>3, KeptMeans
  <2>5. Kept' = Kept
    BY <2>3, <2>4
  <2>6. id \in All
    <3>1. ~WritePayload
      BY <1>4 DEF Rename, WritePayload
    <3> QED BY <3>1, AllStep
  <2> QED BY <1>0, <1>1, <2>5, <2>6
<1>5. CASE /\ WritePayload
           /\ \A i \in Files : Ids(i)' = IF i = 0 THEN Append(Ids(0), writes) ELSE Ids(i)
  <2> DEFINE s == Ids(0)
             l == Len(s)
  <2>0. /\ s \in Seq(1..MaxWrites) /\ l \in Nat /\ DOMAIN s = 1..l
        /\ DOMAIN Append(s, writes) = 1..(l + 1)
        /\ Append(s, writes)[l + 1] = writes
        /\ \A k \in 1..l : Append(s, writes)[k] = s[k]
    BY <1>0, AppendIds
  <2>1. Ids(0)' = Append(s, writes) /\ \A i \in Files : i # 0 => Ids(i)' = Ids(i)
    BY <1>0, <1>5
  <2>2. s = Ids(0)
    OBVIOUS
  <2> HIDE DEF s, l
  <2>3. writes \in Kept'
    <3>1. l + 1 \in DOMAIN Ids(0)' /\ Ids(0)'[l + 1] = writes
      BY <2>0, <2>1
    <3> QED BY <1>0, <3>1, KeptMeans
  <2>4. ASSUME NEW k \in Kept PROVE k \in Kept'
    <3>0. PICK i \in Files : \E m \in DOMAIN Ids(i) : k = Ids(i)[m]
      BY KeptMeans
    <3>1. PICK m \in DOMAIN Ids(i) : k = Ids(i)[m]
      BY <3>0
    <3>2. m \in DOMAIN Ids(i)' /\ Ids(i)'[m] = k
      <4>1. CASE i = 0
        <5>1. m \in 1..l
          BY <2>0, <2>2, <3>1, <4>1
        <5>2. m \in 1..(l + 1)
          BY <2>0, <5>1
        <5> QED BY <2>0, <2>1, <2>2, <3>1, <4>1, <5>1, <5>2
      <4>2. CASE i # 0
        BY <2>1, <3>1, <4>2
      <4> QED BY <4>1, <4>2
    <3> QED BY <3>2, KeptMeans
  <2>5. ASSUME NEW k \in Kept' PROVE k = writes \/ k \in Kept
    <3>0. PICK i \in Files : \E m \in DOMAIN Ids(i)' : k = Ids(i)'[m]
      BY KeptMeans
    <3>1. PICK m \in DOMAIN Ids(i)' : k = Ids(i)'[m]
      BY <3>0
    <3>2. CASE i # 0
      BY <2>1, <3>1, <3>2, KeptMeans
    <3>3. CASE i = 0
      <4>1. m \in 1..(l + 1)
        BY <2>0, <2>1, <3>1, <3>3
      <4>2. CASE m = l + 1
        BY <2>0, <2>1, <3>1, <3>3, <4>2
      <4>3. CASE m # l + 1
        <5>1. m \in 1..l
          BY <2>0, <4>1, <4>3
        <5>2. k = Ids(0)[m] /\ m \in DOMAIN Ids(0)
          BY <2>0, <2>1, <2>2, <3>1, <3>3, <5>1
        <5> QED BY <1>0, <5>2, KeptMeans
      <4> QED BY <4>2, <4>3
    <3> QED BY <3>2, <3>3
  <2>6. id \in All /\ id # writes
    BY <2>3, AllStep
  <2>7. id < writes /\ id \notin Kept
    BY <1>0, <2>4, <2>6 DEF All
  <2> QED BY <1>1, <2>3, <2>5, <2>6, <2>7
<1> QED BY <1>2, <1>3, <1>4, <1>5, IdsStep

\* Of the entries that were written the files hold the most recent ones without
\* a hole, at every step of a rotation, so also when the process is killed
\* there, as long as no system call has failed.
THEOREM NoHoleCorrect == Spec => []NoHole
<1> DEFINE Inv == /\ TypeOK /\ CallInv /\ SizeTracked /\ FreshInv /\ EntriesInOrder
                  /\ GapInv /\ FullInv /\ NoHole
<1>1. Init => Inv
  BY InitRotating DEF RotatingInv
<1>2. Inv /\ [Next]_vars => Inv'
  <2> SUFFICES ASSUME Inv, [Next]_vars PROVE Inv'
    OBVIOUS
  <2>1. TypeOK' /\ CallInv' /\ SizeTracked'
    BY CoreStep
  <2>2. FreshInv' /\ EntriesInOrder'
    BY NextFresh, NextOrder
  <2>3. GapInv' /\ FullInv'
    BY NextGap, NextFull
  <2>4. NoHole'
    BY NextHole
  <2> QED BY <2>1, <2>2, <2>3, <2>4
<1>3. Inv => NoHole
  OBVIOUS
<1> HIDE DEF Inv
<1> QED BY <1>1, <1>2, <1>3, PTL DEF Spec

-----------------------------------------------------------------------------
(***************************************************************************)
(* The size of the files.                                                  *)
(***************************************************************************)
\* What is written fits, because the size test counts the line and its newline
\* and a rotation starts with an empty file.
LEMMA NextRoom ==
  /\ TypeOK /\ CallInv /\ SizeTracked /\ GapInv /\ RoomInv /\ FilesBounded
  /\ [Next]_vars
  => RoomInv' /\ FilesBounded'
<1> SUFFICES ASSUME TypeOK, CallInv, SizeTracked, GapInv, RoomInv, FilesBounded,
                    [Next]_vars, faults' = 0, max_files > 0
             PROVE  /\ pc' = "payload" =>
                          \/ Len(Ids(0)') = 0
                          \/ disk'[0].size + chunk'.size + 1 <= max_file_size
                    /\ pc' = "newline" =>
                          Len(Ids(0)') <= 1 \/ disk'[0].size + 1 <= max_file_size
                    /\ \A i \in Files :
                          disk'[i] # Absent /\ disk'[i].size > max_file_size =>
                              Len(Ids(i)') <= 1
  BY DEF RoomInv, FilesBounded
<1>0. /\ max_files \in Nat /\ max_file_size \in Nat /\ 0 \in Files /\ faults = 0
      /\ current_size \in Nat /\ chunk.size \in Nat \ {0}
      /\ Ids(0) \in Seq(1..MaxWrites)
      /\ \A i \in Files : disk[i] = Absent \/ disk[i] \in Contents
  BY Typed, HistoryStep
<1>a. /\ pc = "payload" =>
            Len(Ids(0)) = 0 \/ disk[0].size + chunk.size + 1 <= max_file_size
      /\ pc = "newline" => Len(Ids(0)) <= 1 \/ disk[0].size + 1 <= max_file_size
      /\ \A i \in Files :
            disk[i] # Absent /\ disk[i].size > max_file_size => Len(Ids(i)) <= 1
  BY <1>0 DEF RoomInv, FilesBounded
<1>b. ASSUME NEW i \in Files, disk'[i] = disk[i]
      PROVE  disk'[i] # Absent /\ disk'[i].size > max_file_size => Len(Ids(i)') <= 1
  BY <1>a, <1>b DEF Ids
<1>1. CASE WriteClosed
  <2>1. pc' = "idle" /\ disk' = disk
    BY <1>1 DEF WriteClosed
  <2> QED BY <1>b, <2>1
<1>2. ASSUME NEW len \in Lens, WriteBegin(len)
      PROVE  /\ disk' = disk /\ pc' # "newline"
             /\ pc' = "payload" => disk'[0].size + chunk'.size + 1 <= max_file_size
  <2>1. /\ fd_open /\ disk' = disk /\ pc' \in {"rotate", "payload"}
        /\ pc' = "payload" => ~NeedsRotation(len)
        /\ chunk' = [id |-> writes + 1, size |-> len]
    BY <1>2 DEF WriteBegin
  <2>2. len \in Nat /\ chunk'.size = len /\ current_size = disk[0].size
    BY <2>1, LensAssumption DEF SizeTracked
  <2>3. ~NeedsRotation(len) => current_size + len + 1 <= max_file_size
    BY <1>0, <2>2 DEF NeedsRotation
  <2> QED BY <2>1, <2>2, <2>3
<1>3. CASE RemoveOldest
  <2>1. /\ pc' = "rename" /\ disk'[max_files] = Absent
        /\ \A i \in Files : i # max_files => disk'[i] = disk[i]
    BY <1>3, RemoveEffect
  <2> QED BY <1>b, <2>1
<1>4. CASE Rename
  <2>1. pc' = "rotate" /\ index - 1 \in Files
    BY <1>4, RenameEffect DEF Rename
  <2>2. ASSUME NEW i \in Files, disk'[i] # disk[i]
        PROVE  disk'[i] # Absent /\ disk'[i].size > max_file_size => Len(Ids(i)') <= 1
    <3>1. disk'[i] = Absent \/ disk'[i] = disk[index - 1]
      BY <1>4, <2>2, RenameEffect
    <3>2. disk'[i] # Absent => Ids(i)' = Ids(index - 1)
      BY <3>1 DEF Ids
    <3> QED BY <1>a, <2>1, <3>1, <3>2
  <2> QED BY <1>b, <2>1, <2>2
<1>5. CASE Reopen \/ Restart
  <2>1. OpenFile
    BY <1>5 DEF Reopen, Restart
  <2>2. ASSUME NEW i \in Files, disk'[i] # disk[i]
        PROVE  disk'[i] # Absent /\ disk'[i].size > max_file_size => Len(Ids(i)') <= 1
    <3>1. disk'[i] = NewFile
      BY <2>1, <2>2, OpenEffect
    <3> QED BY <1>0, <3>1, NewFileTyped
  <2>3. pc' # "newline" /\ (pc' = "payload" => Len(Ids(0)') = 0)
    <3>1. CASE Restart
      BY <3>1 DEF Restart
    <3>2. CASE Reopen
      <4>1. pc = "rotate" /\ index = 0 /\ pc' \in {"payload", "idle"}
        BY <3>2 DEF Reopen
      <4>2. disk[0] = Absent
        BY <1>0, <4>1 DEF GapInv
      <4>3. Ids(0)' = << >>
        BY <1>0, <2>1, <4>2, OpenEffect DEF Ids
      <4> QED BY <4>1, <4>3
    <3> QED BY <1>5, <3>1, <3>2
  <2> QED BY <1>b, <2>2, <2>3
<1>6. CASE WritePayload
  <2>1. /\ pc = "payload" /\ pc' = "newline" /\ Ids(0)' = Append(Ids(0), writes)
        /\ disk'[0].size = disk[0].size + chunk.size /\ disk[0] # Absent
    BY <1>6, PayloadEffect
  <2>2. Len(Ids(0)') = Len(Ids(0)) + 1 /\ Len(Ids(0)) \in Nat
    BY <1>0, <2>1, AppendIds
  <2>3. disk[0].size \in Nat
    BY <1>0, <2>1 DEF Contents
  <2>4. Len(Ids(0)') = 1 \/ disk'[0].size + 1 <= max_file_size
    <3>1. CASE Len(Ids(0)) = 0
      <4>1. Len(Ids(0)') = 0 + 1
        BY <2>2, <3>1
      <4> QED BY <4>1
    <3>2. CASE disk[0].size + chunk.size + 1 <= max_file_size
      BY <2>1, <3>2
    <3> QED BY <1>a, <2>1, <3>1, <3>2
  <2>5. disk'[0].size > max_file_size => Len(Ids(0)') <= 1
    BY <1>0, <2>1, <2>3, <2>4
  <2>6. \A i \in Files : i # 0 => disk'[i] = disk[i]
    BY <1>6, PayloadEffect
  <2> QED BY <1>b, <2>1, <2>4, <2>5, <2>6
<1>7. CASE WriteNewline
  <2>1. /\ pc = "newline" /\ pc' = "idle" /\ Ids(0)' = Ids(0)
        /\ disk'[0].size = disk[0].size + 1 /\ disk[0] # Absent
        /\ \A i \in Files : i # 0 => disk'[i] = disk[i]
    BY <1>0, <1>7, NewlineEffect
  <2>2. disk[0].size \in Nat
    BY <1>0, <2>1 DEF Contents
  <2>3. disk'[0].size > max_file_size => Len(Ids(0)') <= 1
    BY <1>0, <1>a, <2>1, <2>2
  <2> QED BY <1>b, <2>1, <2>3
<1>8. CASE UNCHANGED vars
  <2>1. disk' = disk /\ pc' = pc /\ chunk' = chunk /\ Ids(0)' = Ids(0)
    BY <1>8 DEF vars, Ids
  <2> QED BY <1>a, <1>b, <2>1
<1> QED BY <1>b, <1>1, <1>2, <1>3, <1>4, <1>5, <1>6, <1>7, <1>8 DEF Next

\* As long as no system call has failed, no file outgrows max_file_size_, also
\* when a restart reopens one that ends in the middle of a line, except a file
\* that holds a single entry too large for any.
THEOREM FilesBoundedCorrect == Spec => []FilesBounded
<1> DEFINE Inv == TypeOK /\ CallInv /\ SizeTracked /\ GapInv /\ RoomInv /\ FilesBounded
<1>1. Init => Inv
  BY InitRotating DEF RotatingInv
<1>2. Inv /\ [Next]_vars => Inv'
  BY CoreStep, NextGap, NextRoom
<1>3. Inv => FilesBounded
  OBVIOUS
<1> HIDE DEF Inv
<1> QED BY <1>1, <1>2, <1>3, PTL DEF Spec
=============================================================================
