------------------------ MODULE DailyFileSink_proofs ------------------------
(***************************************************************************)
(* Proofs about DailyFileSink, for any length of a day, any max_days_ and  *)
(* any number of writes, failures, restarts and settings of the clock.     *)
(***************************************************************************)
EXTENDS DailyFileSink, FiniteSetTheorems, TLAPS

-----------------------------------------------------------------------------
(***************************************************************************)
(* What \div does to a point in time.                                      *)
(***************************************************************************)
\* A product with a factor of at least 1 is no smaller than the other factor.
LEMMA MulBound ==
  ASSUME NEW c \in Nat, NEW d \in Int, d >= 1
  PROVE  c * d >= c
OBVIOUS

\* What \div and % are, for natural numbers.
LEMMA DivDef ==
  ASSUME NEW c \in Nat \ {0}, NEW a \in Nat
  PROVE  /\ a \div c \in Nat /\ a % c \in 0..(c-1) /\ a = c * (a \div c) + (a % c)
OBVIOUS

\* Quotient and remainder are determined by these facts.
LEMMA ModUnique ==
  ASSUME NEW c \in Nat \ {0}, NEW a \in Nat, NEW q \in Int, NEW r \in 0..(c - 1),
         a = c * q + r
  PROVE  a % c = r /\ a \div c = q
<1> DEFINE p == a \div c
           s == a % c
<1>1. p \in Nat /\ s \in 0..(c-1) /\ a = c * p + s
  BY DivDef
<1> HIDE DEF p, s
<1>2. c * (q - p) = s - r /\ c * (p - q) = r - s
  BY <1>1
<1>3. ~(q - p >= 1)
  BY <1>1, <1>2, MulBound
<1>4. ~(p - q >= 1)
  BY <1>1, <1>2, MulBound
<1>5. p = q
  BY <1>1, <1>3, <1>4
<1>6. s = r
  BY <1>1, <1>5
<1> QED BY <1>5, <1>6 DEF p, s

\* \div is monotonic.
LEMMA DivMono ==
  ASSUME NEW c \in Nat \ {0}, NEW a \in Nat, NEW b \in Nat, a <= b
  PROVE  a \div c <= b \div c
<1> DEFINE p == a \div c
           q == b \div c
           r == a % c
           s == b % c
<1>1. /\ p \in Nat /\ r \in 0..(c - 1) /\ a = c * p + r
      /\ q \in Nat /\ s \in 0..(c - 1) /\ b = c * q + s
  BY DivDef
<1> SUFFICES ASSUME p > q PROVE FALSE
  BY <1>1
<1> HIDE DEF p, q, r, s
<1>2. c * (p - q) >= c
  BY <1>1, MulBound
<1>3. c * (p - q) = c * p - c * q
  BY <1>1
<1> DEFINE u == c * p
           v == c * q
<1>4. u \in Int /\ v \in Int /\ u - v >= c /\ a = u + r /\ b = v + s
  BY <1>1, <1>2, <1>3
<1> HIDE DEF u, v
<1> QED BY <1>1, <1>4

\* Adding k times the divisor adds k to the quotient.
LEMMA DivShift ==
  ASSUME NEW c \in Nat \ {0}, NEW a \in Nat, NEW k \in Nat
  PROVE  (a + k * c) \div c = (a \div c) + k
<1> DEFINE p == a \div c
           r == a % c
           x == a + k * c
           q == p + k
<1>1. p \in Nat /\ r \in 0..(c - 1) /\ a = c * p + r
  BY DivDef
<1> HIDE DEF p, r
<1>2. x \in Nat /\ q \in Int /\ c * q = c * p + k * c
  BY <1>1
<1>3. x = c * q + r
  <2> DEFINE u == c * p
             v == k * c
  <2>1. u \in Int /\ v \in Int /\ a = u + r /\ c * q = u + v /\ x = a + v
    BY <1>1, <1>2
  <2> HIDE DEF u, v, x, q
  <2> QED BY <1>1, <2>1
<1> HIDE DEF x, q
<1>4. x \div c = q
  BY <1>1, <1>2, <1>3, ModUnique
<1> QED BY <1>4 DEF x, q, p

-----------------------------------------------------------------------------
(***************************************************************************)
(* The inductive invariant.                                                *)
(***************************************************************************)
Writing == pc # "idle" /\ ~constructing

\* A call of the constructor or of Write lasts at most a day, and the file it
\* has opened is named for a day it saw.
CallInv ==
    /\ fd \in {-1, current_day}
    /\ pc \in {"idle", "payload", "newline"} => ~constructing
    /\ pc # "idle" => since <= clock /\ clock <= since + DayLength
    /\ pc \in {"cleanup", "unlink", "payload", "newline"} =>
          GetDay(since) <= current_day /\ current_day <= GetDay(clock)
    /\ pc \in {"cleanup", "unlink"} => max_days > 0
    /\ pc # "unlink" => expired = {}
    /\ Writing => writes >= 1

\* The entry that is being written is in no file until its text is.
FreshInv ==
    \A d \in DOMAIN files : \A k \in DOMAIN files[d] :
       files[d][k] <= writes /\ (Writing /\ pc # "newline" => files[d][k] < writes)

\* As long as the clock was not set back: files are not newer than the sink's
\* day, and each was last written on the day in its name or the next one.
AgeInv ==
    ~setBack =>
        /\ current_day <= GetDay(clock)
        /\ \A d \in DOMAIN files :
              /\ mtime[d] <= clock
              /\ d <= GetDay(mtime[d]) /\ GetDay(mtime[d]) <= d + 1
              /\ ~(pc = "open" /\ constructing) => d <= current_day
        /\ pc = "open" /\ ~constructing => current_day < GetDay(clock)

\* As long as, too, no open or write has failed: the file in use exists and is
\* not about to be unlinked, or the next Write will see that its day is over.
KeepInv ==
    ~setBack /\ ~failed =>
        /\ lost = cut
        /\ pc \in {"cleanup", "payload", "newline"} => fd \in DOMAIN files
        /\ pc = "cleanup" /\ ~constructing => mtime[fd] >= since
        /\ pc = "unlink" => \/ fd \in DOMAIN files \ expired
                            \/ constructing /\ current_day < GetDay(clock)
        /\ pc = "idle" => fd \in DOMAIN files \/ current_day < GetDay(clock)

\* What cleaning up leaves reaches back max_days_ + 1 days.
SpanInv ==
    max_days > 0 /\ ~setBack /\ ~skipped /\ pc \in {"unlink", "idle", "payload", "newline"} =>
        \A d \in DOMAIN files \ expired : current_day - max_days - 1 <= d

DailyInv ==
    /\ TypeOK /\ CallInv /\ FreshInv
    /\ AgeInv /\ KeepInv /\ DaysInOrder /\ SpanInv

-----------------------------------------------------------------------------
(***************************************************************************)
(* Days and files.                                                         *)
(***************************************************************************)
\* GetDay grows with the time, by one a day.
LEMMA DayFacts ==
    /\ \A t \in Nat : GetDay(t) \in Nat
    /\ \A s, t \in Nat : s <= t => GetDay(s) <= GetDay(t)
    /\ \A s, t \in Nat : t <= s + DayLength => GetDay(t) <= GetDay(s) + 1
<1>1. ASSUME NEW t \in Nat PROVE GetDay(t) \in Nat
  BY TimesAssumption, DivDef DEF GetDay
<1>2. ASSUME NEW s \in Nat, NEW t \in Nat, s <= t PROVE GetDay(s) <= GetDay(t)
  BY <1>2, TimesAssumption, DivMono DEF GetDay
<1>3. ASSUME NEW s \in Nat, NEW t \in Nat, t <= s + DayLength
      PROVE  GetDay(t) <= GetDay(s) + 1
  <2> DEFINE u == s + 1 * DayLength
  <2>1. u \in Nat /\ t <= u
    BY <1>3, TimesAssumption
  <2>2. GetDay(u) = GetDay(s) + 1
    BY TimesAssumption, DivShift DEF GetDay
  <2> HIDE DEF u
  <2> QED BY <1>2, <2>1, <2>2
<1> QED BY <1>1, <1>2, <1>3

\* What the age limit says in days.
LEMMA LimitFacts ==
  ASSUME NEW s \in Nat, NEW t \in Nat
  PROVE  /\ t - s <= max_days * DayLength => GetDay(t) <= GetDay(s) + max_days
         /\ max_days > 0 /\ t - s > max_days * DayLength => GetDay(t) > GetDay(s)
         /\ max_days > 0 /\ t - s <= DayLength => t - s <= max_days * DayLength
<1> DEFINE m == max_days * DayLength
           u == s + m
           v == s + 1 * DayLength
<1>1. m \in Nat /\ u \in Nat /\ v \in Nat
  BY TimesAssumption
<1>2. GetDay(u) = GetDay(s) + max_days /\ GetDay(v) = GetDay(s) + 1
  BY TimesAssumption, DivShift DEF GetDay
<1>3. max_days > 0 => m >= DayLength
  <2>1. DayLength * max_days = m
    BY TimesAssumption
  <2> HIDE DEF m
  <2> QED BY <2>1, TimesAssumption, MulBound
<1>4. v = s + DayLength
  BY TimesAssumption
<1> HIDE DEF m, u, v
<1>5. u = s + m
  BY DEF u
<1>6. GetDay(s) \in Nat /\ GetDay(t) \in Nat
  BY DayFacts
<1>7. t - s <= m => GetDay(t) <= GetDay(s) + max_days
  <2> HAVE t - s <= m
  <2>1. t <= u
    BY <1>1, <1>5
  <2> QED BY <1>1, <1>2, <2>1, DayFacts
<1>8. max_days > 0 /\ t - s > m => GetDay(t) > GetDay(s)
  <2> HAVE max_days > 0 /\ t - s > m
  <2>1. v <= t
    BY <1>1, <1>3, <1>4, TimesAssumption
  <2>2. GetDay(v) <= GetDay(t)
    BY <1>1, <2>1, DayFacts
  <2> QED BY <1>2, <1>6, <2>2
<1>9. max_days > 0 /\ t - s <= DayLength => t - s <= m
  BY <1>1, <1>3, TimesAssumption
<1> QED BY <1>7, <1>8, <1>9 DEF m

\* The types of the clock and of the days.
LEMMA ClockTyped ==
  ASSUME TypeOK
  PROVE  /\ clock \in Nat /\ since \in Nat /\ writes \in Nat /\ MaxTime \in Nat
         /\ DayLength \in Nat \ {0} /\ max_days \in Nat
         /\ GetDay(clock) \in Days /\ GetDay(clock) \in Nat /\ GetDay(since) \in Nat
         /\ Days \subseteq Nat /\ current_day \in Int
         /\ \A d \in DOMAIN files : d \in Days /\ mtime[d] \in Nat
<1>1. MaxTime \in Nat /\ MaxWrites \in Nat
  BY LimitsAssumption
<1>2. clock \in Nat /\ since \in Nat /\ writes \in Nat /\ clock <= MaxTime
  BY <1>1 DEF TypeOK
<1>3. /\ GetDay(clock) \in Nat /\ GetDay(since) \in Nat /\ GetDay(MaxTime) \in Nat
      /\ GetDay(clock) <= GetDay(MaxTime)
  BY <1>1, <1>2, DayFacts
<1>4. Days = 0..GetDay(MaxTime)
  BY DEF Days, GetDay
<1>5. GetDay(clock) \in Days /\ Days \subseteq Nat
  BY <1>3, <1>4
<1>6. current_day \in Int
  BY <1>5 DEF TypeOK
<1>7. \A d \in DOMAIN files : d \in Days /\ mtime[d] \in Nat
  BY <1>1 DEF TypeOK
<1> QED BY <1>1, <1>2, <1>3, <1>5, <1>6, <1>7, TimesAssumption

\* What the history records stays recorded.
LEMMA HistoryKept == [Next]_vars => (setBack => setBack') /\ (failed => failed')
<1> SUFFICES ASSUME [Next]_vars PROVE (setBack => setBack') /\ (failed => failed')
  OBVIOUS
<1>1. CASE Tick
  BY <1>1, Zenon DEF Tick, history
<1>2. ASSUME NEW t \in 0..MaxTime, SetClock(t)
      PROVE  (setBack => setBack') /\ (failed => failed')
  BY <1>2, Zenon DEF SetClock
<1>3. CASE Restart
  BY <1>3, Zenon DEF Restart
<1>4. CASE CheckDay
  BY <1>4, Zenon DEF CheckDay
<1>5. CASE OpenFileForToday
  BY <1>5 DEF OpenFileForToday
<1>6. CASE CleanupOldFiles
  BY <1>6, Zenon DEF CleanupOldFiles
<1>7. ASSUME NEW d \in expired, UnlinkExpired(d)
      PROVE  (setBack => setBack') /\ (failed => failed')
  BY <1>7, Zenon DEF UnlinkExpired
<1>8. CASE CleanupReturn
  BY <1>8, Zenon DEF CleanupReturn, history
<1>9. CASE WriteClosed
  BY <1>9, Zenon DEF WriteClosed
<1>10. CASE WritePayload
  BY <1>10 DEF WritePayload
<1>11. CASE WriteNewline
  BY <1>11 DEF WriteNewline
<1>12. CASE UNCHANGED vars
  BY <1>12 DEF vars, history
<1> QED
  BY <1>1, <1>2, <1>3, <1>4, <1>5, <1>6, <1>7, <1>8, <1>9, <1>10, <1>11, <1>12 DEF Next

\* What opening the file of the day does to the directory.
LEMMA OpenFiles ==
  ASSUME TypeOK, OpenFileForToday
  PROVE  /\ DOMAIN files \subseteq DOMAIN files'
         /\ DOMAIN files' \subseteq DOMAIN files \cup {GetDay(clock)}
         /\ DOMAIN mtime' = DOMAIN files'
         /\ \A d \in DOMAIN files : files'[d] = files[d] /\ mtime'[d] = mtime[d]
         /\ \A d \in DOMAIN files' : d \notin DOMAIN files =>
               files'[d] = << >> /\ mtime'[d] = clock
         /\ \/ fd' = GetDay(clock) /\ GetDay(clock) \in DOMAIN files' /\ failed' = failed
            \/ fd' = -1 /\ failed' = TRUE
         /\ faults' \in 0..MaxFaults
<1> DEFINE d == GetDay(clock)
<1>1. MakeFilename(clock) = d
  BY DEF MakeFilename, GetDay
<1>2. DOMAIN mtime = DOMAIN files /\ faults \in 0..MaxFaults /\ MaxFaults \in Nat
  BY LimitsAssumption DEF TypeOK
<1>3. CASE /\ fd' = d /\ faults' = faults /\ failed' = failed
           /\ files' = Created(files, d, << >>) /\ mtime' = Created(mtime, d, clock)
  <2> HIDE DEF d
  <2>1. DOMAIN files' = DOMAIN files \cup {d} /\ DOMAIN mtime' = DOMAIN files \cup {d}
    BY <1>2, <1>3 DEF Created
  <2>2. \A e \in DOMAIN files' :
           /\ files'[e] = IF e \in DOMAIN files THEN files[e] ELSE << >>
           /\ mtime'[e] = IF e \in DOMAIN files THEN mtime[e] ELSE clock
    BY <1>2, <1>3 DEF Created
  <2> QED BY <1>2, <1>3, <2>1, <2>2 DEF d
<1>4. CASE /\ fd' = -1 /\ faults < MaxFaults /\ faults' = faults + 1 /\ failed' = TRUE
           /\ UNCHANGED <<files, mtime>>
  BY <1>2, <1>4
<1> QED BY <1>1, <1>3, <1>4 DEF OpenFileForToday, Fault, NoFault

\* What is not expired was written recently enough.
LEMMA ExpiredDef ==
  ASSUME TypeOK, NEW d \in DOMAIN files
  PROVE  /\ d \in Expired(clock) => clock - mtime[d] > max_days * DayLength
         /\ d \notin Expired(clock) => clock - mtime[d] <= max_days * DayLength
<1> DEFINE m == max_days * DayLength
<1>1. m \in Int /\ clock \in Nat /\ mtime[d] \in Nat
  BY ClockTyped
<1>2. d \in Expired(clock) <=> clock - mtime[d] > m
  BY DEF Expired
<1> HIDE DEF m
<1>3. d \notin Expired(clock) => clock - mtime[d] <= m
  BY <1>1, <1>2
<1> QED BY <1>2, <1>3 DEF m

\* What opendir and the scan of the directory find.
LEMMA CleanupSteps ==
  ASSUME TypeOK, CleanupOldFiles
  PROVE  /\ pc = "cleanup"
         /\ UNCHANGED <<clock, files, mtime, fd, current_day, writes, sets, restarts, setBack,
                        failed, since, lost, cut>>
         /\ faults' \in 0..MaxFaults
         /\ \/ /\ pc' = "unlink" /\ expired' = Expired(clock)
               /\ skipped' = FALSE /\ UNCHANGED constructing
            \/ /\ pc' = AfterOpen /\ constructing' = FALSE
               /\ skipped' = TRUE /\ UNCHANGED expired
<1>1. faults \in 0..MaxFaults /\ MaxFaults \in Nat
  BY LimitsAssumption DEF TypeOK
<1> QED BY <1>1 DEF CleanupOldFiles, Fault, NoFault

\* What unlinking a file changes.
LEMMA UnlinkFiles ==
  ASSUME TypeOK, NEW d \in expired, UnlinkExpired(d)
  PROVE  /\ DOMAIN files' \subseteq DOMAIN files /\ DOMAIN mtime' = DOMAIN files'
         /\ DOMAIN files \ {d} \subseteq DOMAIN files'
         /\ \A e \in DOMAIN files' : files'[e] = files[e] /\ mtime'[e] = mtime[e]
         /\ expired' = expired \ {d}
         /\ \/ DOMAIN files' = DOMAIN files \ {d} /\ skipped' = skipped
            \/ DOMAIN files' = DOMAIN files /\ skipped' = TRUE
         /\ faults' \in 0..MaxFaults
<1>1. DOMAIN mtime = DOMAIN files /\ faults \in 0..MaxFaults /\ MaxFaults \in Nat
  BY LimitsAssumption DEF TypeOK
<1>2. expired' = expired \ {d}
  BY DEF UnlinkExpired
<1>3. CASE /\ files' = Restrict(files, DOMAIN files \ {d}) /\ faults' = faults
           /\ mtime' = Restrict(mtime, DOMAIN files \ {d}) /\ skipped' = skipped
  <2>1. /\ DOMAIN files' = DOMAIN files \ {d} /\ DOMAIN mtime' = DOMAIN files \ {d}
        /\ \A e \in DOMAIN files \ {d} : files'[e] = files[e] /\ mtime'[e] = mtime[e]
    BY <1>1, <1>3 DEF Restrict
  <2> QED BY <1>1, <1>2, <1>3, <2>1
<1>4. CASE /\ faults < MaxFaults /\ faults' = faults + 1 /\ skipped' = TRUE
           /\ UNCHANGED <<files, mtime>>
  BY <1>1, <1>2, <1>4
<1> QED BY <1>3, <1>4 DEF UnlinkExpired, Fault, NoFault

\* What writing the text changes.
LEMMA PayloadFiles ==
  ASSUME TypeOK, WritePayload
  PROVE  /\ DOMAIN files' = DOMAIN files /\ DOMAIN mtime' = DOMAIN files
         /\ \A d \in DOMAIN files : d # fd => files'[d] = files[d] /\ mtime'[d] = mtime[d]
         /\ fd \in DOMAIN files =>
               \/ files'[fd] = files[fd] /\ mtime'[fd] = mtime[fd]
               \/ /\ mtime'[fd] = clock /\ files'[fd] = Append(files[fd], writes)
                  /\ DOMAIN files'[fd] = 1..(Len(files[fd]) + 1)
                  /\ DOMAIN files[fd] = 1..Len(files[fd]) /\ Len(files[fd]) \in Nat
                  /\ files'[fd][Len(files[fd]) + 1] = writes
                  /\ \A k \in DOMAIN files[fd] : files'[fd][k] = files[fd][k]
         /\ lost' \in {lost, lost \cup {writes}}
         /\ fd \in DOMAIN files /\ ~failed' => lost' = lost
         /\ failed' \in BOOLEAN /\ faults' \in 0..MaxFaults
<1>1. /\ DOMAIN mtime = DOMAIN files /\ faults \in 0..MaxFaults /\ MaxFaults \in Nat
      /\ failed \in BOOLEAN
  BY LimitsAssumption DEF TypeOK
<1>2. PICK written \in {"all", "part", "nothing"} :
        /\ IF written = "all" THEN NoFault /\ UNCHANGED failed ELSE Fault /\ failed' = TRUE
        /\ IF fd \in DOMAIN files /\ written # "nothing"
           THEN /\ files' = [files EXCEPT ![fd] = Append(@, writes)]
                /\ mtime' = [mtime EXCEPT ![fd] = clock]
           ELSE UNCHANGED <<files, mtime>>
        /\ lost' = IF fd \in DOMAIN files /\ written = "all" THEN lost
                   ELSE lost \cup {writes}
  BY DEF WritePayload
<1>3. faults' \in 0..MaxFaults /\ failed' \in BOOLEAN
  <2>1. failed' \in BOOLEAN
    BY <1>1, <1>2, Zenon
  <2>2. faults' = faults \/ (faults < MaxFaults /\ faults' = faults + 1)
    BY <1>2 DEF Fault, NoFault
  <2> QED BY <1>1, <2>1, <2>2
<1>4. /\ lost' \in {lost, lost \cup {writes}}
      /\ fd \in DOMAIN files /\ ~failed' => lost' = lost
  BY <1>2
<1>5. CASE fd \in DOMAIN files /\ written # "nothing"
  <2>1. files[fd] \in Seq(1..MaxWrites)
    BY <1>5 DEF TypeOK
  <2>2. /\ files' = [files EXCEPT ![fd] = Append(files[fd], writes)]
        /\ mtime' = [mtime EXCEPT ![fd] = clock]
    BY <1>2, <1>5
  <2>3. /\ DOMAIN files' = DOMAIN files /\ DOMAIN mtime' = DOMAIN files
        /\ \A d \in DOMAIN files : d # fd => files'[d] = files[d] /\ mtime'[d] = mtime[d]
        /\ mtime'[fd] = clock /\ files'[fd] = Append(files[fd], writes)
    BY <1>1, <1>5, <2>2
  <2> DEFINE f == files[fd]
             g == Append(f, writes)
  <2>4. /\ DOMAIN g = 1..(Len(f) + 1) /\ DOMAIN f = 1..Len(f) /\ Len(f) \in Nat
        /\ g[Len(f) + 1] = writes /\ \A k \in DOMAIN f : g[k] = f[k]
    <3> HIDE DEF f
    <3>1. f \in Seq(1..MaxWrites)
      BY <2>1 DEF f
    <3> QED BY <3>1
  <2> QED BY <1>3, <1>4, <2>3, <2>4
<1>6. CASE ~(fd \in DOMAIN files /\ written # "nothing")
  <2>1. UNCHANGED <<files, mtime>>
    BY <1>2, <1>6
  <2> QED BY <1>1, <1>3, <1>4, <2>1
<1> QED BY <1>5, <1>6

\* What writing the newline changes.
LEMMA NewlineFiles ==
  ASSUME TypeOK, WriteNewline
  PROVE  /\ UNCHANGED files /\ DOMAIN mtime' = DOMAIN files
         /\ \A d \in DOMAIN files : d # fd => mtime'[d] = mtime[d]
         /\ fd \in DOMAIN files => mtime'[fd] \in {mtime[fd], clock}
         /\ failed' \in BOOLEAN /\ faults' \in 0..MaxFaults
<1>1. /\ DOMAIN mtime = DOMAIN files /\ faults \in 0..MaxFaults /\ MaxFaults \in Nat
      /\ failed \in BOOLEAN
  BY LimitsAssumption DEF TypeOK
<1>2. faults' \in 0..MaxFaults /\ failed' \in BOOLEAN /\ UNCHANGED files
  <2>1. failed' \in BOOLEAN
    BY <1>1, Zenon DEF WriteNewline
  <2>2. /\ faults' = faults \/ (faults < MaxFaults /\ faults' = faults + 1)
        /\ UNCHANGED files
    BY DEF WriteNewline, Fault, NoFault
  <2> QED BY <1>1, <2>1, <2>2
<1>3. CASE mtime' = [d \in DOMAIN mtime |-> IF d = fd THEN clock ELSE mtime[d]]
  BY <1>1, <1>2, <1>3
<1>4. CASE UNCHANGED mtime
  BY <1>1, <1>2, <1>4
<1> QED BY <1>3, <1>4 DEF WriteNewline

-----------------------------------------------------------------------------
(***************************************************************************)
(* Type correctness.                                                       *)
(***************************************************************************)
\* Initially the directory is empty.
LEMMA InitDaily == Init => DailyInv
<1> SUFFICES ASSUME Init PROVE DailyInv
  OBVIOUS
<1>1. DOMAIN files = {} /\ DOMAIN mtime = {} /\ expired = {}
  BY DEF Init
<1>2. /\ MaxTime \in Nat /\ MaxWrites \in Nat /\ MaxFaults \in Nat /\ MaxSets \in Nat
      /\ MaxRestarts \in Nat
  BY LimitsAssumption
<1>3. TypeOK
  <2>1. /\ clock \in 0..MaxTime /\ since \in 0..MaxTime /\ writes \in 0..MaxWrites
        /\ faults \in 0..MaxFaults /\ sets \in 0..MaxSets /\ restarts \in 0..MaxRestarts
    BY <1>2 DEF Init
  <2>2. /\ constructing \in BOOLEAN /\ setBack \in BOOLEAN /\ fd \in {-1}
        /\ failed \in BOOLEAN /\ skipped \in BOOLEAN
        /\ current_day \in {-1} /\ pc = "open" /\ lost = {} /\ cut = {}
    BY DEF Init
  <2> QED BY <1>1, <2>1, <2>2 DEF TypeOK
<1>4. GetDay(0) \in Nat
  BY DayFacts
<1>5. CallInv
  <2>1. fd = current_day /\ pc = "open" /\ constructing /\ since = 0 /\ clock = 0
    BY DEF Init
  <2>2. since <= clock /\ clock <= since + DayLength
    BY <2>1, TimesAssumption
  <2> QED BY <1>1, <2>1, <2>2 DEF CallInv, Writing
<1>6. FreshInv
  BY <1>1 DEF FreshInv
<1>7. AgeInv /\ KeepInv
  BY <1>1, <1>4 DEF Init, AgeInv, KeepInv
<1>8. DaysInOrder /\ SpanInv
  BY <1>1 DEF Init, DaysInOrder, SpanInv
<1> QED BY <1>3, <1>5, <1>6, <1>7, <1>8 DEF DailyInv

\* The types are preserved.
LEMMA NextTyped == TypeOK /\ CallInv /\ [Next]_vars => TypeOK'
<1> SUFFICES ASSUME TypeOK, CallInv, [Next]_vars PROVE TypeOK'
  OBVIOUS
<1>0. /\ MaxTime \in Nat /\ MaxWrites \in Nat /\ MaxFaults \in Nat /\ MaxSets \in Nat
      /\ MaxRestarts \in Nat
  BY LimitsAssumption
<1>1. CASE Tick
  BY <1>0, <1>1 DEF Tick, TypeOK, counters, history
<1>2. ASSUME NEW t \in 0..MaxTime, SetClock(t) PROVE TypeOK'
  BY <1>0, <1>2 DEF SetClock, TypeOK
<1>3. CASE Restart
  <2>1. Unwritten \subseteq 1..MaxWrites
    BY <1>0 DEF Unwritten, TypeOK, CallInv, Writing
  <2>2. lost' \subseteq 1..MaxWrites /\ cut' \subseteq 1..MaxWrites
    BY <1>3, <2>1 DEF Restart, TypeOK
  <2> QED BY <1>0, <1>3, <2>2 DEF Restart, TypeOK
<1>4. CASE CheckDay
  BY <1>0, <1>4 DEF CheckDay, TypeOK, counters
<1>5. CASE OpenFileForToday
  <2>1. /\ current_day' = GetDay(clock) /\ pc' \in {"cleanup", "idle", "payload"}
        /\ constructing' \in BOOLEAN
        /\ UNCHANGED <<clock, expired, writes, sets, restarts, setBack, skipped, since, lost,
                       cut>>
    BY <1>5 DEF OpenFileForToday, AfterOpen
  <2>2. GetDay(clock) \in Days /\ clock \in 0..MaxTime
    BY ClockTyped DEF TypeOK
  <2>3. fd' \in Days \cup {-1} /\ faults' \in 0..MaxFaults
    BY <1>5, <2>2, OpenFiles DEF TypeOK
  <2>4. failed' \in BOOLEAN
    <3>1. failed' = failed \/ failed' = TRUE
      BY <1>5, OpenFiles
    <3> QED BY <3>1 DEF TypeOK
  <2>5. /\ DOMAIN files' \subseteq Days /\ DOMAIN mtime' = DOMAIN files'
        /\ expired' \subseteq DOMAIN files'
    BY <1>5, <2>1, <2>2, OpenFiles DEF TypeOK
  <2>6. ASSUME NEW d \in DOMAIN files'
        PROVE  files'[d] \in Seq(1..MaxWrites) /\ mtime'[d] \in 0..MaxTime
    <3>1. CASE d \in DOMAIN files
      BY <1>5, <3>1, OpenFiles DEF TypeOK
    <3>2. CASE d \notin DOMAIN files
      <4>1. files'[d] = << >> /\ mtime'[d] = clock
        BY <1>5, <3>2, OpenFiles
      <4> QED BY <2>2, <4>1
    <3> QED BY <3>1, <3>2
  <2> QED BY <2>1, <2>2, <2>3, <2>4, <2>5, <2>6 DEF TypeOK
<1>6. CASE CleanupOldFiles
  <2>1. /\ UNCHANGED <<clock, files, mtime, fd, current_day, writes, sets, restarts, setBack,
                       failed, since, lost, cut>>
        /\ faults' \in 0..MaxFaults
    BY <1>6, CleanupSteps
  <2>2. Expired(clock) \subseteq DOMAIN files
    BY DEF Expired
  <2>3. /\ pc' \in {"unlink", "idle", "payload"} /\ expired' \subseteq DOMAIN files
        /\ skipped' \in BOOLEAN /\ constructing' \in BOOLEAN
    <3>1. CASE /\ pc' = "unlink" /\ expired' = Expired(clock)
               /\ skipped' = FALSE /\ UNCHANGED constructing
      BY <2>2, <3>1 DEF TypeOK
    <3>2. CASE /\ pc' = AfterOpen /\ constructing' = FALSE
               /\ skipped' = TRUE /\ UNCHANGED expired
      BY <3>2 DEF TypeOK, AfterOpen
    <3> QED BY <1>6, <3>1, <3>2, CleanupSteps
  <2> QED BY <2>1, <2>3 DEF TypeOK
<1>7. ASSUME NEW d \in expired, UnlinkExpired(d) PROVE TypeOK'
  <2>1. UNCHANGED <<clock, fd, current_day, pc, constructing, writes, sets, restarts,
                    setBack, failed, since, lost, cut>>
    BY <1>7 DEF UnlinkExpired
  <2>2. /\ DOMAIN files' \subseteq DOMAIN files /\ DOMAIN mtime' = DOMAIN files'
        /\ \A e \in DOMAIN files' : files'[e] = files[e] /\ mtime'[e] = mtime[e]
        /\ faults' \in 0..MaxFaults /\ skipped' \in BOOLEAN
    <3>1. skipped' = skipped \/ skipped' = TRUE
      BY <1>7, UnlinkFiles
    <3>2. skipped' \in BOOLEAN
      BY <3>1 DEF TypeOK
    <3> QED BY <1>7, <3>2, UnlinkFiles
  <2>3. expired' \subseteq DOMAIN files'
    <3>1. expired' = expired \ {d} /\ DOMAIN files \ {d} \subseteq DOMAIN files'
      BY <1>7, UnlinkFiles
    <3> QED BY <3>1 DEF TypeOK
  <2> QED BY <2>1, <2>2, <2>3 DEF TypeOK
<1>8. CASE CleanupReturn
  <2>1. /\ pc' \in {"idle", "payload"} /\ constructing' = FALSE
        /\ UNCHANGED <<clock, files, mtime, fd, current_day, expired, writes, counters,
                       history>>
    BY <1>8 DEF CleanupReturn, AfterOpen
  <2> QED BY <2>1 DEF TypeOK, counters, history
<1>9. CASE WriteClosed
  <2>1. writes \in 1..MaxWrites
    BY <1>0, <1>9 DEF TypeOK, CallInv, Writing, WriteClosed
  <2> QED BY <1>9, <2>1 DEF WriteClosed, TypeOK, counters
<1>10. CASE WritePayload
  <2>1. /\ pc' = "newline"
        /\ UNCHANGED <<clock, fd, current_day, constructing, expired, writes, sets, restarts,
                       setBack, skipped, since, cut>>
    BY <1>10 DEF WritePayload
  <2>2. writes \in 1..MaxWrites
    BY <1>0, <1>10 DEF TypeOK, CallInv, Writing, WritePayload
  <2>3. lost' \subseteq 1..MaxWrites
    <3>1. lost' = lost \/ lost' = lost \cup {writes}
      BY <1>10, PayloadFiles
    <3> QED BY <2>2, <3>1 DEF TypeOK
  <2>4. failed' \in BOOLEAN /\ faults' \in 0..MaxFaults
    BY <1>10, PayloadFiles
  <2>5. DOMAIN files' = DOMAIN files /\ DOMAIN mtime' = DOMAIN files
    BY <1>10, PayloadFiles
  <2>6. ASSUME NEW d \in DOMAIN files
        PROVE  files'[d] \in Seq(1..MaxWrites) /\ mtime'[d] \in 0..MaxTime
    <3>1. files[d] \in Seq(1..MaxWrites) /\ mtime[d] \in 0..MaxTime /\ clock \in 0..MaxTime
      BY DEF TypeOK
    <3>2. \/ files'[d] = files[d] /\ mtime'[d] = mtime[d]
          \/ files'[d] = Append(files[d], writes) /\ mtime'[d] = clock
      BY <1>10, PayloadFiles
    <3>3. Append(files[d], writes) \in Seq(1..MaxWrites)
      <4> DEFINE f == files[d]
      <4>1. f \in Seq(1..MaxWrites)
        BY <3>1
      <4> HIDE DEF f
      <4>2. Append(f, writes) \in Seq(1..MaxWrites)
        BY <2>2, <4>1
      <4> QED BY <4>2 DEF f
    <3> QED BY <3>1, <3>2, <3>3
  <2> QED BY <2>1, <2>3, <2>4, <2>5, <2>6 DEF TypeOK
<1>11. CASE WriteNewline
  <2>1. /\ pc' = "idle"
        /\ UNCHANGED <<clock, files, fd, current_day, constructing, expired, writes, sets,
                       restarts, setBack, skipped, since, lost, cut>>
    BY <1>11 DEF WriteNewline
  <2>2. failed' \in BOOLEAN /\ faults' \in 0..MaxFaults /\ DOMAIN mtime' = DOMAIN files
    BY <1>11, NewlineFiles
  <2>3. ASSUME NEW d \in DOMAIN files PROVE mtime'[d] \in 0..MaxTime
    <3>1. mtime'[d] = mtime[d] \/ mtime'[d] = clock
      BY <1>11, NewlineFiles
    <3> QED BY <3>1 DEF TypeOK
  <2> QED BY <2>1, <2>2, <2>3 DEF TypeOK
<1>12. CASE UNCHANGED vars
  BY <1>12 DEF vars, counters, history, TypeOK
<1> QED
  BY <1>1, <1>2, <1>3, <1>4, <1>5, <1>6, <1>7, <1>8, <1>9, <1>10, <1>11, <1>12 DEF Next

-----------------------------------------------------------------------------
(***************************************************************************)
(* The day of the file an entry goes to.                                   *)
(***************************************************************************)
\* Calls stay within a day, whatever the clock does in between.
LEMMA NextCall == TypeOK /\ CallInv /\ [Next]_vars => CallInv'
<1> SUFFICES ASSUME TypeOK, CallInv, [Next]_vars PROVE CallInv'
  OBVIOUS
<1>0. /\ clock \in Nat /\ since \in Nat /\ writes \in Nat /\ DayLength \in Nat \ {0}
      /\ GetDay(clock) \in Nat /\ GetDay(since) \in Nat /\ current_day \in Int
      /\ max_days \in Nat
  BY ClockTyped
<1>1. CASE Tick
  <2>1. /\ clock' = clock + 1 /\ (pc # "idle" => clock < since + DayLength)
        /\ UNCHANGED <<fd, current_day, pc, constructing, expired, since, writes>>
    BY <1>1 DEF Tick, history
  <2>2. pc # "idle" => since' <= clock' /\ clock' <= since' + DayLength
    BY <1>0, <2>1 DEF CallInv
  <2>3. GetDay(clock) <= GetDay(clock') /\ GetDay(clock') \in Nat
    BY <1>0, <2>1, DayFacts
  <2>4. pc \in {"cleanup", "unlink", "payload", "newline"} =>
           GetDay(since) <= current_day /\ current_day <= GetDay(clock')
    BY <1>0, <2>3 DEF CallInv
  <2>5. GetDay(since)' = GetDay(since) /\ GetDay(clock)' = GetDay(clock')
    BY <2>1 DEF GetDay
  <2> QED BY <2>1, <2>2, <2>4, <2>5 DEF CallInv, Writing
<1>2. ASSUME NEW t \in 0..MaxTime, SetClock(t) PROVE CallInv'
  <2>1. pc = "idle" /\ UNCHANGED <<fd, current_day, pc, constructing, expired, since, writes>>
    BY <1>2 DEF SetClock
  <2> QED BY <2>1 DEF CallInv, Writing
<1>3. CASE Restart
  <2>1. /\ fd' = current_day' /\ pc' = "open" /\ constructing' /\ since' = clock
        /\ clock' = clock /\ expired' = {}
    BY <1>3 DEF Restart
  <2>2. since' <= clock' /\ clock' <= since' + DayLength
    BY <1>0, <2>1
  <2> QED BY <2>1, <2>2 DEF CallInv, Writing
<1>4. CASE CheckDay
  <2>1. /\ pc = "idle" /\ since' = clock /\ writes' = writes + 1 /\ clock' = clock
        /\ pc' = IF GetDay(clock) # current_day THEN "open" ELSE "payload"
        /\ UNCHANGED <<fd, current_day, constructing, expired>>
    BY <1>4 DEF CheckDay
  <2>2. since' <= clock' /\ clock' <= since' + DayLength /\ writes' >= 1
    BY <1>0, <2>1
  <2>3. pc' = "payload" => GetDay(clock) = current_day
    BY <2>1
  <2>4. GetDay(since)' = GetDay(clock) /\ GetDay(clock)' = GetDay(clock)
    BY <2>1 DEF GetDay
  <2>5. pc' = "payload" => GetDay(since)' <= current_day /\ current_day <= GetDay(clock)'
    BY <1>0, <2>3, <2>4
  <2> QED BY <2>1, <2>2, <2>5 DEF CallInv, Writing
<1>5. CASE OpenFileForToday
  <2>1. /\ pc = "open" /\ current_day' = GetDay(clock)
        /\ pc' = IF max_days > 0 THEN "cleanup" ELSE AfterOpen
        /\ constructing' = (constructing /\ max_days > 0)
        /\ UNCHANGED <<clock, since, writes, expired>>
    BY <1>5 DEF OpenFileForToday
  <2>2. fd' \in {-1, current_day'}
    BY <1>5, <2>1, OpenFiles
  <2>3. since <= clock /\ clock <= since + DayLength /\ expired = {}
    BY <2>1 DEF CallInv
  <2>4. GetDay(since) <= GetDay(clock)
    BY <1>0, <2>3, DayFacts
  <2>5. GetDay(since)' = GetDay(since) /\ GetDay(clock)' = GetDay(clock)
    BY <2>1 DEF GetDay
  <2>6. pc' \in {"idle", "payload", "newline"} => ~constructing'
    BY <2>1 DEF AfterOpen
  <2>7. Writing' => Writing
    BY <2>1 DEF Writing, AfterOpen
  <2>8. pc' \in {"cleanup", "unlink"} => max_days > 0
    BY <2>1 DEF AfterOpen
  <2>9. current_day' <= GetDay(clock)' /\ GetDay(since)' <= current_day'
    BY <1>0, <2>1, <2>4, <2>5
  <2> QED BY <2>1, <2>2, <2>3, <2>6, <2>7, <2>8, <2>9 DEF CallInv
<1>6. CASE CleanupOldFiles
  <2>1. pc = "cleanup" /\ UNCHANGED <<clock, fd, current_day, since, writes>>
    BY <1>6, CleanupSteps
  <2>2. \/ pc' = "unlink" /\ UNCHANGED constructing
        \/ pc' = AfterOpen /\ constructing' = FALSE /\ UNCHANGED expired
    BY <1>6, CleanupSteps
  <2>3. Writing' => Writing
    BY <2>1, <2>2 DEF Writing, AfterOpen
  <2> QED BY <2>1, <2>2, <2>3 DEF CallInv, AfterOpen, GetDay
<1>7. ASSUME NEW d \in expired, UnlinkExpired(d) PROVE CallInv'
  BY <1>7 DEF UnlinkExpired, CallInv, Writing, GetDay
<1>8. CASE CleanupReturn
  <2>1. /\ pc = "unlink" /\ pc' = AfterOpen /\ constructing' = FALSE /\ expired = {}
        /\ UNCHANGED <<clock, fd, current_day, since, writes, expired>>
    BY <1>8 DEF CleanupReturn, history
  <2>2. Writing' => Writing
    BY <2>1 DEF Writing, AfterOpen
  <2> QED BY <2>1, <2>2 DEF CallInv, AfterOpen, GetDay
<1>9. CASE WriteClosed
  BY <1>9 DEF WriteClosed, CallInv, Writing
<1>10. CASE WritePayload
  <2>1. /\ pc = "payload" /\ pc' = "newline"
        /\ UNCHANGED <<clock, fd, current_day, constructing, expired, writes, since>>
    BY <1>10 DEF WritePayload
  <2> QED BY <2>1 DEF CallInv, Writing, GetDay
<1>11. CASE WriteNewline
  BY <1>11 DEF WriteNewline, CallInv, Writing
<1>12. CASE UNCHANGED vars
  BY <1>12 DEF vars, history, CallInv, Writing, GetDay
<1> QED
  BY <1>1, <1>2, <1>3, <1>4, <1>5, <1>6, <1>7, <1>8, <1>9, <1>10, <1>11, <1>12 DEF Next

\* The entry being written stays fresh until its text is written.
LEMMA NextFresh == TypeOK /\ CallInv /\ FreshInv /\ [Next]_vars => FreshInv'
<1> SUFFICES ASSUME TypeOK, CallInv, FreshInv, [Next]_vars PROVE FreshInv'
  OBVIOUS
<1> DEFINE Fresh == Writing /\ pc # "newline"
<1>0. /\ writes \in Nat
      /\ \A d \in DOMAIN files : \A k \in DOMAIN files[d] : files[d][k] \in Nat
  <2>1. \A d \in DOMAIN files : files[d] \in Seq(1..MaxWrites)
    BY DEF TypeOK
  <2>2. \A S : \A f \in Seq(S) : \A k \in DOMAIN f : f[k] \in S
    OBVIOUS
  <2>3. \A d \in DOMAIN files : \A k \in DOMAIN files[d] : files[d][k] \in 1..MaxWrites
    BY <2>1, <2>2
  <2> QED BY <2>3, ClockTyped, LimitsAssumption
<1>1. ASSUME UNCHANGED writes, Fresh' => Fresh,
             \A d \in DOMAIN files' : d \in DOMAIN files /\ files'[d] = files[d]
      PROVE  FreshInv'
  BY <1>1 DEF FreshInv
<1>2. CASE Tick \/ (\E t \in 0..MaxTime : SetClock(t)) \/ Restart \/ UNCHANGED vars
  <2>1. UNCHANGED <<files, writes>> /\ (Fresh' => Fresh)
    BY <1>2 DEF Tick, SetClock, Restart, vars, Writing
  <2> QED BY <1>1, <2>1
<1>3. CASE CheckDay
  <2>1. UNCHANGED files /\ writes' = writes + 1
    BY <1>3 DEF CheckDay
  <2>2. ASSUME NEW d \in DOMAIN files, NEW k \in DOMAIN files[d]
        PROVE  files[d][k] <= writes' /\ files[d][k] < writes'
    BY <1>0, <2>1 DEF FreshInv
  <2> QED BY <2>1, <2>2 DEF FreshInv
<1>4. CASE OpenFileForToday
  <2>1. UNCHANGED writes /\ (Fresh' => Fresh)
    BY <1>4 DEF OpenFileForToday, AfterOpen, Writing
  <2>2. ASSUME NEW d \in DOMAIN files', NEW k \in DOMAIN files'[d]
        PROVE  d \in DOMAIN files /\ files'[d] = files[d]
    <3>1. files'[d] # << >>
      BY <2>2
    <3> QED BY <1>4, <3>1, OpenFiles
  <2> QED BY <2>1, <2>2 DEF FreshInv
<1>5. CASE CleanupOldFiles
  <2>1. pc = "cleanup" /\ UNCHANGED <<writes, files>>
    BY <1>5, CleanupSteps
  <2>2. \/ pc' = "unlink" /\ UNCHANGED constructing
        \/ pc' = AfterOpen /\ constructing' = FALSE
    BY <1>5, CleanupSteps
  <2>3. Fresh' => Fresh
    BY <2>1, <2>2 DEF AfterOpen, Writing
  <2> QED BY <1>1, <2>1, <2>3
<1>6. ASSUME NEW d \in expired, UnlinkExpired(d) PROVE FreshInv'
  <2>1. UNCHANGED writes /\ (Fresh' => Fresh)
    BY <1>6 DEF UnlinkExpired, Writing
  <2>2. \A e \in DOMAIN files' : e \in DOMAIN files /\ files'[e] = files[e]
    BY <1>6, UnlinkFiles
  <2> QED BY <1>1, <2>1, <2>2
<1>7. CASE CleanupReturn
  <2>1. UNCHANGED <<files, writes>> /\ (Fresh' => Fresh)
    BY <1>7 DEF CleanupReturn, AfterOpen, Writing
  <2> QED BY <1>1, <2>1
<1>8. CASE WritePayload
  <2>1. UNCHANGED writes /\ pc' = "newline"
    BY <1>8 DEF WritePayload
  <2>2. ASSUME NEW d \in DOMAIN files', NEW k \in DOMAIN files'[d]
        PROVE  files'[d][k] <= writes
    <3>1. CASE d # fd
      BY <1>8, <2>2, <3>1, PayloadFiles DEF FreshInv
    <3>2. CASE d = fd
      <4>1. \/ k \in DOMAIN files[fd] /\ files'[fd][k] = files[fd][k]
            \/ files'[fd][k] = writes
        BY <1>8, <2>2, <3>2, PayloadFiles
      <4>2. CASE k \in DOMAIN files[fd] /\ files'[fd][k] = files[fd][k]
        BY <1>8, <2>2, <3>2, <4>2, PayloadFiles DEF FreshInv
      <4> QED BY <1>0, <3>2, <4>1, <4>2
    <3> QED BY <3>1, <3>2
  <2> QED BY <2>1, <2>2 DEF FreshInv, Writing
<1>9. CASE WriteClosed \/ WriteNewline
  <2>1. UNCHANGED <<files, writes>> /\ (Fresh' => Fresh)
    BY <1>9 DEF WriteClosed, WriteNewline, Writing
  <2> QED BY <1>1, <2>1
<1> QED BY <1>2, <1>3, <1>4, <1>5, <1>6, <1>7, <1>8, <1>9 DEF Next

\* An entry goes to the file of a day its call of Write saw, however midnight
\* falls between the looks at the clock and however the clock is set.
THEOREM EntryInFileOfItsDayCorrect == Spec => EntryInFileOfItsDay
<1>1. ASSUME TypeOK, CallInv, FreshInv, [Next]_vars
      PROVE  [pc = "payload" /\ pc' = "newline" =>
                \A d \in DOMAIN files' : writes \in ToSet(files'[d]) =>
                    GetDay(since) <= d /\ d <= GetDay(clock)]_vars
  <2> SUFFICES ASSUME pc = "payload", pc' = "newline", NEW d \in DOMAIN files',
                      writes \in ToSet(files'[d])
               PROVE  GetDay(since) <= d /\ d <= GetDay(clock)
    OBVIOUS
  <2>1. WritePayload
    BY <1>1 DEF Next, Tick, SetClock, Restart, CheckDay, OpenFileForToday,
                CleanupOldFiles, UnlinkExpired, CleanupReturn, WriteClosed, WriteNewline, vars
  <2>2. PICK k \in DOMAIN files'[d] : files'[d][k] = writes
    BY DEF ToSet
  <2>3. \A e \in DOMAIN files : \A j \in DOMAIN files[e] : files[e][j] # writes
    <3>1. \A e \in DOMAIN files : \A j \in DOMAIN files[e] : files[e][j] < writes
      BY <1>1 DEF FreshInv, CallInv, Writing
    <3>2. writes \in Nat
      BY <1>1, ClockTyped
    <3> QED BY <3>1, <3>2
  <2>4. d = fd
    <3> SUFFICES ASSUME d # fd PROVE FALSE
      OBVIOUS
    <3>1. d \in DOMAIN files /\ k \in DOMAIN files[d] /\ files[d][k] = writes
      BY <1>1, <2>1, <2>2, PayloadFiles
    <3> QED BY <2>3, <3>1
  <2>5. fd = current_day
    <3>1. fd # -1
      BY <2>1 DEF WritePayload
    <3> QED BY <1>1, <3>1 DEF CallInv
  <2> QED BY <1>1, <2>4, <2>5 DEF CallInv
<1>2. DailyInv => TypeOK /\ CallInv /\ FreshInv
  BY DEF DailyInv
<1> QED
  BY <1>1, <1>2, InitDaily, NextTyped, NextCall, NextFresh, PTL
     DEF Spec, EntryInFileOfItsDay

-----------------------------------------------------------------------------
(***************************************************************************)
(* Ages of files, when the clock is not set back.                          *)
(***************************************************************************)
\* Time passes, or the clock is set forwards.
LEMMA Forwards ==
  ASSUME TypeOK, ~setBack', Tick \/ \E t \in 0..MaxTime : SetClock(t)
  PROVE  /\ clock' \in Nat /\ clock <= clock'
         /\ GetDay(clock) <= GetDay(clock') /\ GetDay(clock') \in Nat
         /\ GetDay(clock)' = GetDay(clock')
         /\ UNCHANGED <<files, mtime, fd, current_day, pc, constructing, expired, since, lost,
                        cut>>
<1>0. clock \in Nat /\ MaxTime \in Nat
  BY ClockTyped
<1>1. /\ clock' \in Nat /\ clock <= clock'
      /\ UNCHANGED <<files, mtime, fd, current_day, pc, constructing, expired, since, lost,
                     cut>>
  <2>1. CASE Tick
    BY <1>0, <2>1 DEF Tick, history
  <2>2. ASSUME NEW t \in 0..MaxTime, SetClock(t)
        PROVE  /\ clock' \in Nat /\ clock <= clock'
               /\ UNCHANGED <<files, mtime, fd, current_day, pc, constructing, expired, since,
                              lost, cut>>
    <3>1. clock' = t /\ setBack' = (setBack \/ t < clock)
          /\ UNCHANGED <<files, mtime, fd, current_day, pc, constructing, expired, since, lost,
                         cut>>
      BY <2>2 DEF SetClock
    <3>2. ~(t < clock)
      BY <3>1
    <3> QED BY <1>0, <3>1, <3>2
  <2> QED BY <2>1, <2>2
<1>2. GetDay(clock) <= GetDay(clock') /\ GetDay(clock') \in Nat
  BY <1>0, <1>1, DayFacts
<1>3. GetDay(clock)' = GetDay(clock')
  BY DEF GetDay
<1> QED BY <1>1, <1>2, <1>3

\* Each step keeps the files no newer than the sink's day, and their ages
\* within a day of their names.
LEMMA NextAge == TypeOK /\ CallInv /\ AgeInv /\ [Next]_vars => AgeInv'
<1> SUFFICES ASSUME TypeOK, CallInv, AgeInv, [Next]_vars, ~setBack' PROVE AgeInv'
  BY DEF AgeInv
<1>0. /\ clock \in Nat /\ GetDay(clock) \in Nat /\ current_day \in Int
      /\ since \in Nat /\ GetDay(since) \in Nat
      /\ \A d \in DOMAIN files : d \in Nat /\ mtime[d] \in Nat
  BY ClockTyped
<1>b. ~setBack
  BY HistoryKept
<1>g. clock' = clock => GetDay(clock)' = GetDay(clock)
  BY DEF GetDay
<1>m. \A d \in DOMAIN files :
         /\ mtime[d] <= clock /\ d <= GetDay(mtime[d]) /\ GetDay(mtime[d]) <= d + 1
         /\ d <= GetDay(clock) /\ GetDay(mtime[d]) \in Nat
  <2> SUFFICES ASSUME NEW d \in DOMAIN files
               PROVE  /\ mtime[d] <= clock /\ d <= GetDay(mtime[d])
                      /\ GetDay(mtime[d]) <= d + 1
                      /\ d <= GetDay(clock) /\ GetDay(mtime[d]) \in Nat
    OBVIOUS
  <2>1. mtime[d] <= clock /\ d <= GetDay(mtime[d]) /\ GetDay(mtime[d]) <= d + 1
    BY <1>b DEF AgeInv
  <2>2. GetDay(mtime[d]) <= GetDay(clock) /\ GetDay(mtime[d]) \in Nat
    BY <1>0, <2>1, DayFacts
  <2> QED BY <1>0, <2>1, <2>2
<1>1. CASE Tick \/ \E t \in 0..MaxTime : SetClock(t)
  <2>1. /\ clock <= clock' /\ clock' \in Nat
        /\ GetDay(clock) <= GetDay(clock') /\ GetDay(clock') \in Nat
        /\ GetDay(clock)' = GetDay(clock')
        /\ UNCHANGED <<files, mtime, current_day, pc, constructing>>
    BY <1>1, Forwards
  <2>2. current_day <= GetDay(clock')
    BY <1>0, <1>b, <2>1 DEF AgeInv
  <2>3. \A d \in DOMAIN files : mtime[d] <= clock'
    BY <1>0, <1>m, <2>1
  <2>4. pc = "open" /\ ~constructing => current_day < GetDay(clock')
    BY <1>0, <1>b, <2>1 DEF AgeInv
  <2> QED BY <1>b, <2>1, <2>2, <2>3, <2>4 DEF AgeInv, GetDay
<1>2. CASE Restart
  <2>1. /\ current_day' = -1 /\ pc' = "open" /\ constructing'
        /\ UNCHANGED <<clock, files, mtime>>
    BY <1>2 DEF Restart
  <2>2. current_day' <= GetDay(clock)'
    BY <1>0, <1>g, <2>1
  <2> QED BY <1>m, <2>1, <2>2 DEF AgeInv, GetDay
<1>3. CASE CheckDay
  <2>1. /\ pc = "idle" /\ UNCHANGED <<clock, files, mtime, current_day, constructing>>
        /\ pc' = IF GetDay(clock) # current_day THEN "open" ELSE "payload"
    BY <1>3 DEF CheckDay
  <2>2. current_day <= GetDay(clock) /\ \A d \in DOMAIN files : d <= current_day
    BY <1>b, <2>1 DEF AgeInv
  <2>3. pc' = "open" => current_day < GetDay(clock)
    BY <1>0, <2>1, <2>2
  <2> QED BY <1>m, <2>1, <2>2, <2>3 DEF AgeInv, GetDay
<1>4. CASE OpenFileForToday
  <2>1. current_day' = GetDay(clock) /\ UNCHANGED clock /\ pc' # "open"
    BY <1>4 DEF OpenFileForToday, AfterOpen
  <2>2. ASSUME NEW d \in DOMAIN files'
        PROVE  /\ mtime'[d] <= clock /\ d <= GetDay(mtime'[d])
               /\ GetDay(mtime'[d]) <= d + 1 /\ d <= current_day'
    <3>1. CASE d \in DOMAIN files
      <4>1. mtime'[d] = mtime[d]
        BY <1>4, <3>1, OpenFiles
      <4> QED BY <1>m, <2>1, <3>1, <4>1
    <3>2. CASE d \notin DOMAIN files
      <4>1. mtime'[d] = clock /\ d = GetDay(clock)
        BY <1>4, <3>2, OpenFiles
      <4> QED BY <1>0, <2>1, <4>1
    <3> QED BY <3>1, <3>2
  <2>3. current_day' <= GetDay(clock)'
    BY <1>0, <1>g, <2>1
  <2> QED BY <2>1, <2>2, <2>3 DEF AgeInv, GetDay
<1>5. ASSUME pc # "open", pc' # "open", UNCHANGED <<clock, current_day>>,
             \A d \in DOMAIN files' :
                d \in DOMAIN files /\ mtime'[d] \in {mtime[d], clock},
             \A d \in DOMAIN files' :
                mtime'[d] # mtime[d] =>
                   d = fd /\ pc \in {"cleanup", "unlink", "payload", "newline"}
      PROVE  AgeInv'
  <2>1. ASSUME NEW d \in DOMAIN files'
        PROVE  /\ mtime'[d] <= clock /\ d <= GetDay(mtime'[d])
               /\ GetDay(mtime'[d]) <= d + 1 /\ d <= current_day
    <3>1. d \in DOMAIN files /\ d <= current_day
      BY <1>5, <1>b DEF AgeInv
    <3>2. CASE mtime'[d] = mtime[d]
      BY <1>m, <3>1, <3>2
    <3>3. CASE mtime'[d] # mtime[d]
      <4>1. mtime'[d] = clock /\ d = fd
        BY <1>5, <3>3
      <4>2. d = current_day
        BY <1>0, <3>1, <4>1 DEF CallInv
      <4>3. GetDay(since) <= d /\ d <= GetDay(clock) /\ clock <= since + DayLength
        BY <1>5, <3>3, <4>2 DEF CallInv
      <4>4. GetDay(clock) <= GetDay(since) + 1
        BY <1>0, <4>3, DayFacts
      <4>5. GetDay(clock) <= d + 1
        BY <1>0, <3>1, <4>3, <4>4
      <4> QED BY <1>0, <3>1, <4>1, <4>3, <4>5
    <3> QED BY <3>2, <3>3
  <2>2. current_day <= GetDay(clock)
    BY <1>b DEF AgeInv
  <2> QED BY <1>5, <2>1, <2>2 DEF AgeInv, GetDay
<1>6. CASE CleanupOldFiles
  <2>1. pc = "cleanup" /\ UNCHANGED <<clock, current_day, files, mtime>>
    BY <1>6, CleanupSteps
  <2>2. pc' # "open"
    BY <1>6, CleanupSteps DEF AfterOpen
  <2> QED BY <1>5, <2>1, <2>2
<1>7. ASSUME NEW d \in expired, UnlinkExpired(d) PROVE AgeInv'
  <2>1. pc = "unlink" /\ pc' = "unlink" /\ UNCHANGED <<clock, current_day>>
    BY <1>7 DEF UnlinkExpired
  <2>2. \A e \in DOMAIN files' : e \in DOMAIN files /\ mtime'[e] = mtime[e]
    BY <1>7, UnlinkFiles
  <2> QED BY <1>5, <2>1, <2>2
<1>8. CASE CleanupReturn
  <2>1. pc = "unlink" /\ pc' # "open" /\ UNCHANGED <<clock, current_day, files, mtime>>
    BY <1>8 DEF CleanupReturn, AfterOpen
  <2> QED BY <1>5, <2>1
<1>9. CASE WriteClosed
  <2>1. pc = "payload" /\ pc' = "idle" /\ UNCHANGED <<clock, current_day, files, mtime>>
    BY <1>9 DEF WriteClosed
  <2> QED BY <1>5, <2>1
<1>10. CASE WritePayload
  <2>1. pc = "payload" /\ pc' = "newline" /\ UNCHANGED <<clock, current_day>>
    BY <1>10 DEF WritePayload
  <2>2. \A d \in DOMAIN files' :
           /\ d \in DOMAIN files /\ mtime'[d] \in {mtime[d], clock}
           /\ mtime'[d] # mtime[d] => d = fd
    BY <1>10, PayloadFiles
  <2> QED BY <1>5, <2>1, <2>2
<1>11. CASE WriteNewline
  <2>1. pc = "newline" /\ pc' = "idle" /\ UNCHANGED <<clock, current_day>>
    BY <1>11 DEF WriteNewline
  <2>2. \A d \in DOMAIN files' :
           /\ d \in DOMAIN files /\ mtime'[d] \in {mtime[d], clock}
           /\ mtime'[d] # mtime[d] => d = fd
    BY <1>11, NewlineFiles
  <2> QED BY <1>5, <2>1, <2>2
<1>12. CASE UNCHANGED vars
  BY <1>12 DEF vars, history, AgeInv, GetDay
<1> QED
  BY <1>1, <1>2, <1>3, <1>4, <1>6, <1>7, <1>8, <1>9, <1>10, <1>11, <1>12 DEF Next

-----------------------------------------------------------------------------
(***************************************************************************)
(* Nothing is lost unless a call fails or the process is killed.           *)
(***************************************************************************)
\* The file in use survives cleaning up: a Write that changes the day has just
\* created it, and after the constructor has removed it the next Write opens
\* another.
LEMMA NextKeep == TypeOK /\ CallInv /\ AgeInv /\ KeepInv /\ [Next]_vars => KeepInv'
<1> SUFFICES ASSUME TypeOK, CallInv, AgeInv, KeepInv, [Next]_vars, ~setBack', ~failed'
             PROVE  KeepInv'
  BY DEF KeepInv
<1>0. /\ clock \in Nat /\ GetDay(clock) \in Nat /\ current_day \in Int /\ since \in Nat
      /\ max_days \in Nat
      /\ \A d \in DOMAIN files : d \in Nat /\ mtime[d] \in Nat
  BY ClockTyped
<1>1. ~setBack /\ ~failed
  BY HistoryKept
<1>2. lost = cut
  BY <1>1 DEF KeepInv
<1>3. CASE Tick \/ \E t \in 0..MaxTime : SetClock(t)
  <2>1. /\ GetDay(clock) <= GetDay(clock') /\ GetDay(clock') \in Nat
        /\ GetDay(clock)' = GetDay(clock')
        /\ UNCHANGED <<files, mtime, fd, current_day, pc, constructing, expired, since, lost,
                       cut>>
    BY <1>3, Forwards
  <2>2. current_day < GetDay(clock) => current_day < GetDay(clock')
    BY <1>0, <2>1
  <2> QED BY <1>1, <2>1, <2>2 DEF KeepInv
<1>4. CASE Restart
  <2>1. pc' = "open" /\ lost' = cut'
    BY <1>2, <1>4 DEF Restart
  <2> QED BY <2>1 DEF KeepInv
<1>5. CASE CheckDay
  <2>1. /\ pc = "idle" /\ pc' = IF GetDay(clock) # current_day THEN "open" ELSE "payload"
        /\ UNCHANGED <<files, fd, lost, cut>>
    BY <1>5 DEF CheckDay
  <2>2. pc' = "payload" => fd \in DOMAIN files
    BY <1>0, <1>1, <2>1 DEF KeepInv
  <2> QED BY <1>2, <2>1, <2>2 DEF KeepInv
<1>6. CASE OpenFileForToday
  <2>1. /\ pc = "open" /\ UNCHANGED <<clock, since, lost, cut>>
        /\ constructing' = (constructing /\ max_days > 0)
        /\ pc' = IF max_days > 0 THEN "cleanup" ELSE AfterOpen
    BY <1>6 DEF OpenFileForToday
  <2>2. fd' = GetDay(clock) /\ fd' \in DOMAIN files'
    BY <1>1, <1>6, OpenFiles
  <2>3. pc' = "cleanup" /\ ~constructing' => mtime'[fd'] >= since'
    <3> SUFFICES ASSUME pc' = "cleanup", ~constructing' PROVE mtime'[fd'] >= since'
      OBVIOUS
    <3>1. ~constructing
      BY <2>1 DEF AfterOpen
    <3>2. GetDay(clock) \notin DOMAIN files
      BY <1>0, <1>1, <2>1, <3>1 DEF AgeInv
    <3>3. mtime'[fd'] = clock
      BY <1>6, <2>2, <3>2, OpenFiles
    <3>4. since <= clock
      BY <2>1 DEF CallInv
    <3> QED BY <1>0, <2>1, <3>3, <3>4
  <2>4. pc' # "unlink"
    BY <2>1 DEF AfterOpen
  <2> QED BY <1>2, <2>1, <2>2, <2>3, <2>4 DEF KeepInv
<1>7. CASE CleanupOldFiles
  <2>1. pc = "cleanup" /\ UNCHANGED <<clock, files, fd, current_day, lost, cut>>
    BY <1>7, CleanupSteps
  <2>2. fd \in DOMAIN files /\ max_days > 0 /\ clock <= since + DayLength
    BY <1>1, <2>1 DEF KeepInv, CallInv
  <2>3. CASE pc' = AfterOpen
    BY <1>2, <2>1, <2>2, <2>3 DEF KeepInv, AfterOpen
  <2>4. CASE pc' = "unlink" /\ expired' = Expired(clock) /\ UNCHANGED constructing
    <3>1. CASE fd \notin Expired(clock)
      BY <1>2, <2>1, <2>2, <2>4, <3>1 DEF KeepInv
    <3>2. CASE fd \in Expired(clock)
      <4>1. clock - mtime[fd] > max_days * DayLength
        BY <2>2, <3>2, ExpiredDef
      <4>2. fd = current_day /\ fd \in Nat /\ mtime[fd] \in Nat
        BY <1>0, <2>2 DEF CallInv
      <4>3. constructing
        <5> SUFFICES ASSUME ~constructing PROVE FALSE
          OBVIOUS
        <5>1. mtime[fd] >= since
          BY <1>1, <2>1 DEF KeepInv
        <5>2. clock - mtime[fd] <= DayLength
          BY <1>0, <2>2, <4>2, <5>1, TimesAssumption
        <5>3. clock - mtime[fd] <= max_days * DayLength
          BY <1>0, <2>2, <4>2, <5>2, LimitFacts
        <5> DEFINE m == max_days * DayLength
        <5>4. m \in Int /\ clock - mtime[fd] <= m /\ clock - mtime[fd] > m
          BY <4>1, <5>3, TimesAssumption
        <5> HIDE DEF m
        <5> QED BY <1>0, <4>2, <5>4
      <4>4. GetDay(clock) > GetDay(mtime[fd])
        BY <1>0, <2>2, <4>1, <4>2, LimitFacts
      <4>5. fd <= GetDay(mtime[fd]) /\ GetDay(mtime[fd]) \in Nat
        BY <1>1, <2>2, <4>2, DayFacts DEF AgeInv
      <4>6. current_day < GetDay(clock)
        BY <1>0, <4>2, <4>4, <4>5
      <4> QED BY <1>2, <2>1, <2>4, <4>3, <4>6 DEF KeepInv, GetDay
    <3> QED BY <3>1, <3>2
  <2> QED BY <1>7, <2>3, <2>4, CleanupSteps
<1>8. ASSUME NEW d \in expired, UnlinkExpired(d) PROVE KeepInv'
  <2>1. /\ pc = "unlink" /\ pc' = "unlink"
        /\ UNCHANGED <<clock, fd, current_day, constructing, lost, cut>>
    BY <1>8 DEF UnlinkExpired
  <2>2. DOMAIN files \ {d} \subseteq DOMAIN files' /\ expired' = expired \ {d}
    BY <1>8, UnlinkFiles
  <2>3. \/ fd \in DOMAIN files \ expired
        \/ constructing /\ current_day < GetDay(clock)
    BY <1>1, <2>1 DEF KeepInv
  <2> QED BY <1>2, <2>1, <2>2, <2>3 DEF KeepInv, GetDay
<1>9. CASE CleanupReturn
  <2>1. /\ pc = "unlink" /\ pc' = AfterOpen
        /\ UNCHANGED <<clock, files, fd, current_day, lost, cut>>
    BY <1>9 DEF CleanupReturn, history
  <2>2. \/ fd \in DOMAIN files
        \/ constructing /\ current_day < GetDay(clock)
    BY <1>1, <2>1 DEF KeepInv
  <2> QED BY <1>2, <2>1, <2>2 DEF KeepInv, AfterOpen, GetDay
<1>10. CASE WriteClosed
  <2>1. fd \in DOMAIN files /\ fd = -1
    BY <1>1, <1>10 DEF KeepInv, WriteClosed
  <2> QED BY <1>0, <2>1
<1>11. CASE WritePayload
  <2>1. pc = "payload" /\ pc' = "newline" /\ UNCHANGED <<fd, cut>>
    BY <1>11 DEF WritePayload
  <2>2. fd \in DOMAIN files
    BY <1>1, <2>1 DEF KeepInv
  <2>3. lost' = lost /\ fd \in DOMAIN files'
    BY <1>11, <2>2, PayloadFiles
  <2> QED BY <1>2, <2>1, <2>3 DEF KeepInv
<1>12. CASE WriteNewline
  <2>1. pc = "newline" /\ pc' = "idle" /\ UNCHANGED <<files, fd, lost, cut>>
    BY <1>12 DEF WriteNewline
  <2>2. fd \in DOMAIN files
    BY <1>1, <2>1 DEF KeepInv
  <2> QED BY <1>2, <2>1, <2>2 DEF KeepInv
<1>13. CASE UNCHANGED vars
  BY <1>1, <1>13 DEF vars, history, KeepInv, GetDay
<1> QED
  BY <1>3, <1>4, <1>5, <1>6, <1>7, <1>8, <1>9, <1>10, <1>11, <1>12, <1>13 DEF Next

\* Unless the clock was set back, an entry is lost only when open or write has
\* failed or the process was killed while writing it: the file in use is never
\* one that cleaning up removes, also after restarts and failures to clean up.
THEOREM LostOnlyByFailureCorrect == Spec => []LostOnlyByFailure
<1>1. KeepInv => LostOnlyByFailure
  BY DEF KeepInv, LostOnlyByFailure
<1>2. DailyInv => TypeOK /\ CallInv /\ AgeInv /\ KeepInv
  BY DEF DailyInv
<1> QED
  BY <1>1, <1>2, InitDaily, NextTyped, NextCall, NextAge, NextKeep, PTL DEF Spec

-----------------------------------------------------------------------------
(***************************************************************************)
(* The order of what is on disk.                                           *)
(***************************************************************************)
\* The entry that is appended is newer than all others and goes to the file of
\* the latest day.
LEMMA NextDays ==
  TypeOK /\ CallInv /\ FreshInv /\ AgeInv /\ DaysInOrder /\ [Next]_vars => DaysInOrder'
<1> SUFFICES ASSUME TypeOK, CallInv, FreshInv, AgeInv, DaysInOrder, [Next]_vars,
                    ~setBack'
             PROVE  DaysInOrder'
  BY DEF DaysInOrder
<1>0. /\ writes \in Nat /\ current_day \in Int
      /\ \A d \in DOMAIN files : d \in Nat
  BY ClockTyped
<1>1. ~setBack
  BY HistoryKept
<1>2. ASSUME \A d \in DOMAIN files' :
                files'[d] = << >> \/ (d \in DOMAIN files /\ files'[d] = files[d])
      PROVE  DaysInOrder'
  <2>1. ASSUME NEW d \in DOMAIN files', NEW e \in DOMAIN files',
               NEW k \in DOMAIN files'[d], NEW j \in DOMAIN files'[e],
               d < e \/ (d = e /\ k < j)
        PROVE  files'[d][k] < files'[e][j]
    <3>1. files'[d] # << >> /\ files'[e] # << >>
      OBVIOUS
    <3>2. /\ d \in DOMAIN files /\ files'[d] = files[d]
          /\ e \in DOMAIN files /\ files'[e] = files[e]
      BY <1>2, <3>1
    <3> QED BY <1>1, <2>1, <3>2 DEF DaysInOrder
  <2> QED BY <2>1 DEF DaysInOrder
<1>3. CASE WritePayload
  <2>1. pc = "payload" /\ DOMAIN files' = DOMAIN files
    BY <1>3, PayloadFiles DEF WritePayload
  <2>2. CASE \A d \in DOMAIN files : files'[d] = files[d]
    BY <1>2, <2>1, <2>2
  <2>3. CASE ~(\A d \in DOMAIN files : files'[d] = files[d])
    <3>0. fd \in DOMAIN files /\ files'[fd] # files[fd]
      BY <1>3, <2>3, PayloadFiles
    <3> DEFINE n == Len(files[fd])
    <3>1. /\ DOMAIN files'[fd] = 1..(n + 1) /\ DOMAIN files[fd] = 1..n /\ n \in Nat
          /\ files'[fd][n + 1] = writes
          /\ \A k \in 1..n : files'[fd][k] = files[fd][k]
          /\ \A d \in DOMAIN files : d # fd => files'[d] = files[d]
      BY <1>3, <3>0, PayloadFiles
    <3> HIDE DEF n
    <3>2. \A d \in DOMAIN files : \A k \in DOMAIN files[d] : files[d][k] < writes
      BY <2>1 DEF FreshInv, CallInv, Writing
    <3>3. \A d \in DOMAIN files : d <= fd
      BY <1>0, <1>1, <2>1, <3>0 DEF AgeInv, CallInv
    <3>4. ASSUME NEW d \in DOMAIN files', NEW e \in DOMAIN files',
                 NEW k \in DOMAIN files'[d], NEW j \in DOMAIN files'[e],
                 d < e \/ (d = e /\ k < j)
          PROVE  files'[d][k] < files'[e][j]
      <4>1. k \in DOMAIN files[d] /\ files'[d][k] = files[d][k]
        <5>1. CASE d # fd
          BY <2>1, <3>1, <5>1
        <5>2. CASE d = fd
          <6>1. e = fd /\ k < j
            BY <1>0, <2>1, <3>0, <3>3, <3>4, <5>2
          <6>2. k \in 1..n
            BY <3>1, <5>2, <6>1
          <6> QED BY <3>1, <5>2, <6>2
        <5> QED BY <5>1, <5>2
      <4>2. CASE j \in DOMAIN files[e]
        <5>1. files'[e][j] = files[e][j]
          BY <2>1, <3>1, <4>2
        <5>2. files[d][k] < files[e][j]
          BY <1>1, <2>1, <3>4, <4>1, <4>2 DEF DaysInOrder
        <5> QED BY <4>1, <5>1, <5>2
      <4>3. CASE j \notin DOMAIN files[e]
        <5>1. e = fd /\ j = n + 1
          BY <2>1, <3>1, <4>3
        <5> QED BY <2>1, <3>1, <3>2, <4>1, <5>1
      <4> QED BY <4>2, <4>3
    <3> QED BY <3>4 DEF DaysInOrder
  <2> QED BY <2>2, <2>3
<1>4. CASE OpenFileForToday
  BY <1>2, <1>4, OpenFiles
<1>5. ASSUME NEW d \in expired, UnlinkExpired(d) PROVE DaysInOrder'
  BY <1>2, <1>5, UnlinkFiles
<1>6. CASE Tick \/ (\E t \in 0..MaxTime : SetClock(t)) \/ Restart \/ CheckDay
           \/ CleanupOldFiles \/ CleanupReturn \/ WriteClosed \/ WriteNewline
           \/ UNCHANGED vars
  <2>1. UNCHANGED files
    BY <1>6 DEF Tick, SetClock, Restart, CheckDay, CleanupOldFiles, CleanupReturn,
                WriteClosed, WriteNewline, vars
  <2> QED BY <1>2, <2>1
<1> QED BY <1>3, <1>4, <1>5, <1>6 DEF Next

\* Read by the days in the names, the files hold the entries in the order they
\* were written, none twice, unless the clock was set back.
THEOREM DaysInOrderCorrect == Spec => []DaysInOrder
<1>1. DailyInv => TypeOK /\ CallInv /\ FreshInv /\ AgeInv /\ DaysInOrder
  BY DEF DailyInv
<1> QED
  BY <1>1, InitDaily, NextTyped, NextCall, NextFresh, NextAge, NextDays, PTL DEF Spec

-----------------------------------------------------------------------------
(***************************************************************************)
(* The number of files.                                                    *)
(***************************************************************************)
\* A file that cleaning up does not mean to unlink was last written at most
\* max_days_ days ago, and is named for that day or the one before.
LEMMA NextSpan == TypeOK /\ CallInv /\ AgeInv /\ SpanInv /\ [Next]_vars => SpanInv'
<1> SUFFICES ASSUME TypeOK, CallInv, AgeInv, SpanInv, [Next]_vars,
                    max_days > 0, ~setBack', ~skipped',
                    pc' \in {"unlink", "idle", "payload", "newline"}
             PROVE  \A d \in DOMAIN files' \ expired' : current_day' - max_days - 1 <= d
  BY DEF SpanInv
<1>0. /\ clock \in Nat /\ GetDay(clock) \in Nat /\ current_day \in Int
      /\ max_days \in Nat
      /\ \A d \in DOMAIN files : d \in Nat /\ mtime[d] \in Nat
  BY ClockTyped
<1>1. ~setBack
  BY HistoryKept
<1>2. ASSUME pc \in {"unlink", "idle", "payload", "newline"}, ~skipped,
             UNCHANGED current_day, DOMAIN files' \ expired' \subseteq DOMAIN files \ expired
      PROVE  \A d \in DOMAIN files' \ expired' : current_day' - max_days - 1 <= d
  BY <1>1, <1>2 DEF SpanInv
<1>3. CASE CleanupOldFiles
  <2>1. UNCHANGED <<files, current_day>> /\ expired' = Expired(clock)
    BY <1>3, CleanupSteps
  <2> SUFFICES ASSUME NEW d \in DOMAIN files, d \notin Expired(clock)
               PROVE  current_day - max_days - 1 <= d
    BY <2>1
  <2>2. clock - mtime[d] <= max_days * DayLength
    BY ExpiredDef
  <2>3. mtime[d] \in Nat /\ GetDay(mtime[d]) \in Nat /\ d \in Nat
    BY <1>0, DayFacts
  <2>4. GetDay(clock) <= GetDay(mtime[d]) + max_days
    BY <1>0, <2>2, <2>3, LimitFacts
  <2>5. GetDay(mtime[d]) <= d + 1 /\ current_day <= GetDay(clock)
    BY <1>1 DEF AgeInv
  <2> QED BY <1>0, <2>3, <2>4, <2>5
<1>4. ASSUME NEW d \in expired, UnlinkExpired(d)
      PROVE  \A e \in DOMAIN files' \ expired' : current_day' - max_days - 1 <= e
  <2>1. pc = "unlink" /\ UNCHANGED current_day
    BY <1>4 DEF UnlinkExpired
  <2>2. ~skipped /\ DOMAIN files' = DOMAIN files \ {d} /\ expired' = expired \ {d}
    BY <1>4, UnlinkFiles
  <2> QED BY <1>2, <2>1, <2>2
<1>5. CASE WritePayload
  <2>1. pc = "payload" /\ UNCHANGED <<current_day, expired, skipped>>
    BY <1>5 DEF WritePayload
  <2>2. DOMAIN files' = DOMAIN files
    BY <1>5, PayloadFiles
  <2> QED BY <1>2, <2>1, <2>2
<1>6. CASE OpenFileForToday \/ Restart
  BY <1>0, <1>6 DEF OpenFileForToday, Restart
<1>7. CASE CleanupReturn \/ WriteClosed \/ WriteNewline \/ CheckDay
           \/ Tick \/ (\E t \in 0..MaxTime : SetClock(t)) \/ UNCHANGED vars
  <2>1. UNCHANGED <<files, current_day, expired, skipped>>
    BY <1>7 DEF CleanupReturn, WriteClosed, WriteNewline, CheckDay, Tick, SetClock, vars,
                history
  <2>2. pc \in {"unlink", "idle", "payload", "newline"}
    BY <1>7 DEF CleanupReturn, WriteClosed, WriteNewline, CheckDay, Tick, SetClock, vars
  <2> QED BY <1>2, <2>1, <2>2
<1> QED BY <1>3, <1>4, <1>5, <1>6, <1>7 DEF Next

\* Old files do not pile up: in between calls the directory holds at most
\* max_days_ + 2 files, also after restarts, after days without an entry and
\* after earlier calls that could not clean up, unless the clock was set back or
\* the last CleanupOldFiles failed.
THEOREM FilesBoundedCorrect == Spec => []FilesBounded
<1>1. TypeOK /\ CallInv /\ AgeInv /\ SpanInv => FilesBounded
  <2> SUFFICES ASSUME TypeOK, CallInv, AgeInv, SpanInv, max_days > 0, ~setBack, ~skipped,
                      pc = "idle"
               PROVE  Cardinality(DOMAIN files) <= max_days + 2
    BY DEF FilesBounded
  <2>0. current_day \in Int /\ max_days \in Nat /\ \A d \in DOMAIN files : d \in Nat
    BY ClockTyped
  <2> DEFINE a == current_day - max_days - 1
             I == a..current_day
  <2>1. DOMAIN files \subseteq I
    BY <2>0 DEF AgeInv, SpanInv, CallInv
  <2>2. a \in Int /\ a <= current_day /\ current_day - a + 1 = max_days + 2
    BY <2>0
  <2> HIDE DEF a
  <2>3. IsFiniteSet(I) /\ Cardinality(I) = max_days + 2
    BY <2>0, <2>2, FS_Interval
  <2> HIDE DEF I
  <2>4. Cardinality(DOMAIN files) <= Cardinality(I)
    BY <2>1, <2>3, FS_Subset
  <2> QED BY <2>3, <2>4
<1>2. DailyInv => TypeOK /\ CallInv /\ AgeInv /\ SpanInv
  BY DEF DailyInv
<1> QED
  BY <1>1, <1>2, InitDaily, NextTyped, NextCall, NextAge, NextSpan, PTL DEF Spec
=============================================================================
