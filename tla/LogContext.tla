----------------------------- MODULE LogContext -----------------------------
(***************************************************************************)
(* br_logger::LogContext: the tags every entry carries.  Global tags are   *)
(* shared and guarded by global_mutex_, so each operation on them is one   *)
(* step; scoped tags live in a thread-local vector that ScopedTag's        *)
(* constructor pushes to and its destructor pops from, by key.             *)
(*                                                                         *)
(* Keys are stored cut to 31 characters and compared, uncut, over 32.  A   *)
(* key is a record: the key with long = TRUE has more than 31 characters,  *)
(* and its first 31 are the key of the same name with long = FALSE.        *)
(*                                                                         *)
(* Process name, application version, thread name and thread id are plain  *)
(* copies and are left out.                                                *)
(***************************************************************************)
EXTENDS Integers, Sequences, FiniteSets, SequencesExt

CONSTANTS
    Threads,
    Names,          \* keys, up to their first 31 characters
    Lengths,        \* subset of BOOLEAN: whether keys may be longer than 31
    Values,
    Null,           \* nullptr passed as a value
    MaxGlobal,      \* 16: capacity of global_tags_
    MaxTags,        \* BR_LOG_MAX_TAGS: capacity of tls_tags_ and of an entry
    MaxDepth        \* bound: scopes a thread has open at once

ASSUME SizesAssumption ==
    MaxGlobal \in Nat /\ MaxTags \in Nat /\ MaxDepth \in Nat
ASSUME LengthsAssumption == Lengths \subseteq BOOLEAN
ASSUME NullAssumption == Null \notin Values

VARIABLES
    global_tags,    \* global_tags_
    tls_tags,       \* tls_tags_ of each thread
    scopes,         \* the ScopedTag objects alive in each thread, innermost last
    meant           \* history: what SetGlobalTag and RemoveGlobalTag asked for

vars == <<global_tags, tls_tags, scopes, meant>>

Keys == [name : Names, long : Lengths]
StoredKeys == [name : Names, long : {FALSE}]
Tags == [key : StoredKeys, value : Values]

\* strncpy of at most 31 characters into a tag.
Stored(k) == [name |-> k.name, long |-> FALSE]
MakeTag(k, v) == [key |-> Stored(k), value |-> v]

\* strncmp(tag.key, key, 32) = 0: a stored key has at most 31 characters.
Matches(tag, k) == tag.key = k

-----------------------------------------------------------------------------
(***************************************************************************)
(* FixedVector, and the two ways its users search and remove.              *)
(***************************************************************************)
\* Mutant: no check against the capacity.
PushBackUnchecked(vec, capacity, tag) == Append(vec, tag)

PushBack(vec, capacity, tag) ==
    IF Len(vec) >= capacity THEN vec ELSE Append(vec, tag)

Hits(vec, k) == {i \in DOMAIN vec : Matches(vec[i], k)}

\* Mutant: the last element is popped but not moved into the gap.
DropLast(vec, i) == Front(vec)

\* The element is overwritten by the last one, which is then popped.
SwapRemove(vec, i) == Front([vec EXCEPT ![i] = vec[Len(vec)]])

SetTag(vec, k, v) ==
    IF Hits(vec, k) # {}
    THEN [vec EXCEPT ![Min(Hits(vec, k))] = [key |-> @.key, value |-> v]]
    ELSE PushBack(vec, MaxGlobal, MakeTag(k, v))

RemoveLowest(vec, k) ==
    IF Hits(vec, k) = {} THEN vec ELSE SwapRemove(vec, Min(Hits(vec, k)))

\* Mutant: PopScopedTag searches from the front.
RemoveFromFront(vec, k) ==
    IF Hits(vec, k) = {} THEN vec ELSE SwapRemove(vec, Min(Hits(vec, k)))

\* Mutant: the search stops before the first place (`i > 0`).
RemoveAboveFirst(vec, k) ==
    LET hits == Hits(vec, k) \ {1}
    IN  IF hits = {} THEN vec ELSE SwapRemove(vec, Max(hits))

\* PopScopedTag searches from the end.
RemoveHighest(vec, k) ==
    IF Hits(vec, k) = {} THEN vec ELSE SwapRemove(vec, Max(Hits(vec, k)))

-----------------------------------------------------------------------------
Init ==
    /\ global_tags = << >>
    /\ tls_tags = [t \in Threads |-> << >>]
    /\ scopes = [t \in Threads |-> << >>]
    /\ meant = {}

\* A tag that finds no room is dropped without notice.
SetGlobalTag(k, v) ==
    /\ v # Null
    /\ global_tags' = SetTag(global_tags, k, v)
    /\ LET others == {m \in meant : m[1] # k} IN
         meant' = IF others # meant \/ Cardinality(meant) < MaxGlobal
                  THEN others \cup {<<k, v>>} ELSE meant
    /\ UNCHANGED <<tls_tags, scopes>>

RemoveGlobalTag(k) ==
    /\ global_tags' = RemoveLowest(global_tags, k)
    /\ meant' = {m \in meant : m[1] # k}
    /\ UNCHANGED <<tls_tags, scopes>>

\* The constructor of ScopedTag: PushScopedTag does nothing with a null value
\* or a full vector; the object exists all the same.
OpenScope(t, k, v) ==
    /\ Len(scopes[t]) < MaxDepth
    /\ LET room == v # Null /\ Len(tls_tags[t]) < MaxTags IN
         scopes' = [scopes EXCEPT ![t] =
                      Append(@, [key |-> k, value |-> v, pushed |-> room])]
    /\ tls_tags' = [tls_tags EXCEPT ![t] =
                      IF v = Null THEN @ ELSE PushBack(@, MaxTags, MakeTag(k, v))]
    /\ UNCHANGED <<global_tags, meant>>

\* The destructor: scopes of one thread end innermost first.
CloseScope(t) ==
    /\ scopes[t] # << >>
    /\ tls_tags' = [tls_tags EXCEPT ![t] = RemoveHighest(@, Last(scopes[t]).key)]
    /\ scopes' = [scopes EXCEPT ![t] = Front(@)]
    /\ UNCHANGED <<global_tags, meant>>

\* Mutant: one tag short of the entry's room.
FillTagsShort(t) ==
    LET all == global_tags \o tls_tags[t]
    IN  SubSeq(all, 1, IF Len(all) < MaxTags THEN Len(all) ELSE MaxTags - 1)

\* FillTags: the global tags, copied under the shared lock, then the calling
\* thread's, up to MaxTags in all.
FillTags(t) ==
    LET all == global_tags \o tls_tags[t]
    IN  SubSeq(all, 1, IF Len(all) < MaxTags THEN Len(all) ELSE MaxTags)

Next ==
    \/ \E k \in Keys, v \in Values : SetGlobalTag(k, v)
    \/ \E k \in Keys : RemoveGlobalTag(k)
    \/ \E t \in Threads, k \in Keys, v \in Values \cup {Null} : OpenScope(t, k, v)
    \/ \E t \in Threads : CloseScope(t)

Spec == Init /\ [][Next]_vars

-----------------------------------------------------------------------------
(***************************************************************************)
(* Properties.  The first four hold for keys of at most 31 characters.     *)
(***************************************************************************)
Scopes == [key : Keys, value : Values \cup {Null}, pushed : BOOLEAN]

\* The type invariant: vectors stay within their capacities.
TypeOK ==
    /\ global_tags \in Seq(Tags) /\ Len(global_tags) <= MaxGlobal
    /\ tls_tags \in [Threads -> Seq(Tags)]
    /\ \A t \in Threads : Len(tls_tags[t]) <= MaxTags
    /\ scopes \in [Threads -> Seq(Scopes)]
    /\ meant \subseteq Keys \X Values

\* The unordered, swap-removing vector behaves as a map: one tag per key, with
\* the last value set, and only for keys that were set and not removed.
GlobalTagsAreMap ==
    /\ {<<global_tags[i].key, global_tags[i].value>> : i \in DOMAIN global_tags}
         = meant
    /\ Cardinality(meant) = Len(global_tags)

Unspilled(t) == \A i \in DOMAIN scopes[t] : scopes[t][i].pushed

TagOf(s) == MakeTag(s.key, s.value)

\* As long as every open scope found room, the thread's tags are exactly its
\* open scopes, in order, also when scopes nest with the same key and even if
\* scopes that found no room have come and gone, unless one of those shared
\* its key with a scope that is still open.
ScopesAreTags ==
    \A t \in Threads :
        Unspilled(t) /\ Len(tls_tags[t]) = Len(scopes[t]) =>
            tls_tags[t] = [i \in DOMAIN scopes[t] |-> TagOf(scopes[t][i])]

CountKey(vec, k) == Cardinality({i \in DOMAIN vec : vec[i].key = k})

\* No tag outlives its scope: a thread never carries more tags of a key than
\* it has scopes of that key open, whatever overflowed or was null.
NoTagOutlivesScope ==
    \A t \in Threads, k \in StoredKeys :
        CountKey(tls_tags[t], k) <= CountKey(scopes[t], k)

\* A thread with no scope open carries no scoped tag: what the example and the
\* ScopedTagRAII test say of the closing brace.
TagsRemovedWithScope ==
    \A t \in Threads : scopes[t] = << >> => tls_tags[t] = << >>

\* An entry that has room for them carries every global tag and every tag of
\* the logging thread, and nothing else; and no entry ever carries a key that
\* neither a global tag nor an open scope of the thread has.  (Its value may be
\* that of a scope that has closed: a scope that found no room takes, when it
\* closes, the tag of another and changes the order of the rest, and the next
\* scopes with equal keys then end outermost first.)
EntryCarriesContext ==
    \A t \in Threads :
        LET tags == FillTags(t)
            due == ToSet(global_tags) \cup {TagOf(s) : s \in ToSet(scopes[t])}
        IN  /\ {tag.key : tag \in ToSet(tags)} \subseteq {tag.key : tag \in due}
            /\ Len(global_tags) + Len(scopes[t]) <= MaxTags
               /\ Unspilled(t)
               /\ Len(tls_tags[t]) = Len(scopes[t])
               => ToSet(tags) = due
=============================================================================
