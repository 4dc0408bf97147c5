------------------------- MODULE LogContext_proofs -------------------------
(***************************************************************************)
(* Proofs about LogContext, for any threads, keys, values and capacities.  *)
(***************************************************************************)
EXTENDS LogContext, FiniteSetTheorems, SequenceTheorems, WellFoundedInduction, TLAPS

-----------------------------------------------------------------------------
(***************************************************************************)
(* Vectors.                                                                *)
(***************************************************************************)
\* A set of numbers that is not empty has a least element.
LEMMA LeastExists ==
  ASSUME NEW S \in SUBSET Nat, S # {}
  PROVE  \E x \in S : \A y \in S : x <= y
<1> DEFINE R == {ss \in Nat \X Nat : ss[1] < ss[2]}
<1>1. OpToRel(<, Nat) = R
  BY Zenon DEF OpToRel
<1>2. IsWellFoundedOn(R, Nat)
  BY <1>1, NatLessThanWellFounded, Zenon
<1>3. \E x \in S : \A y \in S : ~(<<y, x>> \in R)
  BY <1>2, WFMin, Zenon
<1>4. ASSUME NEW x \in Nat, NEW y \in Nat, y < x PROVE <<y, x>> \in R
  BY <1>4
<1> HIDE DEF R
<1>5. PICK x \in S : \A y \in S : ~(<<y, x>> \in R)
  BY <1>3, Zenon
<1>6. ASSUME NEW y \in S PROVE x <= y
  <2>1. ~(y < x)
    BY <1>4, <1>5
  <2> QED BY <2>1
<1> QED BY <1>6

\* A bounded set of numbers that is not empty has a least and a greatest one.
LEMMA MinMax ==
  ASSUME NEW n \in Nat, NEW S \in SUBSET (1..n), S # {}
  PROVE  /\ Min(S) \in S /\ \A y \in S : Min(S) <= y
         /\ Max(S) \in S /\ \A y \in S : y <= Max(S)
<1>1. \E x \in S : \A y \in S : x <= y
  BY LeastExists
<1>2. \E x \in S : \A y \in S : x >= y
  <2> DEFINE T == {n - y : y \in S}
  <2>1. T \in SUBSET Nat /\ T # {}
    <3>1. \A y \in S : n - y \in Nat
      OBVIOUS
    <3>2. PICK y \in S : TRUE
      OBVIOUS
    <3>3. n - y \in T
      OBVIOUS
    <3>4. ASSUME NEW z \in T PROVE z \in Nat
      BY <3>1
    <3> QED BY <3>3, <3>4
  <2>2. PICK z \in T : \A y \in T : z <= y
    <3> HIDE DEF T
    <3> QED BY <2>1, LeastExists
  <2>3. PICK x \in S : z = n - x
    OBVIOUS
  <2>4. ASSUME NEW y \in S PROVE x >= y
    <3>1. n - y \in T
      OBVIOUS
    <3>2. n - x <= n - y
      BY <2>2, <2>3, <3>1
    <3> QED BY <3>2
  <2> QED BY <2>4
<1>3. Min(S) \in S /\ \A y \in S : Min(S) <= y
  BY <1>1 DEF Min
<1>4. Max(S) \in S /\ \A y \in S : Max(S) >= y
  BY <1>2 DEF Max
<1>5. ASSUME NEW y \in S PROVE y <= Max(S)
  BY <1>4
<1> QED BY <1>3, <1>4, <1>5

\* The last element takes the place of the removed one.
LEMMA SwapRemoveEffect ==
  ASSUME NEW S, NEW vec \in Seq(S), NEW i \in 1..Len(vec)
  PROVE  /\ SwapRemove(vec, i) \in Seq(S)
         /\ Len(SwapRemove(vec, i)) = Len(vec) - 1
         /\ \A k \in 1..(Len(vec) - 1) :
               SwapRemove(vec, i)[k] = IF k = i THEN vec[Len(vec)] ELSE vec[k]
<1> DEFINE n == Len(vec)
           w == [vec EXCEPT ![i] = vec[n]]
<1>1. n \in Nat \ {0} /\ DOMAIN vec = 1..n /\ n \in 1..n /\ i \in 1..n
  OBVIOUS
<1>2. \A k \in 1..n : vec[k] \in S
  OBVIOUS
<1>3. DOMAIN w = 1..n /\ \A k \in 1..n : w[k] = IF k = i THEN vec[n] ELSE vec[k]
  BY <1>1
<1>4. \A k \in 1..n : w[k] \in S
  BY <1>1, <1>2, <1>3
<1>5. w \in [1..n -> S]
  BY <1>3, <1>4
<1>6. SwapRemove(vec, i) = SubSeq(w, 1, Len(w) - 1)
  BY DEF SwapRemove, Front
<1> HIDE DEF n, w
<1>7. w \in Seq(S) /\ Len(w) = n
  BY <1>1, <1>3, <1>5
<1>8. /\ SubSeq(w, 1, n - 1) \in Seq(S) /\ Len(SubSeq(w, 1, n - 1)) = n - 1
      /\ \A k \in 1..(n - 1) : SubSeq(w, 1, n - 1)[k] = w[k]
  BY <1>1, <1>7
<1>9. \A k \in 1..(n - 1) : w[k] = IF k = i THEN vec[n] ELSE vec[k]
  BY <1>1, <1>3
<1> QED BY <1>6, <1>7, <1>8, <1>9 DEF n

\* Front drops the last element.
LEMMA FrontEffect ==
  ASSUME NEW S, NEW s \in Seq(S), s # << >>
  PROVE  /\ Len(s) \in Nat \ {0} /\ DOMAIN s = 1..Len(s)
         /\ Front(s) \in Seq(S) /\ Len(Front(s)) = Len(s) - 1
         /\ \A k \in 1..(Len(s) - 1) : Front(s)[k] = s[k]
         /\ Last(s) = s[Len(s)] /\ Last(s) \in S
<1>1. Len(s) \in Nat \ {0} /\ DOMAIN s = 1..Len(s)
  OBVIOUS
<1>2. /\ SubSeq(s, 1, Len(s) - 1) \in Seq(S)
      /\ Len(SubSeq(s, 1, Len(s) - 1)) = Len(s) - 1
      /\ \A k \in 1..(Len(s) - 1) : SubSeq(s, 1, Len(s) - 1)[k] = s[k]
  BY <1>1
<1>3. s[Len(s)] \in S
  BY <1>1
<1> QED BY <1>1, <1>2, <1>3 DEF Front, Last

\* Append adds an element at the end.
LEMMA AppendEffect ==
  ASSUME NEW S, NEW s \in Seq(S), NEW e \in S
  PROVE  /\ Len(s) \in Nat /\ DOMAIN s = 1..Len(s)
         /\ Append(s, e) \in Seq(S) /\ Len(Append(s, e)) = Len(s) + 1
         /\ Append(s, e)[Len(s) + 1] = e
         /\ \A k \in 1..Len(s) : Append(s, e)[k] = s[k]
OBVIOUS

\* An element of a sequence is in the set it is a sequence over.
LEMMA ElementOf == \A S : \A s \in Seq(S) : \A k \in DOMAIN s : s[k] \in S
OBVIOUS

-----------------------------------------------------------------------------
(***************************************************************************)
(* Type correctness.                                                       *)
(***************************************************************************)
\* Keys are stored cut, whatever their length.
LEMMA TagTyped ==
  ASSUME NEW k \in Keys, NEW v \in Values
  PROVE  MakeTag(k, v) \in Tags
BY DEF MakeTag, Stored, Keys, StoredKeys, Tags

\* PushBack stays within the capacity.
LEMMA PushTyped ==
  ASSUME NEW vec \in Seq(Tags), NEW n \in Nat, Len(vec) <= n, NEW tag \in Tags
  PROVE  PushBack(vec, n, tag) \in Seq(Tags) /\ Len(PushBack(vec, n, tag)) <= n
<1>1. CASE Len(vec) >= n
  BY <1>1 DEF PushBack
<1>2. CASE ~(Len(vec) >= n)
  <2>1. PushBack(vec, n, tag) = Append(vec, tag)
    BY <1>2 DEF PushBack
  <2>2. Len(vec) + 1 <= n
    BY <1>2
  <2> QED BY <2>1, <2>2, AppendEffect
<1> QED BY <1>1, <1>2

\* Where a key is found is a place of the vector.
LEMMA HitsTyped ==
  ASSUME NEW vec \in Seq(Tags), NEW k, Hits(vec, k) # {}
  PROVE  /\ Min(Hits(vec, k)) \in Hits(vec, k) /\ Max(Hits(vec, k)) \in Hits(vec, k)
         /\ Hits(vec, k) \subseteq 1..Len(vec)
         /\ \A y \in Hits(vec, k) : y <= Max(Hits(vec, k))
<1>1. Hits(vec, k) \in SUBSET (1..Len(vec)) /\ Len(vec) \in Nat
  BY DEF Hits
<1> QED BY <1>1, MinMax

\* Setting and removing keep vectors of tags, within the capacity.
LEMMA VectorsTyped ==
  ASSUME NEW vec \in Seq(Tags), NEW k \in Keys
  PROVE  /\ RemoveLowest(vec, k) \in Seq(Tags) /\ Len(RemoveLowest(vec, k)) <= Len(vec)
         /\ RemoveHighest(vec, k) \in Seq(Tags) /\ Len(RemoveHighest(vec, k)) <= Len(vec)
         /\ \A v \in Values : Len(vec) <= MaxGlobal =>
               SetTag(vec, k, v) \in Seq(Tags) /\ Len(SetTag(vec, k, v)) <= MaxGlobal
<1>1. CASE Hits(vec, k) = {}
  <2>1. RemoveLowest(vec, k) = vec /\ RemoveHighest(vec, k) = vec
    BY <1>1 DEF RemoveLowest, RemoveHighest
  <2>2. ASSUME NEW v \in Values, Len(vec) <= MaxGlobal
        PROVE  SetTag(vec, k, v) \in Seq(Tags) /\ Len(SetTag(vec, k, v)) <= MaxGlobal
    <3>1. SetTag(vec, k, v) = PushBack(vec, MaxGlobal, MakeTag(k, v))
      BY <1>1 DEF SetTag
    <3> QED BY <2>2, <3>1, SizesAssumption, TagTyped, PushTyped
  <2>3. Len(vec) <= Len(vec)
    <3>1. Len(vec) \in Nat
      OBVIOUS
    <3> QED BY <3>1
  <2> QED BY <2>1, <2>2, <2>3
<1>2. CASE Hits(vec, k) # {}
  <2> DEFINE lo == Min(Hits(vec, k))
             hi == Max(Hits(vec, k))
  <2>1. lo \in 1..Len(vec) /\ hi \in 1..Len(vec) /\ Len(vec) \in Nat
    BY <1>2, HitsTyped
  <2>2. RemoveLowest(vec, k) = SwapRemove(vec, lo) /\ RemoveHighest(vec, k) = SwapRemove(vec, hi)
    BY <1>2 DEF RemoveLowest, RemoveHighest
  <2>3. ASSUME NEW v \in Values
        PROVE  SetTag(vec, k, v) \in Seq(Tags) /\ Len(SetTag(vec, k, v)) = Len(vec)
    <3> DEFINE new == [key |-> vec[lo].key, value |-> v]
               w == [vec EXCEPT ![lo] = new]
    <3>1. SetTag(vec, k, v) = w
      BY <1>2 DEF SetTag
    <3>2. vec[lo] \in Tags
      BY <2>1, ElementOf
    <3>3. new \in Tags
      BY <3>2 DEF Tags
    <3> HIDE DEF lo, new
    <3>4. w \in Seq(Tags) /\ Len(w) = Len(vec)
      BY <2>1, <3>3
    <3> HIDE DEF w
    <3> QED BY <3>1, <3>4
  <2> HIDE DEF lo, hi
  <2>4. /\ SwapRemove(vec, lo) \in Seq(Tags) /\ Len(SwapRemove(vec, lo)) = Len(vec) - 1
        /\ SwapRemove(vec, hi) \in Seq(Tags) /\ Len(SwapRemove(vec, hi)) = Len(vec) - 1
    BY <2>1, SwapRemoveEffect
  <2> QED BY <2>1, <2>2, <2>3, <2>4
<1> QED BY <1>1, <1>2

\* Initially there are no tags.
LEMMA InitTyped == Init => TypeOK
<1> SUFFICES ASSUME Init PROVE TypeOK
  OBVIOUS
<1>1. << >> \in Seq(Tags) /\ << >> \in Seq(Scopes) /\ Len(<< >>) = 0
  OBVIOUS
<1>2. /\ global_tags = << >> /\ tls_tags = [t \in Threads |-> << >>]
      /\ scopes = [t \in Threads |-> << >>] /\ meant = {}
  BY DEF Init
<1>3. global_tags \in Seq(Tags) /\ Len(global_tags) <= MaxGlobal
  BY <1>1, <1>2, SizesAssumption
<1>4. /\ tls_tags \in [Threads -> Seq(Tags)] /\ scopes \in [Threads -> Seq(Scopes)]
      /\ \A t \in Threads : Len(tls_tags[t]) <= MaxTags
  BY <1>1, <1>2, SizesAssumption
<1> QED BY <1>2, <1>3, <1>4 DEF TypeOK

\* The scope that a ScopedTag object stands for.
Scope(k, v, room) == [key |-> k, value |-> v, pushed |-> room]

\* What OpenScope does to its thread.
LEMMA OpenEffect ==
  ASSUME TypeOK, NEW t \in Threads, NEW k \in Keys, NEW v \in Values \cup {Null},
         OpenScope(t, k, v)
  PROVE  \E room \in BOOLEAN :
            /\ scopes' = [scopes EXCEPT ![t] = Append(scopes[t], Scope(k, v, room))]
            /\ Scope(k, v, room) \in Scopes
            /\ room => /\ v \in Values /\ Len(tls_tags[t]) < MaxTags
                       /\ tls_tags' =
                            [tls_tags EXCEPT ![t] = Append(tls_tags[t], MakeTag(k, v))]
            /\ ~room => tls_tags' = tls_tags
            /\ UNCHANGED <<global_tags, meant>>
<1> DEFINE room == v # Null /\ Len(tls_tags[t]) < MaxTags
           e == IF v = Null THEN tls_tags[t]
                ELSE PushBack(tls_tags[t], MaxTags, MakeTag(k, v))
<1>1. /\ scopes' = [scopes EXCEPT ![t] = Append(scopes[t], Scope(k, v, room))]
      /\ tls_tags' = [tls_tags EXCEPT ![t] = e]
      /\ UNCHANGED <<global_tags, meant>>
  BY DEF OpenScope, Scope
<1>2. Scope(k, v, room) \in Scopes
  BY DEF Scope, Scopes
<1>3. tls_tags \in [Threads -> Seq(Tags)] /\ Len(tls_tags[t]) \in Nat /\ MaxTags \in Nat
  BY SizesAssumption DEF TypeOK
<1>4. room => v \in Values /\ Len(tls_tags[t]) < MaxTags /\ e = Append(tls_tags[t], MakeTag(k, v))
  BY <1>3 DEF PushBack
<1>5. ~room => e = tls_tags[t]
  BY <1>3 DEF PushBack
<1>6. room \in BOOLEAN
  OBVIOUS
<1> HIDE DEF room, e
<1>7. ~room => tls_tags' = tls_tags
  BY <1>1, <1>3, <1>5
<1> QED BY <1>1, <1>2, <1>4, <1>6, <1>7

\* What CloseScope does to its thread.
LEMMA CloseEffect ==
  ASSUME TypeOK, NEW t \in Threads, CloseScope(t)
  PROVE  /\ scopes[t] # << >> /\ scopes[t] \in Seq(Scopes) /\ tls_tags[t] \in Seq(Tags)
         /\ Last(scopes[t]) \in Scopes /\ Last(scopes[t]).key \in Keys
         /\ scopes' = [scopes EXCEPT ![t] = Front(scopes[t])]
         /\ tls_tags' = [tls_tags EXCEPT ![t] =
                           RemoveHighest(tls_tags[t], Last(scopes[t]).key)]
         /\ UNCHANGED <<global_tags, meant>>
<1>1. /\ scopes[t] # << >> /\ scopes[t] \in Seq(Scopes) /\ tls_tags[t] \in Seq(Tags)
      /\ scopes' = [scopes EXCEPT ![t] = Front(scopes[t])]
      /\ tls_tags' = [tls_tags EXCEPT ![t] =
                        RemoveHighest(tls_tags[t], Last(scopes[t]).key)]
      /\ UNCHANGED <<global_tags, meant>>
  BY DEF CloseScope, TypeOK
<1>2. Last(scopes[t]) \in Scopes
  BY <1>1, FrontEffect
<1>3. Last(scopes[t]).key \in Keys
  BY <1>2 DEF Scopes
<1> QED BY <1>1, <1>2, <1>3

\* The types are preserved.
LEMMA NextTyped == TypeOK /\ [Next]_vars => TypeOK'
<1> SUFFICES ASSUME TypeOK, [Next]_vars PROVE TypeOK'
  OBVIOUS
<1>0. /\ global_tags \in Seq(Tags) /\ Len(global_tags) <= MaxGlobal
      /\ tls_tags \in [Threads -> Seq(Tags)] /\ scopes \in [Threads -> Seq(Scopes)]
      /\ \A t \in Threads : Len(tls_tags[t]) \in Nat /\ Len(tls_tags[t]) <= MaxTags
      /\ meant \subseteq Keys \X Values /\ MaxTags \in Nat /\ MaxGlobal \in Nat
      /\ Len(global_tags) \in Nat
  BY SizesAssumption DEF TypeOK
<1>1. ASSUME NEW k \in Keys, NEW v \in Values, SetGlobalTag(k, v) PROVE TypeOK'
  <2>1. /\ global_tags' = SetTag(global_tags, k, v) /\ UNCHANGED <<tls_tags, scopes>>
        /\ meant' \subseteq meant \cup {<<k, v>>}
    BY <1>1 DEF SetGlobalTag
  <2>2. global_tags' \in Seq(Tags) /\ Len(global_tags') <= MaxGlobal
    BY <1>0, <2>1, VectorsTyped
  <2>3. meant' \subseteq Keys \X Values
    BY <1>0, <2>1
  <2> QED BY <1>0, <2>1, <2>2, <2>3 DEF TypeOK
<1>2. ASSUME NEW k \in Keys, RemoveGlobalTag(k) PROVE TypeOK'
  <2>1. /\ global_tags' = RemoveLowest(global_tags, k) /\ UNCHANGED <<tls_tags, scopes>>
        /\ meant' \subseteq meant
    BY <1>2 DEF RemoveGlobalTag
  <2>2. global_tags' \in Seq(Tags) /\ Len(global_tags') <= Len(global_tags)
    BY <1>0, <2>1, VectorsTyped
  <2>3. Len(global_tags') \in Nat
    BY <2>2
  <2>4. Len(global_tags') <= MaxGlobal
    BY <1>0, <2>2, <2>3
  <2> QED BY <1>0, <2>1, <2>2, <2>4 DEF TypeOK
<1>3. ASSUME NEW t \in Threads, NEW k \in Keys, NEW v \in Values \cup {Null},
             OpenScope(t, k, v)
      PROVE  TypeOK'
  <2>1. PICK room \in BOOLEAN :
            /\ scopes' = [scopes EXCEPT ![t] = Append(scopes[t], Scope(k, v, room))]
            /\ Scope(k, v, room) \in Scopes
            /\ room => /\ v \in Values /\ Len(tls_tags[t]) < MaxTags
                       /\ tls_tags' =
                            [tls_tags EXCEPT ![t] = Append(tls_tags[t], MakeTag(k, v))]
            /\ ~room => tls_tags' = tls_tags
            /\ UNCHANGED <<global_tags, meant>>
    BY <1>3, OpenEffect
  <2>2. Append(scopes[t], Scope(k, v, room)) \in Seq(Scopes)
    BY <1>0, <2>1, AppendEffect
  <2>3. scopes' \in [Threads -> Seq(Scopes)]
    BY <1>0, <2>1, <2>2
  <2>4. CASE room
    <3> DEFINE e == Append(tls_tags[t], MakeTag(k, v))
    <3>1. e \in Seq(Tags) /\ Len(e) = Len(tls_tags[t]) + 1
      BY <1>0, <2>1, <2>4, TagTyped, AppendEffect
    <3>2. tls_tags' = [tls_tags EXCEPT ![t] = e]
      BY <2>1, <2>4
    <3> HIDE DEF e
    <3>3. tls_tags' \in [Threads -> Seq(Tags)]
      BY <1>0, <3>1, <3>2
    <3>4. \A u \in Threads : Len(tls_tags'[u]) <= MaxTags
      BY <1>0, <2>1, <2>4, <3>1, <3>2
    <3> QED BY <1>0, <2>1, <2>3, <3>3, <3>4 DEF TypeOK
  <2>5. CASE ~room
    BY <1>0, <2>1, <2>3, <2>5 DEF TypeOK
  <2> QED BY <2>4, <2>5
<1>4. ASSUME NEW t \in Threads, CloseScope(t) PROVE TypeOK'
  <2> DEFINE e == RemoveHighest(tls_tags[t], Last(scopes[t]).key)
             f == Front(scopes[t])
  <2>1. f \in Seq(Scopes)
    BY <1>4, CloseEffect, FrontEffect
  <2>2. e \in Seq(Tags) /\ Len(e) <= Len(tls_tags[t])
    BY <1>4, CloseEffect, VectorsTyped
  <2>3. /\ scopes' = [scopes EXCEPT ![t] = f] /\ tls_tags' = [tls_tags EXCEPT ![t] = e]
        /\ UNCHANGED <<global_tags, meant>>
    BY <1>4, CloseEffect
  <2> HIDE DEF e, f
  <2>4. scopes' \in [Threads -> Seq(Scopes)] /\ tls_tags' \in [Threads -> Seq(Tags)]
    BY <1>0, <2>1, <2>2, <2>3
  <2>5. Len(e) \in Nat
    BY <2>2
  <2>6. \A u \in Threads : Len(tls_tags'[u]) <= MaxTags
    BY <1>0, <2>2, <2>3, <2>5
  <2> QED BY <1>0, <2>3, <2>4, <2>6 DEF TypeOK
<1>5. CASE UNCHANGED vars
  BY <1>5 DEF vars, TypeOK
<1> QED BY <1>1, <1>2, <1>3, <1>4, <1>5 DEF Next

\* Vectors stay within their capacities, and hold tags with keys cut to what
\* is stored.
THEOREM ContextTypeCorrect == Spec => []TypeOK
BY InitTyped, NextTyped, PTL DEF Spec

-----------------------------------------------------------------------------
(***************************************************************************)
(* Tags and the scopes that own them.  Each tag of a thread can be given   *)
(* an open scope of its own with the same key.  The tags of the outermost  *)
(* p scopes are theirs, in order; the next scope, if there is one, has no  *)
(* tag any more, or never had one.                                         *)
(***************************************************************************)
Owns(tags, scs, p, g) ==
    /\ p <= Len(tags)
    /\ \A i, j \in 1..Len(tags) : g[i] = g[j] => i = j
    /\ \A i \in 1..Len(tags) :
          /\ scs[g[i]].pushed /\ tags[i].key = scs[g[i]].key
          /\ g[i] # p + 1
    /\ \A i \in 1..p : g[i] = i /\ tags[i] = TagOf(scs[i])

Owned(tags, scs) ==
    \E p \in 0..Len(scs) : \E g \in [1..Len(tags) -> 1..Len(scs)] : Owns(tags, scs, p, g)

ScopeInv == \A t \in Threads : Owned(tls_tags[t], scopes[t])

\* If every open scope has its tag there are no others.
LEMMA OwnsAll ==
  ASSUME NEW tags \in Seq(Tags), NEW scs \in Seq(Scopes), NEW p \in 0..Len(scs),
         NEW g \in [1..Len(tags) -> 1..Len(scs)], Owns(tags, scs, p, g), p = Len(scs)
  PROVE  Len(tags) = p
<1> DEFINE n == Len(tags)
<1>1. n \in Nat /\ p <= n /\ p \in Nat
  BY DEF Owns
<1>2. ASSUME n > p PROVE FALSE
  <2>1. n \in 1..n
    BY <1>1, <1>2
  <2>2. g[n] \in 1..p
    BY <2>1
  <2> DEFINE j == g[n]
  <2>3. j \in 1..n /\ j # n
    BY <1>1, <1>2, <2>2
  <2>4. g[j] = j
    BY <2>2 DEF Owns
  <2> QED BY <2>1, <2>3, <2>4 DEF Owns
<1> QED BY <1>1, <1>2

\* A scope that finds room owns the tag it pushes.
LEMMA OwnsPush ==
  ASSUME NEW tags \in Seq(Tags), NEW scs \in Seq(Scopes), Owned(tags, scs),
         NEW s \in Scopes, s.pushed, NEW tag \in Tags, tag = TagOf(s), tag.key = s.key
  PROVE  Owned(Append(tags, tag), Append(scs, s))
<1> DEFINE n == Len(tags)
           m == Len(scs)
           tags2 == Append(tags, tag)
           scs2 == Append(scs, s)
<1>0. PICK p \in 0..Len(scs) :
         \E g \in [1..Len(tags) -> 1..Len(scs)] : Owns(tags, scs, p, g)
  BY DEF Owned
<1>1. PICK g \in [1..Len(tags) -> 1..Len(scs)] : Owns(tags, scs, p, g)
  BY <1>0
<1>2. p = m => n = p
  BY <1>1, OwnsAll
<1>3. /\ n \in Nat /\ Len(tags2) = n + 1 /\ tags2[n + 1] = tag
      /\ \A k \in 1..n : tags2[k] = tags[k]
      /\ m \in Nat /\ Len(scs2) = m + 1 /\ scs2[m + 1] = s
      /\ \A k \in 1..m : scs2[k] = scs[k]
  BY AppendEffect
<1>4. /\ p <= n
      /\ \A i, j \in 1..n : g[i] = g[j] => i = j
      /\ \A i \in 1..n : /\ scs[g[i]].pushed /\ tags[i].key = scs[g[i]].key
                         /\ g[i] # p + 1
      /\ \A i \in 1..p : g[i] = i /\ tags[i] = TagOf(scs[i])
  BY <1>1 DEF Owns
<1>5. p \in 0..m /\ g \in [1..n -> 1..m]
  OBVIOUS
<1> DEFINE p2 == IF p = m THEN p + 1 ELSE p
           g2 == [i \in 1..(n + 1) |-> IF i = n + 1 THEN m + 1 ELSE g[i]]
<1> HIDE DEF n, m, tags2, scs2
<1>6. p2 \in 0..(m + 1) /\ p2 <= n + 1
  BY <1>2, <1>3, <1>4, <1>5
<1>7. \A i \in 1..n : g[i] \in 1..m
  BY <1>5
<1>8. g2 \in [1..(n + 1) -> 1..(m + 1)]
  BY <1>3, <1>7
<1>9. g2[n + 1] = m + 1 /\ \A i \in 1..n : g2[i] = g[i]
  BY <1>3
<1> HIDE DEF g2
<1>10. ASSUME NEW i \in 1..(n + 1), i # n + 1 PROVE i \in 1..n
  BY <1>3, <1>10
<1>11. ASSUME NEW i \in 1..(n + 1), NEW j \in 1..(n + 1), g2[i] = g2[j] PROVE i = j
  <2>1. CASE i \in 1..n /\ j \in 1..n
    BY <1>4, <1>9, <1>11, <2>1
  <2>2. CASE i = n + 1 /\ j \in 1..n
    BY <1>3, <1>7, <1>9, <1>11, <2>2
  <2>3. CASE i \in 1..n /\ j = n + 1
    BY <1>3, <1>7, <1>9, <1>11, <2>3
  <2> QED BY <1>10, <2>1, <2>2, <2>3
<1>12. ASSUME NEW i \in 1..(n + 1)
       PROVE  scs2[g2[i]].pushed /\ tags2[i].key = scs2[g2[i]].key /\ g2[i] # p2 + 1
  <2>1. CASE i = n + 1
    BY <1>3, <1>5, <1>9, <2>1
  <2>2. CASE i \in 1..n
    <3>1. scs2[g2[i]] = scs[g[i]] /\ tags2[i] = tags[i] /\ g2[i] = g[i]
      BY <1>3, <1>7, <1>9, <2>2
    <3>2. g[i] # p2 + 1
      BY <1>3, <1>4, <1>5, <1>7, <2>2
    <3> QED BY <1>4, <2>2, <3>1, <3>2
  <2> QED BY <1>10, <2>1, <2>2
<1>13. ASSUME NEW i \in 1..p2 PROVE g2[i] = i /\ tags2[i] = TagOf(scs2[i])
  <2>1. CASE i \in 1..p
    <3>1. i \in 1..n /\ i \in 1..m
      BY <1>3, <1>4, <1>5, <2>1
    <3> QED BY <1>3, <1>4, <1>9, <2>1, <3>1
  <2>2. CASE i \notin 1..p
    <3>1. i = p + 1 /\ p = m
      BY <1>3, <1>5, <2>2
    <3>2. i = n + 1 /\ i = m + 1
      BY <1>2, <3>1
    <3> QED BY <1>3, <1>9, <3>2
  <2> QED BY <2>1, <2>2
<1> HIDE DEF p2
<1>14. Owns(tags2, scs2, p2, g2)
  BY <1>3, <1>6, <1>11, <1>12, <1>13 DEF Owns
<1>15. Owned(tags2, scs2)
  BY <1>3, <1>6, <1>8, <1>14 DEF Owned
<1> QED BY <1>15 DEF tags2, scs2

\* A scope that finds no room owns nothing.
LEMMA OwnsSkip ==
  ASSUME NEW tags \in Seq(Tags), NEW scs \in Seq(Scopes), Owned(tags, scs),
         NEW s \in Scopes
  PROVE  Owned(tags, Append(scs, s))
<1> DEFINE n == Len(tags)
           m == Len(scs)
           scs2 == Append(scs, s)
<1>0. PICK p \in 0..m : \E g \in [1..n -> 1..m] : Owns(tags, scs, p, g)
  BY DEF Owned
<1>1. PICK g \in [1..n -> 1..m] : Owns(tags, scs, p, g)
  BY <1>0
<1>2. /\ n \in Nat /\ m \in Nat /\ Len(scs2) = m + 1 /\ scs2[m + 1] = s
      /\ \A k \in 1..m : scs2[k] = scs[k]
  BY AppendEffect
<1>3. /\ p <= n
      /\ \A i, j \in 1..n : g[i] = g[j] => i = j
      /\ \A i \in 1..n : /\ scs[g[i]].pushed /\ tags[i].key = scs[g[i]].key
                         /\ g[i] # p + 1
      /\ \A i \in 1..p : g[i] = i /\ tags[i] = TagOf(scs[i])
  BY <1>1 DEF Owns
<1>4. n = Len(tags)
  OBVIOUS
<1> HIDE DEF n, m, scs2
<1>5. \A i \in 1..n : g[i] \in 1..m
  OBVIOUS
<1>6. g \in [1..n -> 1..(m + 1)] /\ p \in 0..(m + 1)
  BY <1>2, <1>5
<1>7. ASSUME NEW i \in 1..n
      PROVE  scs2[g[i]].pushed /\ tags[i].key = scs2[g[i]].key /\ g[i] # p + 1
  BY <1>2, <1>3, <1>5
<1>8. ASSUME NEW i \in 1..p PROVE g[i] = i /\ tags[i] = TagOf(scs2[i])
  <2>1. i \in 1..m
    BY <1>2
  <2> QED BY <1>2, <1>3, <2>1
<1>9. Owns(tags, scs2, p, g)
  BY <1>3, <1>4, <1>7, <1>8 DEF Owns
<1>10. Owned(tags, scs2)
  BY <1>2, <1>4, <1>6, <1>9 DEF Owned
<1> QED BY <1>10 DEF scs2

\* The innermost scope closes and there is no tag of its key.
LEMMA OwnsMiss ==
  ASSUME NEW tags \in Seq(Tags), NEW scs \in Seq(Scopes), scs # << >>, Owned(tags, scs),
         \A y \in 1..Len(tags) : tags[y].key # scs[Len(scs)].key
  PROVE  Owned(tags, Front(scs))
<1> DEFINE n == Len(tags)
           m == Len(scs)
           scs2 == Front(scs)
<1>0. PICK p \in 0..m : \E g \in [1..n -> 1..m] : Owns(tags, scs, p, g)
  BY DEF Owned
<1>1. PICK g \in [1..n -> 1..m] : Owns(tags, scs, p, g)
  BY <1>0
<1>2. /\ m \in Nat \ {0} /\ Len(scs2) = m - 1 /\ \A k \in 1..(m - 1) : scs2[k] = scs[k]
  BY FrontEffect
<1>3. /\ p <= n
      /\ \A i, j \in 1..n : g[i] = g[j] => i = j
      /\ \A i \in 1..n : /\ scs[g[i]].pushed /\ tags[i].key = scs[g[i]].key
                         /\ g[i] # p + 1
      /\ \A i \in 1..p : g[i] = i /\ tags[i] = TagOf(scs[i])
  BY <1>1 DEF Owns
<1>4. n = Len(tags) /\ n \in Nat /\ \A y \in 1..n : tags[y].key # scs[m].key
  OBVIOUS
<1> HIDE DEF n, m, scs2
<1>5. ASSUME NEW i \in 1..n PROVE g[i] \in 1..(m - 1)
  <2>1. g[i] \in 1..m /\ g[i] # m
    BY <1>3, <1>4
  <2> QED BY <1>2, <2>1
<1>6. g \in [1..n -> 1..(m - 1)]
  BY <1>5
<1>7. p \in 0..(m - 1)
  <2>1. p # m
    <3> SUFFICES ASSUME p = m PROVE FALSE
      OBVIOUS
    <3>1. m \in 1..p /\ m \in 1..n
      BY <1>2, <1>3, <1>4
    <3>2. g[m] = m
      BY <1>3, <3>1
    <3> QED BY <1>2, <1>5, <3>1, <3>2
  <2> QED BY <1>2, <2>1
<1>8. ASSUME NEW i \in 1..n
      PROVE  scs2[g[i]].pushed /\ tags[i].key = scs2[g[i]].key /\ g[i] # p + 1
  BY <1>2, <1>3, <1>5
<1>9. ASSUME NEW i \in 1..p PROVE g[i] = i /\ tags[i] = TagOf(scs2[i])
  <2>1. i \in 1..(m - 1)
    BY <1>2, <1>7
  <2> QED BY <1>2, <1>3, <2>1
<1>10. Owns(tags, scs2, p, g)
  BY <1>3, <1>4, <1>8, <1>9 DEF Owns
<1>11. Owned(tags, scs2)
  BY <1>2, <1>4, <1>6, <1>7, <1>10 DEF Owned
<1> QED BY <1>11 DEF scs2

\* The innermost scope closes and takes the highest tag of its key.  When
\* that was the tag of another scope, the other scope takes over the closing
\* scope's own tag, if it has one.  The last tag moves into the gap.
LEMMA OwnsHit ==
  ASSUME NEW tags \in Seq(Tags), NEW scs \in Seq(Scopes), scs # << >>, Owned(tags, scs),
         NEW h \in 1..Len(tags), tags[h].key = scs[Len(scs)].key,
         \A y \in 1..Len(tags) : tags[y].key = scs[Len(scs)].key => y <= h
  PROVE  Owned(SwapRemove(tags, h), Front(scs))
<1> DEFINE n == Len(tags)
           m == Len(scs)
           tags2 == SwapRemove(tags, h)
           scs2 == Front(scs)
<1>0. PICK p \in 0..Len(scs) :
         \E g \in [1..Len(tags) -> 1..Len(scs)] : Owns(tags, scs, p, g)
  BY DEF Owned
<1>1. PICK g \in [1..Len(tags) -> 1..Len(scs)] : Owns(tags, scs, p, g)
  BY <1>0
<1>2. p = m => n = p
  BY <1>1, OwnsAll
<1>3. /\ m \in Nat \ {0} /\ Len(scs2) = m - 1 /\ \A k \in 1..(m - 1) : scs2[k] = scs[k]
  BY FrontEffect
<1>4. /\ n \in Nat /\ Len(tags2) = n - 1
      /\ \A k \in 1..(n - 1) : tags2[k] = IF k = h THEN tags[n] ELSE tags[k]
  <2>1. n \in Nat
    OBVIOUS
  <2> QED BY <2>1, SwapRemoveEffect, Zenon
<1>5. /\ p <= n
      /\ \A i, j \in 1..n : g[i] = g[j] => i = j
      /\ \A i \in 1..n : /\ scs[g[i]].pushed /\ tags[i].key = scs[g[i]].key
                         /\ g[i] # p + 1
      /\ \A i \in 1..p : g[i] = i /\ tags[i] = TagOf(scs[i])
  BY <1>1 DEF Owns
<1>6. /\ p \in 0..m /\ h \in 1..n /\ tags[h].key = scs[m].key
      /\ \A y \in 1..n : tags[y].key = scs[m].key => y <= h
      /\ \A i \in 1..n : g[i] \in 1..m
  OBVIOUS
<1> HIDE DEF n, m, tags2, scs2
\* the place a remaining tag comes from, and its owner
<1> DEFINE From(k) == IF k = h THEN n ELSE k
           Heir(i) == IF g[i] = m THEN g[h] ELSE g[i]
           g2 == [k \in 1..(n - 1) |-> Heir(From(k))]
           p2 == IF h <= p THEN h - 1 ELSE p
<1>7. ASSUME NEW k \in 1..(n - 1)
      PROVE  From(k) \in 1..n /\ From(k) # h /\ tags2[k] = tags[From(k)]
  BY <1>4, <1>6
<1>8. \A k, j \in 1..(n - 1) : From(k) = From(j) => k = j
  BY <1>4, <1>6
<1>9. ASSUME NEW i \in 1..n, i # h
      PROVE  /\ Heir(i) \in 1..(m - 1) /\ scs[Heir(i)].pushed
             /\ tags[i].key = scs[Heir(i)].key
  <2>1. g[i] # g[h]
    BY <1>5, <1>6, <1>9
  <2>2. CASE g[i] = m
    <3>1. Heir(i) = g[h] /\ g[h] # m
      BY <2>1, <2>2
    <3>2. Heir(i) \in 1..(m - 1)
      BY <1>3, <1>6, <3>1
    <3> QED BY <1>5, <1>6, <2>2, <3>1, <3>2
  <2>3. CASE g[i] # m
    <3>1. Heir(i) = g[i]
      BY <2>3
    <3>2. Heir(i) \in 1..(m - 1)
      BY <1>3, <1>6, <2>3, <3>1
    <3> QED BY <1>5, <3>1, <3>2
  <2> QED BY <2>2, <2>3
<1>10. ASSUME NEW i \in 1..n, NEW j \in 1..n, i # h, j # h, Heir(i) = Heir(j)
       PROVE  i = j
  BY <1>5, <1>6, <1>10
<1>11. ASSUME NEW i \in 1..n, i # h PROVE Heir(i) # p2 + 1
  <2>1. CASE h <= p
    <3>1. g[h] = h /\ p2 + 1 = h
      BY <1>4, <1>5, <1>6, <2>1
    <3>2. g[i] # h
      BY <1>5, <1>6, <1>11, <3>1
    <3>3. g[i] # m
      <4> SUFFICES ASSUME g[i] = m PROVE FALSE
        OBVIOUS
      <4>1. i <= h
        BY <1>5, <1>6
      <4>2. i \in 1..p
        BY <1>6, <2>1, <4>1
      <4>3. i = m
        BY <1>5, <4>2
      <4> QED BY <1>3, <1>4, <1>6, <1>11, <2>1, <4>1, <4>3
    <3> QED BY <3>1, <3>2, <3>3
  <2>2. CASE ~(h <= p)
    BY <1>5, <1>6, <2>2
  <2> QED BY <2>1, <2>2
<1>12. /\ p2 \in 0..(m - 1) /\ p2 <= n - 1
       /\ \A k \in 1..p2 : k \in 1..p /\ k # h /\ k \in 1..n /\ k \in 1..(n - 1) /\ k \in 1..(m - 1)
  BY <1>2, <1>3, <1>4, <1>5, <1>6
<1>13. g2 \in [1..(n - 1) -> 1..(m - 1)]
  <2> SUFFICES ASSUME NEW k \in 1..(n - 1) PROVE Heir(From(k)) \in 1..(m - 1)
    OBVIOUS
  <2> HIDE DEF From, Heir
  <2> QED BY <1>7, <1>9
<1>14. \A k \in 1..(n - 1) : g2[k] = Heir(From(k))
  OBVIOUS
<1> HIDE DEF g2
<1>15. ASSUME NEW k \in 1..p2 PROVE g2[k] = k /\ tags2[k] = TagOf(scs2[k])
  <2>1. From(k) = k /\ g[k] = k /\ k # m /\ tags[k] = TagOf(scs[k])
    BY <1>3, <1>5, <1>12
  <2>2. g2[k] = k
    BY <1>12, <1>14, <2>1
  <2> QED BY <1>3, <1>7, <1>12, <2>1, <2>2
<1> HIDE DEF From, Heir, p2
<1>16. ASSUME NEW i \in 1..(n - 1), NEW j \in 1..(n - 1), g2[i] = g2[j] PROVE i = j
  BY <1>7, <1>8, <1>10, <1>14, <1>16
<1>17. ASSUME NEW i \in 1..(n - 1)
       PROVE  scs2[g2[i]].pushed /\ tags2[i].key = scs2[g2[i]].key /\ g2[i] # p2 + 1
  <2>1. From(i) \in 1..n /\ From(i) # h /\ tags2[i] = tags[From(i)]
    BY <1>7
  <2>2. g2[i] = Heir(From(i)) /\ scs2[g2[i]] = scs[g2[i]]
    BY <1>3, <1>9, <1>14, <2>1
  <2> QED BY <1>9, <1>11, <2>1, <2>2
<1>18. Owns(tags2, scs2, p2, g2)
  BY <1>4, <1>12, <1>15, <1>16, <1>17 DEF Owns
<1>19. Owned(tags2, scs2)
  BY <1>3, <1>4, <1>12, <1>13, <1>18 DEF Owned
<1> QED BY <1>19 DEF tags2, scs2

\* PopScopedTag keeps every tag owned.
LEMMA OwnsClose ==
  ASSUME NEW tags \in Seq(Tags), NEW scs \in Seq(Scopes), scs # << >>, Owned(tags, scs)
  PROVE  Owned(RemoveHighest(tags, Last(scs).key), Front(scs))
<1> DEFINE K == Last(scs).key
           hits == Hits(tags, K)
<1>1. Last(scs) = scs[Len(scs)]
  BY FrontEffect
<1>2. \A y \in 1..Len(tags) : y \in hits <=> tags[y].key = scs[Len(scs)].key
  BY <1>1 DEF Hits, Matches
<1>3. CASE hits = {}
  <2>1. RemoveHighest(tags, K) = tags
    BY <1>3 DEF RemoveHighest
  <2> QED BY <1>2, <1>3, <2>1, OwnsMiss
<1>4. CASE hits # {}
  <2>1. RemoveHighest(tags, K) = SwapRemove(tags, Max(hits))
    BY <1>4 DEF RemoveHighest
  <2>2. Max(hits) \in hits /\ hits \subseteq 1..Len(tags) /\ \A y \in hits : y <= Max(hits)
    BY <1>4, HitsTyped
  <2> DEFINE h == Max(hits)
  <2>3. h \in 1..Len(tags) /\ tags[h].key = scs[Len(scs)].key
    BY <1>2, <2>2
  <2>4. \A y \in 1..Len(tags) : tags[y].key = scs[Len(scs)].key => y <= h
    BY <1>2, <2>2
  <2> HIDE DEF h
  <2>5. Owned(SwapRemove(tags, h), Front(scs))
    BY <2>3, <2>4, OwnsHit
  <2> QED BY <2>1, <2>5 DEF h
<1> QED BY <1>3, <1>4

\* A key of at most 31 characters is stored as it is.
LEMMA ShortKeys ==
  ASSUME TRUE \notin Lengths, NEW k \in Keys
  PROVE  Stored(k) = k /\ k \in StoredKeys
<1>1. k.long = FALSE /\ k.name \in Names /\ k = [name |-> k.name, long |-> k.long]
  BY LengthsAssumption DEF Keys
<1> QED BY <1>1 DEF Stored, StoredKeys

\* Without scopes there are no tags to own.
LEMMA InitScope == Init => ScopeInv
<1> SUFFICES ASSUME Init, NEW t \in Threads PROVE Owned(tls_tags[t], scopes[t])
  BY DEF ScopeInv
<1> DEFINE e == << >>
<1>1. tls_tags[t] = e /\ scopes[t] = e /\ Len(e) = 0
  BY DEF Init
<1> DEFINE g == [i \in 1..0 |-> 1]
<1>2. g \in [1..0 -> 1..0] /\ 0 \in 0..0
  OBVIOUS
<1> HIDE DEF g, e
<1>3. Owns(e, e, 0, g)
  BY <1>1 DEF Owns
<1>4. Owned(e, e)
  BY <1>1, <1>2, <1>3 DEF Owned
<1> QED BY <1>1, <1>4

\* Opening and closing scopes keeps every tag owned.
LEMMA NextScope ==
  ASSUME TRUE \notin Lengths
  PROVE  TypeOK /\ ScopeInv /\ [Next]_vars => ScopeInv'
<1> SUFFICES ASSUME TypeOK, ScopeInv, [Next]_vars PROVE ScopeInv'
  OBVIOUS
<1>0. /\ tls_tags \in [Threads -> Seq(Tags)] /\ scopes \in [Threads -> Seq(Scopes)]
      /\ \A u \in Threads : Owned(tls_tags[u], scopes[u])
  BY DEF TypeOK, ScopeInv
<1>1. ASSUME UNCHANGED <<tls_tags, scopes>> PROVE ScopeInv'
  BY <1>1 DEF ScopeInv
<1>2. ASSUME NEW k \in Keys, NEW v \in Values, SetGlobalTag(k, v) PROVE ScopeInv'
  BY <1>1, <1>2 DEF SetGlobalTag
<1>3. ASSUME NEW k \in Keys, RemoveGlobalTag(k) PROVE ScopeInv'
  BY <1>1, <1>3 DEF RemoveGlobalTag
\* it is enough to look at the thread that opens or closes a scope
<1>4. ASSUME NEW t \in Threads, NEW a, NEW b, Owned(a, b),
             tls_tags' = [tls_tags EXCEPT ![t] = a], scopes' = [scopes EXCEPT ![t] = b]
      PROVE  ScopeInv'
  <2> SUFFICES ASSUME NEW u \in Threads PROVE Owned(tls_tags'[u], scopes'[u])
    BY DEF ScopeInv
  <2>1. CASE u = t
    <3>1. tls_tags'[u] = a /\ scopes'[u] = b
      BY <1>0, <1>4, <2>1
    <3> QED BY <1>4, <3>1
  <2>2. CASE u # t
    <3>1. tls_tags'[u] = tls_tags[u] /\ scopes'[u] = scopes[u]
      BY <1>0, <1>4, <2>2
    <3> QED BY <1>0, <3>1
  <2> QED BY <2>1, <2>2
<1>5. ASSUME NEW t \in Threads, NEW k \in Keys, NEW v \in Values \cup {Null},
             OpenScope(t, k, v)
      PROVE  ScopeInv'
  <2>1. PICK room \in BOOLEAN :
            /\ scopes' = [scopes EXCEPT ![t] = Append(scopes[t], Scope(k, v, room))]
            /\ Scope(k, v, room) \in Scopes
            /\ room => /\ v \in Values /\ Len(tls_tags[t]) < MaxTags
                       /\ tls_tags' =
                            [tls_tags EXCEPT ![t] = Append(tls_tags[t], MakeTag(k, v))]
            /\ ~room => tls_tags' = tls_tags
            /\ UNCHANGED <<global_tags, meant>>
    BY <1>5, OpenEffect
  <2> DEFINE s == Scope(k, v, room)
             b == Append(scopes[t], s)
  <2>2. s.key = k /\ s.value = v /\ s.pushed = room
    BY DEF Scope
  <2>3. CASE room
    <3> DEFINE tag == MakeTag(k, v)
    <3>1. tag \in Tags /\ tag = TagOf(s) /\ tag.key = s.key
      BY <2>1, <2>2, <2>3, TagTyped, ShortKeys DEF TagOf, MakeTag
    <3>2. s \in Scopes /\ s.pushed
      BY <2>1, <2>2, <2>3
    <3> HIDE DEF s, tag
    <3>3. Owned(Append(tls_tags[t], tag), Append(scopes[t], s))
      BY <1>0, <3>1, <3>2, OwnsPush
    <3>4. tls_tags' = [tls_tags EXCEPT ![t] = Append(tls_tags[t], tag)]
      BY <2>1, <2>3 DEF tag
    <3>5. scopes' = [scopes EXCEPT ![t] = Append(scopes[t], s)]
      BY <2>1 DEF s
    <3> QED BY <1>4, <3>3, <3>4, <3>5
  <2>4. CASE ~room
    <3>1. s \in Scopes
      BY <2>1
    <3>2. scopes' = [scopes EXCEPT ![t] = Append(scopes[t], s)]
      BY <2>1
    <3> HIDE DEF s
    <3>3. Owned(tls_tags[t], Append(scopes[t], s))
      BY <1>0, <3>1, OwnsSkip
    <3>4. tls_tags' = [tls_tags EXCEPT ![t] = tls_tags[t]]
      BY <1>0, <2>1, <2>4
    <3> QED BY <1>4, <3>2, <3>3, <3>4
  <2> QED BY <2>3, <2>4
<1>6. ASSUME NEW t \in Threads, CloseScope(t) PROVE ScopeInv'
  <2> DEFINE a == RemoveHighest(tls_tags[t], Last(scopes[t]).key)
             b == Front(scopes[t])
  <2>1. /\ scopes[t] # << >> /\ scopes[t] \in Seq(Scopes) /\ tls_tags[t] \in Seq(Tags)
        /\ scopes' = [scopes EXCEPT ![t] = b] /\ tls_tags' = [tls_tags EXCEPT ![t] = a]
    BY <1>6, CloseEffect
  <2>2. Owned(a, b)
    BY <1>0, <2>1, OwnsClose
  <2> HIDE DEF a, b
  <2> QED BY <1>4, <2>1, <2>2
<1>7. CASE UNCHANGED vars
  BY <1>1, <1>7 DEF vars
<1> QED BY <1>2, <1>3, <1>5, <1>6, <1>7 DEF Next

\* Every tag of every thread is owned by an open scope, in every reachable
\* state, when keys have at most 31 characters.
LEMMA ScopeCorrect ==
  ASSUME TRUE \notin Lengths
  PROVE  Spec => [](TypeOK /\ ScopeInv)
<1>1. Init => TypeOK /\ ScopeInv
  BY InitTyped, InitScope
<1>2. TypeOK /\ ScopeInv /\ [Next]_vars => (TypeOK /\ ScopeInv)'
  BY NextTyped, NextScope
<1> QED BY <1>1, <1>2, PTL DEF Spec

\* With as many tags as scopes, the tags are those of the scopes, in order:
\* otherwise some scope would have none, and another would need two.
LEMMA OwnedInOrder ==
  ASSUME NEW tags \in Seq(Tags), NEW scs \in Seq(Scopes), Owned(tags, scs),
         Len(tags) = Len(scs)
  PROVE  tags = [i \in DOMAIN scs |-> TagOf(scs[i])]
<1> DEFINE n == Len(tags)
<1>0. PICK p \in 0..Len(scs) :
         \E g \in [1..Len(tags) -> 1..Len(scs)] : Owns(tags, scs, p, g)
  BY DEF Owned
<1>1. PICK g \in [1..Len(tags) -> 1..Len(scs)] : Owns(tags, scs, p, g)
  BY <1>0
<1>2. /\ n \in Nat /\ DOMAIN tags = 1..n /\ DOMAIN scs = 1..n /\ p \in 0..n
      /\ g \in [1..n -> 1..n]
  OBVIOUS
<1>3. /\ \A i, j \in 1..n : g[i] = g[j] => i = j
      /\ \A i \in 1..n : g[i] # p + 1
      /\ \A i \in 1..p : tags[i] = TagOf(scs[i])
  BY <1>1 DEF Owns
<1>4. tags = [i \in 1..n |-> tags[i]]
  OBVIOUS
<1> HIDE DEF n
<1>5. CASE p = n
  BY <1>2, <1>3, <1>4, <1>5
<1>6. CASE p # n
  <2> DEFINE T == (1..n) \ {p + 1}
  <2>1. p + 1 \in 1..n
    BY <1>2, <1>6
  <2>2. IsFiniteSet(1..n) /\ Cardinality(1..n) = n
    <3>1. n \in Int /\ 1 \in Int /\ ~(1 > n) /\ n - 1 + 1 = n
      BY <1>2, <2>1
    <3>2. Cardinality(1..n) = n - 1 + 1 /\ IsFiniteSet(1..n)
      BY <3>1, FS_Interval
    <3> QED BY <3>1, <3>2
  <2>3. IsFiniteSet(T) /\ Cardinality(T) = n - 1
    BY <2>1, <2>2, FS_RemoveElement
  <2>4. g \in [1..n -> T]
    BY <1>2, <1>3
  <2> HIDE DEF T
  <2>5. Cardinality(T) < Cardinality(1..n)
    BY <1>2, <2>2, <2>3
  <2>6. \E x, y \in 1..n : x # y /\ g[x] = g[y]
    BY <2>2, <2>3, <2>4, <2>5, FS_PigeonHole
  <2> QED BY <1>3, <2>6
<1> QED BY <1>5, <1>6

\* PopScopedTag finds the tag that the closing scope pushed: with keys of at
\* most 31 characters and every open scope holding a tag, the thread's tags
\* are exactly its open scopes, in order.
THEOREM ScopesAreTagsCorrect ==
  ASSUME TRUE \notin Lengths
  PROVE  Spec => []ScopesAreTags
<1>1. TypeOK /\ ScopeInv => ScopesAreTags
  <2> SUFFICES ASSUME TypeOK, ScopeInv, NEW t \in Threads, Len(tls_tags[t]) = Len(scopes[t])
               PROVE  tls_tags[t] = [i \in DOMAIN scopes[t] |-> TagOf(scopes[t][i])]
    BY DEF ScopesAreTags
  <2>1. tls_tags[t] \in Seq(Tags) /\ scopes[t] \in Seq(Scopes) /\ Owned(tls_tags[t], scopes[t])
    BY DEF TypeOK, ScopeInv
  <2> DEFINE tags == tls_tags[t]
             scs == scopes[t]
  <2>2. tags \in Seq(Tags) /\ scs \in Seq(Scopes) /\ Owned(tags, scs) /\ Len(tags) = Len(scs)
    BY <2>1
  <2> HIDE DEF tags, scs
  <2>3. tags = [i \in DOMAIN scs |-> TagOf(scs[i])]
    BY <2>2, OwnedInOrder
  <2> QED BY <2>3 DEF tags, scs
<1> QED BY <1>1, ScopeCorrect, PTL

\* Tags of a key are at most the scopes of that key.
LEMMA OwnedCount ==
  ASSUME NEW tags \in Seq(Tags), NEW scs \in Seq(Scopes), Owned(tags, scs), NEW k
  PROVE  CountKey(tags, k) <= CountKey(scs, k)
<1>0. PICK p \in 0..Len(scs) :
         \E g \in [1..Len(tags) -> 1..Len(scs)] : Owns(tags, scs, p, g)
  BY DEF Owned
<1>1. PICK g \in [1..Len(tags) -> 1..Len(scs)] : Owns(tags, scs, p, g)
  BY <1>0
<1>2. /\ \A i, j \in 1..Len(tags) : g[i] = g[j] => i = j
      /\ \A i \in 1..Len(tags) : tags[i].key = scs[g[i]].key
  BY <1>1 DEF Owns
<1>3. /\ \A i \in 1..Len(tags) : g[i] \in 1..Len(scs)
      /\ DOMAIN tags = 1..Len(tags) /\ DOMAIN scs = 1..Len(scs) /\ Len(scs) \in Nat
  OBVIOUS
<1> DEFINE A == {i \in DOMAIN tags : tags[i].key = k}
           B == {i \in DOMAIN scs : scs[i].key = k}
           f == [i \in A |-> g[i]]
<1>4. f \in [A -> B]
  BY <1>2, <1>3
<1>5. \A i, j \in A : f[i] = f[j] => i = j
  BY <1>2, <1>3
<1>6. f \in Injection(A, B)
  <2> HIDE DEF f, A, B
  <2> QED BY <1>4, <1>5 DEF Injection, IsInjective
<1>7. IsFiniteSet(B)
  <2>1. B \in SUBSET (1..Len(scs))
    BY <1>2, <1>3
  <2>2. IsFiniteSet(1..Len(scs))
    BY <1>2, <1>3, FS_Interval
  <2> HIDE DEF B
  <2> QED BY <2>1, <2>2, FS_Subset
<1> HIDE DEF f
<1>8. Cardinality(A) <= Cardinality(B)
  <2> HIDE DEF A, B
  <2> QED BY <1>6, <1>7, FS_Injection
<1> QED BY <1>8 DEF CountKey

\* No tag outlives its scope, when keys have at most 31 characters: a thread
\* never carries more tags of a key than it has scopes of that key open.
THEOREM NoTagOutlivesScopeCorrect ==
  ASSUME TRUE \notin Lengths
  PROVE  Spec => []NoTagOutlivesScope
<1>1. TypeOK /\ ScopeInv => NoTagOutlivesScope
  BY OwnedCount DEF NoTagOutlivesScope, TypeOK, ScopeInv
<1> QED BY <1>1, ScopeCorrect, PTL

-----------------------------------------------------------------------------
(***************************************************************************)
(* What an entry carries.                                                  *)
(***************************************************************************)
\* FillTags copies tags of both vectors, and all of them if they fit.
LEMMA FillEffect ==
  ASSUME NEW a \in Seq(Tags), NEW b \in Seq(Tags), NEW limit \in Nat
  PROVE  LET all == a \o b
             tags == SubSeq(all, 1, IF Len(all) < limit THEN Len(all) ELSE limit)
         IN  /\ ToSet(tags) \subseteq ToSet(a) \cup ToSet(b)
             /\ Len(a) + Len(b) <= limit => ToSet(tags) = ToSet(a) \cup ToSet(b)
<1> DEFINE n == Len(a)
           m == Len(b)
           all == a \o b
           l == IF Len(all) < limit THEN Len(all) ELSE limit
           tags == SubSeq(all, 1, l)
<1>1. /\ n \in Nat /\ m \in Nat /\ Len(all) = n + m /\ all \in Seq(Tags)
      /\ DOMAIN a = 1..n /\ DOMAIN b = 1..m
      /\ \A i \in 1..(n + m) : all[i] = IF i <= n THEN a[i] ELSE b[i - n]
  OBVIOUS
<1> HIDE DEF n, m, all
<1>2. l \in Nat /\ l <= n + m /\ (n + m <= limit => l = n + m)
  BY <1>1
<1> HIDE DEF l
<1>3. DOMAIN tags = 1..l /\ \A i \in 1..l : tags[i] = all[i]
  BY <1>1, <1>2
<1> HIDE DEF tags
<1>4. ASSUME NEW x \in ToSet(tags) PROVE x \in ToSet(a) \cup ToSet(b)
  <2>1. PICK i \in 1..l : x = all[i]
    BY <1>3 DEF ToSet
  <2>2. i \in 1..(n + m)
    BY <1>1, <1>2
  <2>3. CASE i <= n
    <3>1. i \in 1..n /\ x = a[i]
      BY <1>1, <2>1, <2>2, <2>3
    <3> QED BY <1>1, <3>1 DEF ToSet
  <2>4. CASE ~(i <= n)
    <3>1. i - n \in 1..m /\ x = b[i - n]
      BY <1>1, <2>1, <2>2, <2>4
    <3> QED BY <1>1, <3>1 DEF ToSet
  <2> QED BY <2>3, <2>4
<1>5. ASSUME n + m <= limit, NEW x \in ToSet(a) \cup ToSet(b) PROVE x \in ToSet(tags)
  <2>1. l = n + m
    BY <1>2, <1>5
  <2>2. CASE x \in ToSet(a)
    <3>1. PICK i \in 1..n : x = a[i]
      BY <1>1, <2>2 DEF ToSet
    <3>2. i \in 1..(n + m) /\ all[i] = x
      BY <1>1, <3>1
    <3> QED BY <1>3, <2>1, <3>2 DEF ToSet
  <2>3. CASE x \in ToSet(b)
    <3>1. PICK i \in 1..m : x = b[i]
      BY <1>1, <2>3 DEF ToSet
    <3>2. n + i \in 1..(n + m) /\ all[n + i] = x
      BY <1>1, <3>1
    <3> QED BY <1>3, <2>1, <3>2 DEF ToSet
  <2> QED BY <1>5, <2>2, <2>3
<1> QED BY <1>4, <1>5 DEF tags, l, all, n, m

\* Every tag has the key of an open scope.
LEMMA OwnedKeys ==
  ASSUME TRUE \notin Lengths, NEW tags \in Seq(Tags), NEW scs \in Seq(Scopes),
         Owned(tags, scs), NEW x \in ToSet(tags)
  PROVE  \E s \in ToSet(scs) : x.key = TagOf(s).key
<1>0. PICK p \in 0..Len(scs) :
         \E g \in [1..Len(tags) -> 1..Len(scs)] : Owns(tags, scs, p, g)
  BY DEF Owned
<1>1. PICK g \in [1..Len(tags) -> 1..Len(scs)] : Owns(tags, scs, p, g)
  BY <1>0
<1>2. \A i \in 1..Len(tags) : tags[i].key = scs[g[i]].key
  BY <1>1 DEF Owns
<1>3. PICK i \in 1..Len(tags) : x = tags[i]
  BY DEF ToSet
<1> DEFINE s == scs[g[i]]
<1>4. g[i] \in 1..Len(scs) /\ DOMAIN scs = 1..Len(scs)
  OBVIOUS
<1>5. s \in Scopes /\ s \in ToSet(scs)
  BY <1>4, ElementOf DEF ToSet
<1>6. x.key = s.key
  BY <1>2, <1>3
<1> HIDE DEF s
<1>7. s.key \in Keys
  BY <1>5 DEF Scopes
<1>8. TagOf(s).key = s.key
  BY <1>7, ShortKeys DEF TagOf, MakeTag
<1> QED BY <1>5, <1>6, <1>8

\* An entry's tags belong to global tags and open scopes, and are all of them
\* when there is room, for keys of at most 31 characters.
THEOREM EntryCarriesContextCorrect ==
  ASSUME TRUE \notin Lengths
  PROVE  Spec => []EntryCarriesContext
<1>1. TypeOK /\ ScopeInv => EntryCarriesContext
  <2> SUFFICES ASSUME TypeOK, ScopeInv, NEW t \in Threads
               PROVE  LET tags == FillTags(t)
                          due == ToSet(global_tags) \cup {TagOf(s) : s \in ToSet(scopes[t])}
                      IN  /\ {tag.key : tag \in ToSet(tags)} \subseteq {tag.key : tag \in due}
                          /\ Len(global_tags) + Len(scopes[t]) <= MaxTags
                             /\ Unspilled(t)
                             /\ Len(tls_tags[t]) = Len(scopes[t])
                             => ToSet(tags) = due
    BY DEF EntryCarriesContext
  <2> DEFINE a == global_tags
             b == tls_tags[t]
             scs == scopes[t]
             tags == FillTags(t)
             due == ToSet(a) \cup {TagOf(s) : s \in ToSet(scs)}
  <2>1. /\ a \in Seq(Tags) /\ b \in Seq(Tags) /\ scs \in Seq(Scopes) /\ Owned(b, scs)
        /\ MaxTags \in Nat
    BY SizesAssumption DEF TypeOK, ScopeInv
  <2>2. /\ ToSet(tags) \subseteq ToSet(a) \cup ToSet(b)
        /\ Len(a) + Len(b) <= MaxTags => ToSet(tags) = ToSet(a) \cup ToSet(b)
    BY <2>1, FillEffect DEF FillTags
  <2> HIDE DEF a, b, scs, tags
  <2>3. ASSUME NEW x \in ToSet(tags) PROVE \E y \in due : x.key = y.key
    <3>1. CASE x \in ToSet(a)
      BY <3>1
    <3>2. CASE x \in ToSet(b)
      <4>1. PICK s \in ToSet(scs) : x.key = TagOf(s).key
        BY <2>1, <3>2, OwnedKeys
      <4> QED BY <4>1
    <3> QED BY <2>2, <3>1, <3>2
  <2>4. ASSUME Len(a) + Len(scs) <= MaxTags, Len(b) = Len(scs) PROVE ToSet(tags) = due
    <3>1. b = [i \in DOMAIN scs |-> TagOf(scs[i])]
      BY <2>1, <2>4, OwnedInOrder
    <3>2. ToSet(b) = {TagOf(s) : s \in ToSet(scs)}
      BY <3>1 DEF ToSet
    <3> QED BY <2>2, <2>4, <3>2
  <2>5. {tag.key : tag \in ToSet(tags)} \subseteq {tag.key : tag \in due}
    BY <2>3
  <2> HIDE DEF due
  <2> QED BY <2>4, <2>5 DEF due, tags, a, b, scs
<1> QED BY <1>1, ScopeCorrect, PTL

-----------------------------------------------------------------------------
(***************************************************************************)
(* The global tags are a map.  What makes it one, and GlobalTagsAreMap     *)
(* inductive, is that no two places hold the same key: removing stops at   *)
(* the first.                                                              *)
(***************************************************************************)
Distinct(vec) == \A i, j \in 1..Len(vec) : vec[i].key = vec[j].key => i = j

Pairs(vec) == {<<vec[i].key, vec[i].value>> : i \in 1..Len(vec)}

MapInv == Distinct(global_tags) /\ meant = Pairs(global_tags)

\* A vector with distinct keys has as many pairs as places.
LEMMA PairsCount ==
  ASSUME NEW vec \in Seq(Tags), Distinct(vec)
  PROVE  Cardinality(Pairs(vec)) = Len(vec)
<1> DEFINE f == [i \in 1..Len(vec) |-> <<vec[i].key, vec[i].value>>]
<1>1. Len(vec) \in Nat
  OBVIOUS
<1>2. /\ f \in [1..Len(vec) -> Pairs(vec)]
      /\ \A x \in Pairs(vec) : \E i \in 1..Len(vec) : f[i] = x
      /\ \A i, j \in 1..Len(vec) : f[i] = f[j] => i = j
  BY DEF Pairs, Distinct
<1> HIDE DEF f
<1>3. f \in Bijection(1..Len(vec), Pairs(vec))
  BY <1>2 DEF Bijection, Injection, Surjection, IsInjective
<1>4. ExistsBijection(1..Len(vec), Pairs(vec))
  BY <1>3 DEF ExistsBijection
<1> QED BY <1>1, <1>4, FS_CountingElements

\* RemoveGlobalTag removes the pair of its key, and no other.
LEMMA RemoveMap ==
  ASSUME NEW vec \in Seq(Tags), Distinct(vec), NEW k
  PROVE  /\ Distinct(RemoveLowest(vec, k))
         /\ Pairs(RemoveLowest(vec, k)) = {m \in Pairs(vec) : m[1] # k}
<1> DEFINE n == Len(vec)
<1>1. n \in Nat /\ Hits(vec, k) = {i \in 1..n : vec[i].key = k}
  BY DEF Hits, Matches
<1>2. CASE Hits(vec, k) = {}
  <2>1. RemoveLowest(vec, k) = vec
    BY <1>2 DEF RemoveLowest
  <2>2. \A i \in 1..n : vec[i].key # k
    BY <1>1, <1>2
  <2>3. \A m \in Pairs(vec) : m[1] # k
    BY <2>2 DEF Pairs
  <2> QED BY <2>1, <2>3
<1>3. CASE Hits(vec, k) # {}
  <2> DEFINE h == Min(Hits(vec, k))
             w == SwapRemove(vec, h)
  <2>1. h \in 1..n /\ vec[h].key = k
    BY <1>1, <1>3, HitsTyped
  <2>2. RemoveLowest(vec, k) = w
    BY <1>3 DEF RemoveLowest
  <2> HIDE DEF h
  <2>3. /\ Len(w) = n - 1
        /\ \A i \in 1..(n - 1) : w[i] = IF i = h THEN vec[n] ELSE vec[i]
    BY <2>1, SwapRemoveEffect
  <2>4. \A i, j \in 1..n : vec[i].key = vec[j].key => i = j
    BY DEF Distinct
  <2> HIDE DEF w, n
  <2> DEFINE From(i) == IF i = h THEN n ELSE i
  <2>5. \A i \in 1..(n - 1) : From(i) \in 1..n /\ From(i) # h /\ w[i] = vec[From(i)]
    BY <1>1, <2>1, <2>3
  <2>6. \A i, j \in 1..(n - 1) : From(i) = From(j) => i = j
    BY <1>1, <2>1
  <2>7. \A j \in 1..n : j # h => \E i \in 1..(n - 1) : From(i) = j
    <3> SUFFICES ASSUME NEW j \in 1..n, j # h PROVE \E i \in 1..(n - 1) : From(i) = j
      OBVIOUS
    <3>1. CASE j = n
      <4>1. h \in 1..(n - 1) /\ From(h) = j
        BY <1>1, <2>1, <3>1
      <4> QED BY <4>1
    <3>2. CASE j # n
      <4>1. j \in 1..(n - 1) /\ From(j) = j
        BY <1>1, <3>2
      <4> QED BY <4>1
    <3> QED BY <3>1, <3>2
  <2> HIDE DEF From
  <2>8. Distinct(w)
    BY <2>3, <2>4, <2>5, <2>6 DEF Distinct
  <2>9. ASSUME NEW m \in Pairs(w) PROVE m \in Pairs(vec) /\ m[1] # k
    <3>1. PICK i \in 1..(n - 1) : m = <<w[i].key, w[i].value>>
      BY <2>3 DEF Pairs
    <3>2. m = <<vec[From(i)].key, vec[From(i)].value>>
      BY <2>5, <3>1
    <3>3. vec[From(i)].key # k
      BY <2>1, <2>4, <2>5
    <3> QED BY <2>5, <3>2, <3>3 DEF Pairs, n
  <2>10. ASSUME NEW m \in Pairs(vec), m[1] # k PROVE m \in Pairs(w)
    <3>1. PICK j \in 1..n : m = <<vec[j].key, vec[j].value>>
      BY DEF Pairs, n
    <3>2. j # h
      BY <2>1, <2>10, <3>1
    <3>3. PICK i \in 1..(n - 1) : From(i) = j
      BY <2>7, <3>2
    <3>4. m = <<w[i].key, w[i].value>>
      BY <2>5, <3>1, <3>3
    <3> QED BY <2>3, <3>3, <3>4 DEF Pairs
  <2> QED BY <2>2, <2>8, <2>9, <2>10
<1> QED BY <1>2, <1>3

\* SetGlobalTag replaces the pair of its key, or adds one if there is room.
LEMMA SetMap ==
  ASSUME TRUE \notin Lengths, NEW vec \in Seq(Tags), Distinct(vec),
         NEW k \in Keys, NEW v \in Values
  PROVE  /\ Distinct(SetTag(vec, k, v))
         /\ LET others == {m \in Pairs(vec) : m[1] # k} IN
              Pairs(SetTag(vec, k, v)) =
                 IF others # Pairs(vec) \/ Len(vec) < MaxGlobal
                 THEN others \cup {<<k, v>>} ELSE Pairs(vec)
<1> DEFINE n == Len(vec)
           others == {m \in Pairs(vec) : m[1] # k}
           w == SetTag(vec, k, v)
<1>1. /\ n \in Nat /\ DOMAIN vec = 1..n /\ Hits(vec, k) = {i \in 1..n : vec[i].key = k}
      /\ MaxGlobal \in Nat /\ \A i, j \in 1..n : vec[i].key = vec[j].key => i = j
  BY SizesAssumption DEF Hits, Matches, Distinct
<1>2. \A m : m \in Pairs(vec) <=> \E i \in 1..n : m = <<vec[i].key, vec[i].value>>
  BY DEF Pairs
<1>3. CASE Hits(vec, k) = {}
  <2>1. \A i \in 1..n : vec[i].key # k
    BY <1>1, <1>3
  <2>2. others = Pairs(vec)
    BY <1>2, <2>1
  <2>3. w = PushBack(vec, MaxGlobal, MakeTag(k, v))
    BY <1>3 DEF SetTag
  <2>4. CASE n >= MaxGlobal
    <3>1. w = vec /\ ~(n < MaxGlobal)
      BY <1>1, <2>3, <2>4 DEF PushBack
    <3> QED BY <2>2, <3>1
  <2>5. CASE ~(n >= MaxGlobal)
    <3> DEFINE tag == MakeTag(k, v)
    <3>1. w = Append(vec, tag) /\ n < MaxGlobal
      BY <1>1, <2>3, <2>5 DEF PushBack
    <3>2. tag.key = k /\ tag.value = v /\ tag \in Tags
      BY TagTyped, ShortKeys DEF MakeTag
    <3> HIDE DEF tag
    <3>3. /\ Len(w) = n + 1 /\ w[n + 1] = tag /\ \A i \in 1..n : w[i] = vec[i]
      BY <3>1, <3>2, AppendEffect
    <3> HIDE DEF w, n
    <3>4. \A i \in 1..(n + 1) : i = n + 1 \/ i \in 1..n
      BY <1>1
    <3>5. Distinct(w)
      BY <1>1, <2>1, <3>2, <3>3, <3>4 DEF Distinct
    <3>6. ASSUME NEW m \in Pairs(w) PROVE m \in others \cup {<<k, v>>}
      <4>1. PICK i \in 1..(n + 1) : m = <<w[i].key, w[i].value>>
        BY <3>3 DEF Pairs
      <4>2. CASE i = n + 1
        BY <3>2, <3>3, <4>1, <4>2
      <4>3. CASE i \in 1..n
        BY <1>2, <2>2, <3>3, <4>1, <4>3
      <4> QED BY <3>4, <4>2, <4>3
    <3>7. ASSUME NEW m \in others \cup {<<k, v>>} PROVE m \in Pairs(w)
      <4>1. CASE m = <<k, v>>
        <5>1. n + 1 \in 1..(n + 1) /\ m = <<w[n + 1].key, w[n + 1].value>>
          BY <1>1, <3>2, <3>3, <4>1
        <5> QED BY <3>3, <5>1 DEF Pairs
      <4>2. CASE m \in Pairs(vec)
        <5>1. PICK i \in 1..n : m = <<vec[i].key, vec[i].value>>
          BY <1>2, <4>2
        <5>2. i \in 1..(n + 1) /\ m = <<w[i].key, w[i].value>>
          BY <1>1, <3>3, <5>1
        <5> QED BY <3>3, <5>2 DEF Pairs
      <4> QED BY <4>1, <4>2
    <3>8. Pairs(w) = others \cup {<<k, v>>}
      BY <3>6, <3>7
    <3> QED BY <3>1, <3>5, <3>8 DEF w, n
  <2> QED BY <2>4, <2>5
<1>4. CASE Hits(vec, k) # {}
  <2> DEFINE h == Min(Hits(vec, k))
             new == [key |-> vec[h].key, value |-> v]
  <2>1. h \in 1..n /\ vec[h].key = k
    BY <1>1, <1>4, HitsTyped
  <2>2. w = [vec EXCEPT ![h] = new]
    BY <1>4 DEF SetTag
  <2>3. new.key = k /\ new.value = v
    BY <2>1
  <2> HIDE DEF h, new, n
  <2>4. /\ Len(w) = n /\ w[h] = new
        /\ \A i \in 1..n : w[i] = IF i = h THEN new ELSE vec[i]
    <3>1. DOMAIN w = 1..n /\ \A i \in 1..n : w[i] = IF i = h THEN new ELSE vec[i]
      BY <1>1, <2>2
    <3> HIDE DEF w
    <3>2. Len(w) = n
      BY <1>1, <2>2, <3>1 DEF n
    <3> QED BY <2>1, <3>1, <3>2
  <2> HIDE DEF w
  <2>5. Distinct(w)
    BY <1>1, <2>1, <2>3, <2>4 DEF Distinct
  <2>6. others # Pairs(vec)
    <3>1. <<vec[h].key, vec[h].value>> \in Pairs(vec)
      BY <1>2, <2>1
    <3>2. <<vec[h].key, vec[h].value>> \notin others
      BY <2>1
    <3> QED BY <3>1, <3>2
  <2>7. ASSUME NEW m \in Pairs(w) PROVE m \in others \cup {<<k, v>>}
    <3>1. PICK i \in 1..n : m = <<w[i].key, w[i].value>>
      BY <2>4 DEF Pairs
    <3>2. CASE i = h
      BY <2>3, <2>4, <3>1, <3>2
    <3>3. CASE i # h
      <4>1. m = <<vec[i].key, vec[i].value>> /\ vec[i].key # k
        BY <1>1, <2>1, <2>4, <3>1, <3>3
      <4> QED BY <1>2, <4>1
    <3> QED BY <3>2, <3>3
  <2>8. ASSUME NEW m \in others \cup {<<k, v>>} PROVE m \in Pairs(w)
    <3>1. CASE m = <<k, v>>
      BY <2>1, <2>3, <2>4, <3>1 DEF Pairs
    <3>2. CASE m \in others
      <4>1. PICK i \in 1..n : m = <<vec[i].key, vec[i].value>>
        BY <1>2, <3>2
      <4>2. i # h
        BY <2>1, <3>2, <4>1
      <4>3. m = <<w[i].key, w[i].value>>
        BY <2>4, <4>1, <4>2
      <4> QED BY <2>4, <4>3 DEF Pairs
    <3> QED BY <3>1, <3>2
  <2>9. Pairs(w) = others \cup {<<k, v>>}
    BY <2>7, <2>8
  <2> QED BY <2>5, <2>6, <2>9 DEF w
<1> QED BY <1>3, <1>4

\* The vector of global tags stays a map of what was asked for.
LEMMA NextMap ==
  ASSUME TRUE \notin Lengths
  PROVE  TypeOK /\ MapInv /\ [Next]_vars => MapInv'
<1> SUFFICES ASSUME TypeOK, MapInv, [Next]_vars PROVE MapInv'
  OBVIOUS
<1>0. /\ global_tags \in Seq(Tags) /\ Distinct(global_tags) /\ meant = Pairs(global_tags)
      /\ Cardinality(meant) = Len(global_tags)
  BY PairsCount DEF TypeOK, MapInv
<1>1. ASSUME NEW vec, global_tags' = vec, Distinct(vec), meant' = Pairs(vec) PROVE MapInv'
  BY <1>1 DEF MapInv
<1>2. ASSUME NEW k \in Keys, NEW v \in Values, SetGlobalTag(k, v) PROVE MapInv'
  <2> DEFINE others == {m \in Pairs(global_tags) : m[1] # k}
  <2>1. /\ global_tags' = SetTag(global_tags, k, v)
        /\ meant' = IF others # Pairs(global_tags) \/ Len(global_tags) < MaxGlobal
                    THEN others \cup {<<k, v>>} ELSE Pairs(global_tags)
    BY <1>0, <1>2 DEF SetGlobalTag
  <2>2. Distinct(SetTag(global_tags, k, v)) /\ meant' = Pairs(SetTag(global_tags, k, v))
    BY <1>0, <2>1, SetMap
  <2> QED BY <1>1, <2>1, <2>2
<1>3. ASSUME NEW k \in Keys, RemoveGlobalTag(k) PROVE MapInv'
  <2>1. /\ global_tags' = RemoveLowest(global_tags, k)
        /\ meant' = {m \in Pairs(global_tags) : m[1] # k}
    BY <1>0, <1>3 DEF RemoveGlobalTag
  <2>2. /\ Distinct(RemoveLowest(global_tags, k))
        /\ meant' = Pairs(RemoveLowest(global_tags, k))
    BY <1>0, <2>1, RemoveMap
  <2> QED BY <1>1, <2>1, <2>2
<1>4. ASSUME UNCHANGED <<global_tags, meant>> PROVE MapInv'
  BY <1>4 DEF MapInv
<1>5. ASSUME NEW t \in Threads, NEW k \in Keys, NEW v \in Values \cup {Null},
             OpenScope(t, k, v)
      PROVE  MapInv'
  BY <1>4, <1>5 DEF OpenScope
<1>6. ASSUME NEW t \in Threads, CloseScope(t) PROVE MapInv'
  BY <1>4, <1>6 DEF CloseScope
<1>7. CASE UNCHANGED vars
  BY <1>4, <1>7 DEF vars
<1> QED BY <1>2, <1>3, <1>5, <1>6, <1>7 DEF Next

\* The swap-removing vector of global tags is a map: one tag per key, with the
\* last value set, for keys of at most 31 characters.
THEOREM GlobalTagsAreMapCorrect ==
  ASSUME TRUE \notin Lengths
  PROVE  Spec => []GlobalTagsAreMap
<1>1. Init => TypeOK /\ MapInv
  <2>1. ASSUME Init PROVE global_tags = << >> /\ meant = {} /\ Len(global_tags) = 0
    BY <2>1 DEF Init
  <2>2. ASSUME Init PROVE Pairs(global_tags) = {} /\ Distinct(global_tags)
    BY <2>1, <2>2 DEF Pairs, Distinct
  <2> QED BY <2>1, <2>2, InitTyped DEF MapInv
<1>2. TypeOK /\ MapInv /\ [Next]_vars => (TypeOK /\ MapInv)'
  BY NextTyped, NextMap
<1>3. TypeOK /\ MapInv => GlobalTagsAreMap
  <2> SUFFICES ASSUME TypeOK, MapInv PROVE GlobalTagsAreMap
    OBVIOUS
  <2>1. global_tags \in Seq(Tags) /\ Distinct(global_tags) /\ meant = Pairs(global_tags)
    BY DEF TypeOK, MapInv
  <2>2. Cardinality(meant) = Len(global_tags)
    BY <2>1, PairsCount
  <2>3. DOMAIN global_tags = 1..Len(global_tags)
    BY <2>1
  <2> QED BY <2>1, <2>2, <2>3 DEF GlobalTagsAreMap, Pairs
<1> QED BY <1>1, <1>2, <1>3, PTL DEF Spec
=============================================================================
