--------------------------- MODULE LogLine_proofs ---------------------------
(***************************************************************************)
(* Proofs about LogLine, for any patterns, texts, lengths and buffers.     *)
(***************************************************************************)
EXTENDS LogLine, FiniteSetTheorems, SequenceTheorems, WellFoundedInduction, TLAPS

-----------------------------------------------------------------------------
(***************************************************************************)
(* Numbers and sequences.                                                  *)
(***************************************************************************)
\* A set of numbers that is not empty has a least element: what the proofs by
\* induction over data rest on.
LEMMA LeastExists ==
  ASSUME NEW S \in SUBSET Nat, S # {}
  PROVE  \E x \in S : \A y \in S : x <= y
<1> DEFINE R == {ss \in Nat \X Nat : ss[1] < ss[2]}
<1>1. OpToRel(<, Nat) = R
  BY Zenon DEF OpToRel
<1>2. IsWellFoundedOn(R, Nat)
  BY <1>1, NatLessThanWellFounded, Zenon
<1>3. \E x \in S : \A y \in S : ~(<<y, x>> \in R)
  BY <1>2, WFMin, Zenon
<1>4. ASSUME NEW x \in Nat, NEW y \in Nat, y < x PROVE <<y, x>> \in R
  BY <1>4
<1> HIDE DEF R
<1>5. PICK x \in S : \A y \in S : ~(<<y, x>> \in R)
  BY <1>3, Zenon
<1>6. ASSUME NEW y \in S PROVE x <= y
  <2>1. ~(y < x)
    BY <1>4, <1>5
  <2> QED BY <2>1
<1> QED BY <1>6

\* Induction: a set that holds 0 and with each number the next one up to n holds
\* every number up to n.
LEMMA Induction ==
  ASSUME NEW n \in Nat, NEW P, 0 \in P, \A k \in 1..n : k - 1 \in P => k \in P
  PROVE  \A k \in 0..n : k \in P
<1> DEFINE T == {k \in 0..n : k \notin P}
<1> SUFFICES ASSUME T # {} PROVE FALSE
  OBVIOUS
<1>1. T \in SUBSET Nat
  OBVIOUS
<1>2. PICK x \in T : \A y \in T : x <= y
  <2> HIDE DEF T
  <2> QED BY <1>1, LeastExists
<1>3. x # 0 /\ x \in 1..n /\ x - 1 \in 0..n /\ x - 1 \notin T
  BY <1>2
<1> QED BY <1>2, <1>3

\* A sequence of numbers has running sums.
LEMMA SumsExist ==
  ASSUME NEW t \in Seq(Nat)
  PROVE  \E f \in [0..Len(t) -> Nat] :
            f = [k \in 0..Len(t) |-> IF k = 0 THEN 0 ELSE f[k - 1] + t[k]]
<1> DEFINE n == Len(t)
           Good(m) == {f \in [0..m -> Nat] : f[0] = 0 /\ \A k \in 1..m : f[k] = f[k - 1] + t[k]}
           P == {m \in 0..n : Good(m) # {}}
<1>0. n \in Nat /\ \A k \in 1..n : t[k] \in Nat
  OBVIOUS
<1>1. 0 \in P
  <2>1. [k \in 0..0 |-> 0] \in Good(0)
    OBVIOUS
  <2> QED BY <1>0, <2>1
<1>2. ASSUME NEW m \in 1..n, m - 1 \in P PROVE m \in P
  <2>1. PICK f \in [0..(m - 1) -> Nat] :
            f[0] = 0 /\ \A k \in 1..(m - 1) : f[k] = f[k - 1] + t[k]
    BY <1>2
  <2> DEFINE g == [k \in 0..m |-> IF k = m THEN f[m - 1] + t[m] ELSE f[k]]
  <2>2. m - 1 \in 0..(m - 1) /\ t[m] \in Nat /\ f[m - 1] \in Nat
    BY <1>0, <2>1
  <2>3. g \in [0..m -> Nat]
    BY <2>1, <2>2
  <2>4. g[0] = 0
    BY <2>1
  <2>5. ASSUME NEW k \in 1..m PROVE g[k] = g[k - 1] + t[k]
    BY <2>1, <2>5
  <2> HIDE DEF g
  <2>6. g \in Good(m)
    BY <2>3, <2>4, <2>5
  <2>7. m \in 0..n
    BY <1>0
  <2> HIDE DEF Good
  <2> QED BY <2>6, <2>7
<1>3. n \in P
  <2> HIDE DEF P, n
  <2>1. \A k \in 0..n : k \in P
    BY <1>0, <1>1, <1>2, Induction
  <2> QED BY <1>0, <2>1
<1>4. PICK f \in [0..n -> Nat] : f[0] = 0 /\ \A k \in 1..n : f[k] = f[k - 1] + t[k]
  BY <1>3
<1>5. f = [k \in 0..n |-> IF k = 0 THEN 0 ELSE f[k - 1] + t[k]]
  BY <1>0, <1>4
<1> QED BY <1>5

\* What RunningWidth is.
LEMMA RunningWidthDef ==
  ASSUME NEW t \in Seq(Nat)
  PROVE  /\ Json!RunningWidth(t) \in [0..Len(t) -> Nat]
         /\ Json!RunningWidth(t)[0] = 0
         /\ \A k \in 1..Len(t) :
              Json!RunningWidth(t)[k] = Json!RunningWidth(t)[k - 1] + t[k]
<1> DEFINE w == Json!RunningWidth(t)
<1>1. w = CHOOSE f : f = [k \in 0..Len(t) |-> IF k = 0 THEN 0 ELSE f[k - 1] + t[k]]
  BY DEF Json!RunningWidth
<1>2. w = [k \in 0..Len(t) |-> IF k = 0 THEN 0 ELSE w[k - 1] + t[k]]
  <2> HIDE DEF w
  <2> QED BY <1>1, SumsExist
<1> HIDE DEF w
<1>3. Len(t) \in Nat /\ \A k \in 1..Len(t) : t[k] \in Nat
  OBVIOUS
<1>4. w[0] = 0 /\ \A k \in 1..Len(t) : w[k] = w[k - 1] + t[k]
  BY <1>2, <1>3
<1> DEFINE P == {k \in 0..Len(t) : w[k] \in Nat}
<1>5. 0 \in P
  BY <1>3, <1>4
<1>6. ASSUME NEW k \in 1..Len(t), k - 1 \in P PROVE k \in P
  <2>1. k \in 0..Len(t) /\ w[k - 1] \in Nat
    BY <1>3, <1>6
  <2>2. w[k] = w[k - 1] + t[k] /\ t[k] \in Nat
    BY <1>3, <1>4
  <2>3. w[k] \in Nat
    BY <2>1, <2>2
  <2> QED BY <2>1, <2>3
<1>7. \A k \in 0..Len(t) : k \in P
  <2> HIDE DEF P
  <2> QED BY <1>3, <1>5, <1>6, Induction
<1>8. w \in [0..Len(t) -> Nat]
  BY <1>2, <1>7
<1> QED BY <1>4, <1>8 DEF w

\* Running widths grow.
LEMMA RunningWidthGrows ==
  ASSUME NEW t \in Seq(Nat), NEW a \in 0..Len(t), NEW b \in 0..Len(t), a <= b
  PROVE  Json!RunningWidth(t)[a] <= Json!RunningWidth(t)[b]
<1> DEFINE w == Json!RunningWidth(t)
           P == {k \in 0..Len(t) : a <= k => w[a] <= w[k]}
<1>1. /\ Len(t) \in Nat /\ \A k \in 1..Len(t) : t[k] \in Nat
      /\ w \in [0..Len(t) -> Nat] /\ \A k \in 1..Len(t) : w[k] = w[k - 1] + t[k]
  BY RunningWidthDef
<1> HIDE DEF w
<1>2. 0 \in P
  <2>1. 0 \in 0..Len(t) /\ (a <= 0 => a = 0)
    BY <1>1
  <2>2. w[0] \in Nat
    <3>1. w \in [0..Len(t) -> Nat]
      BY <1>1
    <3> QED BY <2>1, <3>1
  <2> QED BY <2>1, <2>2
<1>3. ASSUME NEW k \in 1..Len(t), k - 1 \in P PROVE k \in P
  <2>1. w[k] = w[k - 1] + t[k] /\ t[k] \in Nat /\ w[k - 1] \in Nat /\ w[a] \in Nat
    <3>1. w \in [0..Len(t) -> Nat] /\ k - 1 \in 0..Len(t)
      BY <1>1
    <3>2. w[k] = w[k - 1] + t[k] /\ t[k] \in Nat
      BY <1>1
    <3>3. w[k - 1] \in Nat /\ w[a] \in Nat
      BY <3>1
    <3> QED BY <3>2, <3>3
  <2>2. CASE a = k
    BY <2>1, <2>2
  <2>3. CASE a # k
    <3>1. a <= k => w[a] <= w[k - 1]
      BY <1>3, <2>3
    <3> QED BY <2>1, <3>1
  <2> QED BY <2>2, <2>3
<1>4. \A k \in 0..Len(t) : k \in P
  <2> HIDE DEF P
  <2> QED BY <1>1, <1>2, <1>3, Induction
<1>5. w[a] <= w[b]
  BY <1>4
<1> QED BY <1>5 DEF w

\* Concatenation and the running concatenations of FlattenSeq, under names that
\* the proofs can leave unexpanded.
Cat(a, b) == a \o b
IsJoins(f, q) == f = [k \in 1..Len(q) |-> IF k = 1 THEN q[k] ELSE Cat(f[k - 1], q[k])]
Joins(q) == CHOOSE f : IsJoins(f, q)

LEMMA CatType == ASSUME NEW S, NEW a \in Seq(S), NEW b \in Seq(S) PROVE Cat(a, b) \in Seq(S)
BY ConcatProperties DEF Cat

\* A sequence of sequences has running concatenations.
LEMMA JoinsExist ==
  ASSUME NEW S, NEW q \in Seq(Seq(S))
  PROVE  \E f : IsJoins(f, q)
<1> DEFINE n == Len(q)
           Good(m) == {f \in [1..m -> Seq(S)] :
                         /\ m > 0 => f[1] = q[1]
                         /\ \A k \in 2..m : f[k] = Cat(f[k - 1], q[k])}
           P == {m \in 0..n : Good(m) # {}}
<1>0. n \in Nat /\ \A k \in 1..n : q[k] \in Seq(S)
  OBVIOUS
<1> HIDE DEF n
<1>1. 0 \in P
  <2>1. [k \in 1..0 |-> << >>] \in Good(0) /\ 0 \in 0..n
    BY <1>0
  <2> HIDE DEF Good
  <2> QED BY <2>1
<1>2. ASSUME NEW m \in 1..n, m - 1 \in P PROVE m \in P
  <2>1. PICK f \in [1..(m - 1) -> Seq(S)] :
            /\ m - 1 > 0 => f[1] = q[1]
            /\ \A k \in 2..(m - 1) : f[k] = Cat(f[k - 1], q[k])
    BY <1>2
  <2> DEFINE g == [k \in 1..m |-> IF k = 1 THEN q[k]
                                  ELSE IF k = m THEN Cat(f[m - 1], q[m]) ELSE f[k]]
  <2>2. q[m] \in Seq(S) /\ q[1] \in Seq(S)
    BY <1>0
  <2>3. ASSUME NEW k \in 1..m PROVE g[k] \in Seq(S)
    <3>1. CASE k = 1
      BY <2>2, <3>1
    <3>2. CASE k # 1 /\ k = m
      <4>1. f[m - 1] \in Seq(S)
        BY <2>1, <3>2
      <4>2. Cat(f[m - 1], q[m]) \in Seq(S)
        BY <4>1, <2>2, CatType
      <4> QED BY <3>2, <4>2
    <3>3. CASE k # 1 /\ k # m
      BY <2>1, <3>3
    <3> QED BY <3>1, <3>2, <3>3
  <2>4. g \in [1..m -> Seq(S)]
    <3>1. g = [k \in 1..m |-> g[k]]
      OBVIOUS
    <3> HIDE DEF g
    <3> QED BY <2>3, <3>1
  <2>5. g[1] = q[1]
    BY <1>0
  <2>6. ASSUME NEW k \in 2..m PROVE g[k] = Cat(g[k - 1], q[k])
    <3>1. CASE k = m
      <4>1. CASE m = 2
        <5>1. f[1] = q[1] /\ g[2] = Cat(f[1], q[2]) /\ g[1] = q[1]
          BY <2>1, <4>1
        <5> QED BY <3>1, <4>1, <5>1
      <4>2. CASE m # 2
        <5>1. g[m] = Cat(f[m - 1], q[m]) /\ g[m - 1] = f[m - 1]
          BY <2>6, <3>1, <4>2
        <5> QED BY <3>1, <5>1
      <4> QED BY <4>1, <4>2
    <3>2. CASE k # m
      <4>1. f[k] = Cat(f[k - 1], q[k]) /\ g[k] = f[k]
        BY <2>1, <2>6, <3>2
      <4>2. g[k - 1] = f[k - 1]
        BY <2>1, <2>6, <3>2
      <4> QED BY <4>1, <4>2
    <3> QED BY <3>1, <3>2
  <2> HIDE DEF g
  <2>7. g \in Good(m)
    BY <2>4, <2>5, <2>6
  <2>8. m \in 0..n
    BY <1>0
  <2> HIDE DEF Good
  <2> QED BY <2>7, <2>8
<1>3. n \in P
  <2> HIDE DEF P
  <2>1. \A k \in 0..n : k \in P
    BY <1>0, <1>1, <1>2, Induction
  <2> QED BY <1>0, <2>1
<1>4. PICK f \in [1..n -> Seq(S)] : /\ n > 0 => f[1] = q[1]
                                   /\ \A k \in 2..n : f[k] = Cat(f[k - 1], q[k])
  BY <1>3
<1>5. f = [k \in 1..n |-> f[k]]
  BY <1>4
<1>6. ASSUME NEW k \in 1..n PROVE f[k] = IF k = 1 THEN q[k] ELSE Cat(f[k - 1], q[k])
  <2>1. CASE k = 1
    <3>1. n > 0
      BY <1>0
    <3> QED BY <1>4, <2>1, <3>1
  <2>2. CASE k # 1
    <3>1. k \in 2..n
      BY <1>0, <2>2
    <3>2. f[k] = Cat(f[k - 1], q[k])
      BY <1>4, <3>1, Zenon
    <3> QED BY <2>2, <3>2
  <2> QED BY <2>1, <2>2
<1>7. f = [k \in 1..n |-> IF k = 1 THEN q[k] ELSE Cat(f[k - 1], q[k])]
  BY <1>5, <1>6, Zenon
<1> QED BY <1>7 DEF n, IsJoins

\* What FlattenSeq is.
LEMMA JoinsDef ==
  ASSUME NEW S, NEW q \in Seq(Seq(S))
  PROVE  /\ Joins(q) \in [1..Len(q) -> Seq(S)]
         /\ Len(q) > 0 => FlattenSeq(q) = Joins(q)[Len(q)] /\ Joins(q)[1] = q[1]
         /\ \A k \in 2..Len(q) : Joins(q)[k] = Cat(Joins(q)[k - 1], q[k])
<1> DEFINE n == Len(q)
           f == Joins(q)
<1>1. Len(q) # 0 => FlattenSeq(q) = f[n]
  BY Zenon DEF FlattenSeq, Joins, IsJoins, Cat
<1>2. IsJoins(f, q)
  BY JoinsExist, Zenon DEF Joins
<1>3. n \in Nat /\ \A k \in 1..n : q[k] \in Seq(S)
  OBVIOUS
<1>4. f = [k \in 1..n |-> IF k = 1 THEN q[k] ELSE Cat(f[k - 1], q[k])]
  BY <1>2, Zenon DEF IsJoins
<1> HIDE DEF f, n
<1>5. n > 0 => f[1] = q[1]
  BY <1>3, <1>4
<1>6. ASSUME NEW k \in 2..n PROVE f[k] = Cat(f[k - 1], q[k])
  BY <1>3, <1>4
<1> DEFINE P == {m \in 0..n : m > 0 => f[m] \in Seq(S)}
<1>7. 0 \in P
  BY <1>3
<1>8. ASSUME NEW m \in 1..n, m - 1 \in P PROVE m \in P
  <2>1. m \in 0..n /\ q[m] \in Seq(S)
    BY <1>3
  <2>2. CASE m = 1
    <3>1. f[1] = q[1]
      BY <1>3, <1>5
    <3> QED BY <2>1, <2>2, <3>1
  <2>3. CASE m # 1
    <3>1. f[m] = Cat(f[m - 1], q[m]) /\ f[m - 1] \in Seq(S)
      BY <1>6, <1>8, <2>3
    <3>2. f[m] \in Seq(S)
      BY CatType, <2>1, <3>1
    <3> QED BY <2>1, <3>2
  <2> QED BY <2>2, <2>3
<1>9. \A m \in 0..n : m \in P
  <2> HIDE DEF P
  <2> QED BY <1>3, <1>7, <1>8, Induction
<1>10. f \in [1..n -> Seq(S)]
  <2>1. f = [k \in 1..n |-> f[k]]
    <3>1. DOMAIN f = 1..n
      BY <1>4
    <3> QED BY <1>4, <3>1
  <2>2. \A k \in 1..n : f[k] \in Seq(S)
    BY <1>3, <1>9
  <2> QED BY <2>1, <2>2
<1> QED BY <1>1, <1>3, <1>5, <1>6, <1>10 DEF n, f

\* Flattening one sequence more.
LEMMA FlattenMore ==
  ASSUME NEW S, NEW q \in Seq(Seq(S)), NEW p \in Seq(Seq(S)),
         Len(p) = Len(q) + 1, \A k \in 1..Len(q) : p[k] = q[k]
  PROVE  /\ FlattenSeq(q) \in Seq(S)
         /\ FlattenSeq(p) = Cat(FlattenSeq(q), p[Len(p)])
<1> DEFINE n == Len(q)
           f == Joins(q)
           g == Joins(p)
<1>0. n \in Nat /\ Len(p) = n + 1 /\ p[n + 1] \in Seq(S) /\ \A k \in 1..n : p[k] = q[k]
  OBVIOUS
<1>1. f \in [1..n -> Seq(S)] /\ g \in [1..(n + 1) -> Seq(S)]
  BY <1>0, JoinsDef
<1>2. /\ n > 0 => FlattenSeq(q) = f[n] /\ f[1] = q[1]
      /\ FlattenSeq(p) = g[n + 1] /\ g[1] = p[1]
  <2>1. Len(p) > 0
    BY <1>0
  <2>2. FlattenSeq(p) = g[Len(p)] /\ g[1] = p[1]
    BY <2>1, JoinsDef, Zenon
  <2>3. n > 0 => FlattenSeq(q) = f[n] /\ f[1] = q[1]
    BY JoinsDef, Zenon
  <2> QED BY <1>0, <2>2, <2>3
<1>3. /\ \A k \in 2..n : f[k] = Cat(f[k - 1], q[k])
      /\ \A k \in 2..(n + 1) : g[k] = Cat(g[k - 1], p[k])
  BY <1>0, JoinsDef
<1>4. n = 0 => FlattenSeq(q) = << >>
  <2> SUFFICES ASSUME n = 0 PROVE FlattenSeq(q) = << >>
    OBVIOUS
  <2>1. q = << >>
    BY EmptySeq
  <2> QED BY <2>1 DEF FlattenSeq
<1> HIDE DEF n, f, g
<1>5. CASE n = 0
  <2>1. p[1] \in Seq(S) /\ FlattenSeq(p) = p[1] /\ FlattenSeq(q) = << >>
    BY <1>0, <1>2, <1>4, <1>5
  <2>2. Cat(<< >>, p[1]) = p[1] /\ << >> \in Seq(S)
    BY <2>1, ConcatEmptySeq DEF Cat
  <2> QED BY <1>0, <1>5, <2>1, <2>2
<1>6. CASE n # 0
  <2> DEFINE P == {k \in 0..n : k > 0 => g[k] = f[k]}
  <2>4. 0 \in P
    BY <1>0
  <2>5. ASSUME NEW k \in 1..n, k - 1 \in P PROVE k \in P
    <3>0. k \in 0..n
      BY <1>0
    <3>1. CASE k = 1
      <4>1. g[1] = f[1]
        BY <1>0, <1>2, <1>6
      <4> QED BY <3>0, <3>1, <4>1
    <3>2. CASE k # 1
      <4>1. k \in 2..n /\ k \in 2..(n + 1)
        BY <1>0, <3>2
      <4>2. g[k - 1] = f[k - 1]
        BY <2>5, <4>1
      <4>3. g[k] = Cat(g[k - 1], p[k]) /\ f[k] = Cat(f[k - 1], q[k]) /\ p[k] = q[k]
        BY <1>0, <1>3, <4>1
      <4>4. g[k] = f[k]
        BY <4>2, <4>3
      <4> QED BY <3>0, <4>4
    <3> QED BY <3>1, <3>2
  <2>6. \A k \in 0..n : k \in P
    <3> HIDE DEF P
    <3> QED BY <1>0, <2>4, <2>5, Induction
  <2>7. n \in 0..n /\ n > 0 /\ n \in 1..n /\ n + 1 \in 2..(n + 1) /\ (n + 1) - 1 = n
    BY <1>0, <1>6
  <2>8. g[n] = f[n]
    BY <2>6, <2>7
  <2>9. g[n + 1] = Cat(g[n], p[n + 1])
    BY <1>3, <2>7
  <2>10. f[n] \in Seq(S)
    BY <1>1, <2>7
  <2> QED BY <1>0, <1>2, <2>7, <2>8, <2>9, <2>10
<1> QED BY <1>0, <1>5, <1>6

-----------------------------------------------------------------------------
(***************************************************************************)
(* What a pattern means.  These are the definitions of PatternFormatter    *)
(* for a pattern p and a list of operations o, free of the state.          *)
(***************************************************************************)
RunSet(p, j) == {k \in 1..j : \A m \in k..j : p[m] = "%"}
Run(p, j) == Cardinality(RunSet(p, j))
Intro(p, j) == j \in DOMAIN p /\ Run(p, j) % 2 = 1
Emit(p, j) ==
    CASE Intro(p, j)     -> IF j = Len(p) THEN <<"%">> ELSE << >>
      [] Intro(p, j - 1) -> IF p[j] \in DOMAIN Pattern!Directive THEN <<Pattern!Directive[p[j]]>>
                            ELSE IF p[j] = "%" THEN <<"%">> ELSE <<"%", p[j]>>
      [] OTHER           -> <<p[j]>>
Mean(p, n) == FlattenSeq([j \in 1..n |-> Emit(p, j)])
FlatOps(o) == FlattenSeq([j \in DOMAIN o |-> Pattern!Flat(o[j])])
WellFormed(o) ==
    \A j \in DOMAIN o : o[j].type = "Literal" =>
        o[j].literal # << >> /\ (j + 1 \in DOMAIN o => o[j + 1].type # "Literal")

\* The characters and types there are, and the operations made of them.
Types == {"Literal", "Date", "Time", "Microseconds", "LevelFull", "LevelShort", "Message",
          "ColorStart", "ColorReset"} \cup Pattern!Fields
PatternChars == UNION {{p[j] : j \in DOMAIN p} : p \in Patterns \cup {DefaultPattern}}
Chars == PatternChars \cup {"%"} \cup Types
Ops == [type : Types, literal : Seq(Chars)]

LEMMA SameCardinality == \A S : Pattern!Cardinality(S) = Cardinality(S)
BY DEF Pattern!Cardinality, Cardinality

LEMMA SameFlatten == \A s : Pattern!FlattenSeq(s) = FlattenSeq(s)
BY Zenon DEF Pattern!FlattenSeq, FlattenSeq

\* The table of src/README.md and the switch agree on all but four characters.
LEMMA TablesAgree ==
  ASSUME NEW c, c \notin Pattern!Disputed
  PROVE  /\ c \in DOMAIN Pattern!Documented <=> c \in DOMAIN Pattern!Directive
         /\ c \in DOMAIN Pattern!Directive => Pattern!Documented[c] = Pattern!Directive[c]
<1>1. c # "r" /\ c # "s" /\ c # "k" /\ c # "q"
  BY DEF Pattern!Disputed
<1>2. c \in DOMAIN Pattern!Documented <=> c \in DOMAIN Pattern!Directive
  BY <1>1 DEF Pattern!Documented, Pattern!Directive
<1>3. c \in DOMAIN Pattern!Directive => Pattern!Documented[c] = Pattern!Directive[c]
  BY <1>1 DEF Pattern!Documented, Pattern!Directive
<1> QED BY <1>2, <1>3

LEMMA AsMeantDef ==
  Cat(FlatOps(ops), literal) = Mean(pattern, i) /\ WellFormed(ops) => Pattern!CompiledAsMeant
<1> SUFFICES ASSUME Cat(FlatOps(ops), literal) = Mean(pattern, i), WellFormed(ops)
             PROVE  Pattern!CompiledAsMeant
  OBVIOUS
<1>1. ASSUME NEW j PROVE Pattern!RunOfPercents(j) = Run(pattern, j)
  BY SameCardinality, Zenon DEF Pattern!RunOfPercents, Run, RunSet
<1>2. ASSUME NEW j PROVE Pattern!Introduces(j) <=> Intro(pattern, j)
  BY <1>1, Zenon DEF Pattern!Introduces, Intro
<1>3. Pattern!FlattenSeq([j \in DOMAIN ops |-> Pattern!Flat(ops[j])]) = FlatOps(ops)
  BY SameFlatten, Zenon DEF FlatOps
<1>4. ASSUME \A j \in 1..i : Pattern!Introduces(j - 1) => pattern[j] \notin Pattern!Disputed
      PROVE  Pattern!CompiledAsDocumented
  <2>1. ASSUME NEW j \in 1..i PROVE Pattern!Emits(j) = Emit(pattern, j)
    <3> DEFINE c == pattern[j]
               Doc == IF c \in DOMAIN Pattern!Documented THEN <<Pattern!Documented[c]>>
                      ELSE IF c = "%" THEN <<"%">> ELSE <<"%", c>>
               Code == IF c \in DOMAIN Pattern!Directive THEN <<Pattern!Directive[c]>>
                       ELSE IF c = "%" THEN <<"%">> ELSE <<"%", c>>
    <3>1. Intro(pattern, j - 1) => Doc = Code
      <4> SUFFICES ASSUME Intro(pattern, j - 1) PROVE Doc = Code
        OBVIOUS
      <4>1. Pattern!Introduces(j - 1)
        BY <1>2, Zenon
      <4>2. c \notin Pattern!Disputed
        BY <1>4, <4>1, Zenon
      <4>3. /\ c \in DOMAIN Pattern!Documented <=> c \in DOMAIN Pattern!Directive
            /\ c \in DOMAIN Pattern!Directive => Pattern!Documented[c] = Pattern!Directive[c]
        BY <4>2, TablesAgree
      <4> QED BY <4>3, Zenon
    <3>2. Pattern!Emits(j) = CASE Pattern!Introduces(j)     -> (IF j = Len(pattern) THEN <<"%">> ELSE << >>)
                               [] Pattern!Introduces(j - 1) -> Doc
                               [] OTHER                     -> <<c>>
      BY DEF Pattern!Emits
    <3>3. Emit(pattern, j) = CASE Intro(pattern, j)     -> (IF j = Len(pattern) THEN <<"%">> ELSE << >>)
                               [] Intro(pattern, j - 1) -> Code
                               [] OTHER                 -> <<c>>
      BY DEF Emit
    <3>4. (Pattern!Introduces(j) <=> Intro(pattern, j)) /\ (Pattern!Introduces(j - 1) <=> Intro(pattern, j - 1))
      BY <1>2, Zenon
    <3> HIDE DEF Doc, Code, c
    <3> QED BY <3>1, <3>2, <3>3, <3>4
  <2>2. [j \in 1..i |-> Pattern!Emits(j)] = [j \in 1..i |-> Emit(pattern, j)]
    BY <2>1, Zenon
  <2>3. Pattern!Meaning = Mean(pattern, i)
    BY <2>2, SameFlatten, Zenon DEF Pattern!Meaning, Mean
  <2> QED BY <1>3, <2>3, Zenon DEF Pattern!CompiledAsDocumented, Cat
<1> QED BY <1>4, Zenon DEF Pattern!CompiledAsMeant, WellFormed

\* The characters of directives, and what they stand for.
LEMMA DirectiveType ==
  /\ "%" \notin DOMAIN Pattern!Directive
  /\ \A c \in DOMAIN Pattern!Directive :
        Pattern!Directive[c] \in Types /\ Pattern!Directive[c] # "Literal"
<1>1. "%" \notin DOMAIN Pattern!Directive
  BY DEF Pattern!Directive
<1>2. \A c \in DOMAIN Pattern!Directive : Pattern!Directive[c] \in Types
  BY DEF Pattern!Directive, Types, Pattern!Fields
<1>3. \A c \in DOMAIN Pattern!Directive : Pattern!Directive[c] # "Literal"
  BY DEF Pattern!Directive
<1> QED BY <1>1, <1>2, <1>3

LEMMA CharsType == "%" \in Chars /\ Types \subseteq Chars /\ "Literal" \in Types
<1>1. "%" \in Chars /\ Types \subseteq Chars
  BY DEF Chars
<1>2. "Literal" \in Types
  BY Zenon DEF Types
<1> QED BY <1>1, <1>2

\* The run of '%' grows by one or starts anew.
LEMMA RunStep ==
  ASSUME NEW p \in Seq(Chars), NEW j \in 1..Len(p)
  PROVE  /\ Run(p, 0) = 0 /\ Run(p, j - 1) \in Nat
         /\ Run(p, j) = IF p[j] = "%" THEN Run(p, j - 1) + 1 ELSE 0
<1>0. j \in Nat /\ j >= 1
  OBVIOUS
<1>1. Run(p, 0) = 0
  <2>1. RunSet(p, 0) = {}
    BY DEF RunSet
  <2> QED BY <2>1, FS_EmptySet DEF Run
<1> DEFINE A == RunSet(p, j - 1)
           B == RunSet(p, j)
<1>2. IsFiniteSet(A)
  <2>1. IsFiniteSet(1..(j - 1))
    BY <1>0, FS_Interval
  <2>2. A \subseteq 1..(j - 1)
    BY DEF RunSet
  <2> QED BY <2>1, <2>2, FS_Subset
<1>3. Cardinality(A) \in Nat
  BY <1>2, FS_CardinalityType
<1>4. CASE p[j] = "%"
  <2>1. ASSUME NEW k \in B PROVE k \in A \cup {j}
    BY <1>0, <2>1 DEF RunSet
  <2>2. ASSUME NEW k \in A PROVE k \in B
    <3>1. k \in 1..j /\ \A m \in k..(j - 1) : p[m] = "%"
      BY <1>0, <2>2 DEF RunSet
    <3>2. ASSUME NEW m \in k..j PROVE p[m] = "%"
      BY <1>0, <1>4, <3>1, <3>2
    <3> QED BY <3>1, <3>2 DEF RunSet
  <2>3. j \in B
    BY <1>0, <1>4 DEF RunSet
  <2>4. j \notin A
    BY <1>0 DEF RunSet
  <2>5. B = A \cup {j}
    <3> HIDE DEF A, B
    <3> QED BY <2>1, <2>2, <2>3
  <2>6. Cardinality(B) = Cardinality(A) + 1
    <3> HIDE DEF A, B
    <3> QED BY <1>2, <2>4, <2>5, FS_AddElement
  <2> QED BY <1>1, <1>3, <1>4, <2>6 DEF Run
<1>5. CASE p[j] # "%"
  <2>1. B = {}
    BY <1>0, <1>5 DEF RunSet
  <2> QED BY <1>1, <1>3, <1>5, <2>1, FS_EmptySet DEF Run
<1> QED BY <1>4, <1>5

\* What a position contributes, by what it and the one before it introduce.
LEMMA EmitCases ==
  ASSUME NEW p \in Seq(Chars), NEW j \in 1..Len(p)
  PROVE  /\ Intro(p, j) => ~Intro(p, j - 1) /\ p[j] = "%"
         /\ Intro(p, j) => Emit(p, j) = IF j = Len(p) THEN <<"%">> ELSE << >>
         /\ Intro(p, j - 1) =>
              Emit(p, j) = IF p[j] \in DOMAIN Pattern!Directive THEN <<Pattern!Directive[p[j]]>>
                           ELSE IF p[j] = "%" THEN <<"%">> ELSE <<"%", p[j]>>
         /\ ~Intro(p, j) /\ ~Intro(p, j - 1) => Emit(p, j) = <<p[j]>>
<1>1. Intro(p, j) => ~Intro(p, j - 1) /\ p[j] = "%"
  <2> SUFFICES ASSUME Intro(p, j) PROVE ~Intro(p, j - 1) /\ p[j] = "%"
    OBVIOUS
  <2>1. /\ Run(p, j - 1) \in Nat
        /\ Run(p, j) = IF p[j] = "%" THEN Run(p, j - 1) + 1 ELSE 0
        /\ Run(p, j) % 2 = 1
    BY RunStep DEF Intro
  <2>2. p[j] = "%" /\ (Run(p, j - 1) + 1) % 2 = 1
    BY <2>1
  <2>3. Run(p, j - 1) % 2 # 1
    BY <2>1, <2>2
  <2> QED BY <2>2, <2>3 DEF Intro
<1> QED BY <1>1, Zenon DEF Emit

\* What a position contributes is text.
LEMMA EmitType ==
  ASSUME NEW p \in Seq(Chars), NEW j \in 1..Len(p)
  PROVE  Emit(p, j) \in Seq(Chars)
<1>1. p[j] \in Chars /\ "%" \in Chars
  BY CharsType
<1>2. /\ << >> \in Seq(Chars) /\ <<"%">> \in Seq(Chars)
      /\ <<p[j]>> \in Seq(Chars) /\ <<"%", p[j]>> \in Seq(Chars)
  BY <1>1
<1>3. p[j] \in DOMAIN Pattern!Directive => <<Pattern!Directive[p[j]]>> \in Seq(Chars)
  BY DirectiveType, CharsType
<1> QED BY <1>2, <1>3, EmitCases

\* The meaning of one position more.
LEMMA MeanStep ==
  ASSUME NEW p \in Seq(Chars), NEW n \in 1..Len(p)
  PROVE  /\ Mean(p, 0) = << >>
         /\ Mean(p, n - 1) \in Seq(Chars)
         /\ Mean(p, n) = Cat(Mean(p, n - 1), Emit(p, n))
<1> DEFINE q == [j \in 1..(n - 1) |-> Emit(p, j)]
           r == [j \in 1..n |-> Emit(p, j)]
           e == [j \in 1..0 |-> Emit(p, j)]
<1>0. n \in Nat /\ n >= 1 /\ n <= Len(p) /\ Len(p) \in Nat
  OBVIOUS
<1>1. \A j \in 1..Len(p) : Emit(p, j) \in Seq(Chars)
  BY EmitType
<1>2. q \in Seq(Seq(Chars)) /\ Len(q) = n - 1
  <2>1. \A j \in 1..(n - 1) : Emit(p, j) \in Seq(Chars)
    BY <1>0, <1>1
  <2> QED BY <1>0, <2>1
<1>3. r \in Seq(Seq(Chars)) /\ Len(r) = n
  <2>1. \A j \in 1..n : Emit(p, j) \in Seq(Chars)
    BY <1>0, <1>1
  <2> QED BY <1>0, <2>1
<1>4. \A j \in 1..(n - 1) : r[j] = q[j]
  BY <1>0
<1>5. r[n] = Emit(p, n)
  BY <1>0
<1>6. Len(e) = 0
  OBVIOUS
<1>7. FlattenSeq(e) = << >>
  <2>1. e = << >>
    BY <1>6
  <2> QED BY <1>6, <2>1 DEF FlattenSeq
<1>8. FlattenSeq(q) \in Seq(Chars) /\ FlattenSeq(r) = Cat(FlattenSeq(q), r[n])
  <2> HIDE DEF q, r
  <2>1. Len(r) = Len(q) + 1 /\ \A j \in 1..Len(q) : r[j] = q[j]
    BY <1>0, <1>2, <1>3, <1>4
  <2> QED BY <1>2, <1>3, <2>1, FlattenMore
<1> QED BY <1>5, <1>7, <1>8 DEF Mean

\* One operation more.
LEMMA FlatOpsStep ==
  ASSUME NEW o \in Seq(Ops), NEW op \in Ops
  PROVE  /\ FlatOps(o) \in Seq(Chars)
         /\ FlatOps(Append(o, op)) = Cat(FlatOps(o), Pattern!Flat(op))
<1> DEFINE oo == Append(o, op)
           q == [j \in DOMAIN o |-> Pattern!Flat(o[j])]
           r == [j \in DOMAIN oo |-> Pattern!Flat(oo[j])]
<1>0. /\ Len(o) \in Nat /\ DOMAIN o = 1..Len(o) /\ DOMAIN oo = 1..(Len(o) + 1)
      /\ oo \in Seq(Ops) /\ Len(oo) = Len(o) + 1
  OBVIOUS
<1>1. (\A j \in 1..Len(o) : oo[j] = o[j]) /\ oo[Len(o) + 1] = op
  OBVIOUS
<1>2. ASSUME NEW x \in Ops PROVE Pattern!Flat(x) \in Seq(Chars)
  <2>1. x.type \in Chars /\ x.literal \in Seq(Chars)
    BY CharsType DEF Ops
  <2>2. <<x.type>> \in Seq(Chars)
    BY <2>1
  <2> QED BY <2>1, <2>2 DEF Pattern!Flat
<1>3. (\A j \in 1..Len(o) : o[j] \in Ops) /\ \A j \in 1..(Len(o) + 1) : oo[j] \in Ops
  BY <1>0, <1>1
<1> HIDE DEF oo
<1>4. q \in Seq(Seq(Chars)) /\ Len(q) = Len(o)
  <2>1. \A j \in 1..Len(o) : Pattern!Flat(o[j]) \in Seq(Chars)
    BY <1>2, <1>3
  <2> QED BY <1>0, <2>1
<1>5. r \in Seq(Seq(Chars)) /\ Len(r) = Len(o) + 1
  <2>1. \A j \in 1..(Len(o) + 1) : Pattern!Flat(oo[j]) \in Seq(Chars)
    BY <1>2, <1>3
  <2> QED BY <1>0, <2>1
<1>6. \A j \in 1..Len(o) : r[j] = q[j]
  BY <1>0, <1>1
<1>7. r[Len(o) + 1] = Pattern!Flat(op)
  BY <1>0, <1>1
<1>8. FlattenSeq(q) \in Seq(Chars) /\ FlattenSeq(r) = Cat(FlattenSeq(q), r[Len(o) + 1])
  <2> HIDE DEF q, r
  <2>1. Len(r) = Len(q) + 1 /\ \A j \in 1..Len(q) : r[j] = q[j]
    BY <1>0, <1>4, <1>5, <1>6
  <2> QED BY <1>4, <1>5, <2>1, FlattenMore
<1> QED BY <1>7, <1>8 DEF FlatOps, oo

LEMMA CatAssoc ==
  ASSUME NEW S, NEW a \in Seq(S), NEW b \in Seq(S), NEW c \in Seq(S)
  PROVE  Cat(Cat(a, b), c) = Cat(a, Cat(b, c))
BY ConcatAssociative DEF Cat

LEMMA CatEmpty ==
  ASSUME NEW S, NEW a \in Seq(S)
  PROVE  Cat(a, << >>) = a /\ Cat(<< >>, a) = a
BY ConcatEmptySeq DEF Cat

\* What the scan knows at the start of a turn: n characters of p are consumed
\* and none of them waits for another, lit is pending and o is compiled.
Scanned(p, n, lit, o) ==
    /\ p \in Seq(Chars) /\ n \in 0..Len(p)
    /\ lit \in Seq(Chars) /\ o \in Seq(Ops)
    /\ n < Len(p) => ~Intro(p, n)
    /\ Cat(FlatOps(o), lit) = Mean(p, n)
    /\ WellFormed(o)
LastIsNoLiteral(o) == Len(o) > 0 => o[Len(o)].type # "Literal"
Flush(o, lit) == IF lit = << >> THEN o ELSE Append(o, [type |-> "Literal", literal |-> lit])

\* A '%' behind characters that are complete introduces what follows it.
LEMMA PercentIntroduces ==
  ASSUME NEW p \in Seq(Chars), NEW n \in 0..Len(p), n < Len(p), ~Intro(p, n)
  PROVE  /\ p[n + 1] = "%" <=> Intro(p, n + 1)
         /\ Intro(p, n + 1) /\ n + 2 <= Len(p) => ~Intro(p, n + 2)
<1>0. /\ n \in Nat /\ Len(p) \in Nat /\ DOMAIN p = 1..Len(p)
      /\ n + 1 \in 1..Len(p) /\ (n + 1) - 1 = n /\ (n + 2) - 1 = n + 1
  OBVIOUS
<1>1. Run(p, n) \in Nat /\ Run(p, n + 1) = IF p[n + 1] = "%" THEN Run(p, n) + 1 ELSE 0
  BY <1>0, RunStep
<1>2. Run(p, n) % 2 = 0
  <2>1. CASE n = 0
    BY <1>0, <2>1, RunStep
  <2>2. CASE n # 0
    <3>1. n \in DOMAIN p
      BY <1>0, <2>2
    <3>2. Run(p, n) % 2 # 1
      BY <3>1 DEF Intro
    <3> QED BY <1>1, <3>2
  <2> QED BY <2>1, <2>2
<1>3. p[n + 1] = "%" => Run(p, n + 1) % 2 = 1
  <2>1. \A r \in Nat : r % 2 = 0 => (r + 1) % 2 = 1
    OBVIOUS
  <2> QED BY <1>1, <1>2, <2>1
<1>4. p[n + 1] = "%" <=> Intro(p, n + 1)
  <2>1. n + 1 \in DOMAIN p
    BY <1>0
  <2>2. Intro(p, n + 1) => p[n + 1] = "%"
    BY <1>0, EmitCases
  <2> QED BY <1>3, <2>1, <2>2 DEF Intro
<1>5. ASSUME n + 2 <= Len(p), Intro(p, n + 1) PROVE ~Intro(p, n + 2)
  <2>1. n + 2 \in 1..Len(p)
    BY <1>0, <1>5
  <2> QED BY <1>0, <1>5, <2>1, EmitCases
<1> QED BY <1>4, <1>5

\* Text that the next character means goes to the pending literal.
LEMMA ScannedOne ==
  ASSUME NEW p, NEW n, NEW lit, NEW o, Scanned(p, n, lit, o), n < Len(p),
         n + 1 < Len(p) => ~Intro(p, n + 1)
  PROVE  Scanned(p, n + 1, lit \o Emit(p, n + 1), o)
<1>0. /\ p \in Seq(Chars) /\ n \in 0..Len(p) /\ lit \in Seq(Chars) /\ o \in Seq(Ops)
      /\ Cat(FlatOps(o), lit) = Mean(p, n) /\ WellFormed(o)
  BY DEF Scanned
<1>1. n \in Nat /\ Len(p) \in Nat /\ n + 1 \in 1..Len(p) /\ n + 1 \in 0..Len(p) /\ (n + 1) - 1 = n
  BY <1>0
<1>2. FlatOps(o) \in Seq(Chars)
  <2>1. [type |-> "Literal", literal |-> << >>] \in Ops
    BY CharsType DEF Ops
  <2> QED BY <1>0, <2>1, FlatOpsStep
<1>3. Emit(p, n + 1) \in Seq(Chars)
  BY <1>0, <1>1, EmitType
<1>4. Mean(p, n + 1) = Cat(Mean(p, n), Emit(p, n + 1))
  BY <1>0, <1>1, MeanStep
<1>5. Cat(Cat(FlatOps(o), lit), Emit(p, n + 1)) = Cat(FlatOps(o), Cat(lit, Emit(p, n + 1)))
  BY <1>0, <1>2, <1>3, CatAssoc
<1>6. Cat(lit, Emit(p, n + 1)) \in Seq(Chars)
  BY <1>0, <1>3, CatType
<1>7. Cat(FlatOps(o), Cat(lit, Emit(p, n + 1))) = Mean(p, n + 1)
  BY <1>0, <1>4, <1>5
<1>8. Scanned(p, n + 1, Cat(lit, Emit(p, n + 1)), o)
  BY <1>0, <1>1, <1>6, <1>7 DEF Scanned
<1> QED BY <1>8 DEF Cat

\* An introducing '%' that is not the last character means nothing by itself.
LEMMA ScannedPercent ==
  ASSUME NEW p, NEW n, NEW lit, NEW o, Scanned(p, n, lit, o), n + 1 < Len(p), p[n + 1] = "%"
  PROVE  /\ n \in Nat /\ n + 2 \in 1..Len(p) /\ Intro(p, n + 1) /\ ~Intro(p, n + 2)
         /\ Mean(p, n + 2) = Cat(Cat(FlatOps(o), lit), Emit(p, n + 2))
         /\ FlatOps(o) \in Seq(Chars) /\ Emit(p, n + 2) \in Seq(Chars)
<1>0. /\ p \in Seq(Chars) /\ n \in 0..Len(p) /\ lit \in Seq(Chars) /\ o \in Seq(Ops)
      /\ Cat(FlatOps(o), lit) = Mean(p, n) /\ Len(p) \in Nat /\ (n < Len(p) => ~Intro(p, n))
  BY DEF Scanned
<1>1. /\ n \in Nat /\ n < Len(p) /\ n + 1 \in 1..Len(p) /\ n + 2 \in 1..Len(p)
      /\ (n + 1) - 1 = n /\ (n + 2) - 1 = n + 1 /\ n + 1 # Len(p) /\ n + 2 <= Len(p)
  BY <1>0
<1>2. Intro(p, n + 1) /\ ~Intro(p, n + 2)
  BY <1>0, <1>1, PercentIntroduces
<1>3. Emit(p, n + 1) = << >>
  BY <1>0, <1>1, <1>2, EmitCases
<1>4. Mean(p, n + 1) = Cat(Mean(p, n), << >>) /\ Mean(p, n) \in Seq(Chars)
  BY <1>0, <1>1, <1>3, MeanStep
<1>5. Mean(p, n + 1) = Mean(p, n)
  BY <1>4, CatEmpty
<1>6. Mean(p, n + 2) = Cat(Mean(p, n + 1), Emit(p, n + 2))
  BY <1>0, <1>1, MeanStep
<1>7. FlatOps(o) \in Seq(Chars)
  <2>1. [type |-> "Literal", literal |-> << >>] \in Ops
    BY CharsType DEF Ops
  <2> QED BY <1>0, <2>1, FlatOpsStep
<1>8. Emit(p, n + 2) \in Seq(Chars)
  BY <1>0, <1>1, EmitType
<1> QED BY <1>0, <1>1, <1>2, <1>5, <1>6, <1>7, <1>8

\* "%%" and unknown directives: text that two characters mean.
LEMMA ScannedTwo ==
  ASSUME NEW p, NEW n, NEW lit, NEW o, Scanned(p, n, lit, o), n + 1 < Len(p), p[n + 1] = "%"
  PROVE  Scanned(p, n + 2, lit \o Emit(p, n + 2), o)
<1>0. p \in Seq(Chars) /\ lit \in Seq(Chars) /\ o \in Seq(Ops) /\ WellFormed(o)
  BY DEF Scanned
<1>1. /\ n + 2 \in 0..Len(p) /\ ~Intro(p, n + 2)
      /\ Mean(p, n + 2) = Cat(Cat(FlatOps(o), lit), Emit(p, n + 2))
      /\ FlatOps(o) \in Seq(Chars) /\ Emit(p, n + 2) \in Seq(Chars)
  BY ScannedPercent
<1>2. Cat(FlatOps(o), Cat(lit, Emit(p, n + 2))) = Mean(p, n + 2)
  BY <1>0, <1>1, CatAssoc
<1>3. Cat(lit, Emit(p, n + 2)) \in Seq(Chars)
  BY <1>0, <1>1, CatType
<1>4. Scanned(p, n + 2, Cat(lit, Emit(p, n + 2)), o)
  BY <1>0, <1>1, <1>2, <1>3 DEF Scanned
<1> QED BY <1>4 DEF Cat

\* Appending an operation keeps literals apart.
LEMMA AppendWellFormed ==
  ASSUME NEW o \in Seq(Ops), NEW op \in Ops, WellFormed(o),
         op.type = "Literal" => op.literal # << >> /\ LastIsNoLiteral(o)
  PROVE  /\ Append(o, op) \in Seq(Ops) /\ WellFormed(Append(o, op))
         /\ op.type # "Literal" => LastIsNoLiteral(Append(o, op))
<1> DEFINE r == Append(o, op)
           n == Len(o)
<1>1. /\ n \in Nat /\ DOMAIN o = 1..n /\ DOMAIN r = 1..(n + 1) /\ r \in Seq(Ops) /\ Len(r) = n + 1
      /\ \A j \in 1..n : r[j] = o[j]
      /\ r[n + 1] = op
  OBVIOUS
<1>2. n > 0 => (LastIsNoLiteral(o) <=> o[n].type # "Literal")
  BY DEF LastIsNoLiteral
<1>3. \A j \in 1..n : o[j].type = "Literal" =>
          o[j].literal # << >> /\ (j + 1 \in 1..n => o[j + 1].type # "Literal")
  BY <1>1 DEF WellFormed
<1> HIDE DEF r, n
<1>4. ASSUME NEW j \in 1..(n + 1), r[j].type = "Literal"
      PROVE  r[j].literal # << >> /\ (j + 1 \in 1..(n + 1) => r[j + 1].type # "Literal")
  <2>1. CASE j = n + 1
    BY <1>1, <1>4, <2>1
  <2>2. CASE j = n
    <3>1. r[j] = o[j] /\ j \in 1..n /\ n > 0 /\ r[j + 1] = op
      BY <1>1, <1>4, <2>2
    <3>2. o[n].type = "Literal"
      BY <1>4, <2>2, <3>1
    <3> QED BY <1>2, <1>3, <2>2, <3>1, <3>2
  <2>3. CASE j < n
    <3>1. j \in 1..n /\ j + 1 \in 1..n /\ r[j] = o[j] /\ r[j + 1] = o[j + 1]
      BY <1>1, <2>3
    <3> QED BY <1>3, <1>4, <3>1
  <2> QED BY <1>1, <2>1, <2>2, <2>3
<1>5. WellFormed(r)
  BY <1>1, <1>4 DEF WellFormed
<1>6. op.type # "Literal" => LastIsNoLiteral(r)
  BY <1>1 DEF LastIsNoLiteral
<1> QED BY <1>1, <1>5, <1>6 DEF r

\* flush_literal moves the pending text into an operation.
LEMMA FlushEffect ==
  ASSUME NEW o \in Seq(Ops), NEW lit \in Seq(Chars), WellFormed(o), LastIsNoLiteral(o)
  PROVE  /\ Flush(o, lit) \in Seq(Ops) /\ WellFormed(Flush(o, lit))
         /\ FlatOps(Flush(o, lit)) = Cat(FlatOps(o), lit)
<1> DEFINE op == [type |-> "Literal", literal |-> lit]
<1>1. op \in Ops /\ op.type = "Literal" /\ op.literal = lit
  BY CharsType DEF Ops
<1>2. Pattern!Flat(op) = lit
  BY DEF Pattern!Flat
<1>3. FlatOps(o) \in Seq(Chars) /\ FlatOps(Append(o, op)) = Cat(FlatOps(o), lit)
  BY <1>1, <1>2, FlatOpsStep
<1>4. CASE lit = << >>
  BY <1>3, <1>4, CatEmpty DEF Flush
<1>5. CASE lit # << >>
  <2>1. Flush(o, lit) = Append(o, op)
    BY <1>5 DEF Flush
  <2>2. Append(o, op) \in Seq(Ops) /\ WellFormed(Append(o, op))
    <3> HIDE DEF op
    <3> QED BY <1>1, <1>5, AppendWellFormed
  <2> QED BY <1>3, <2>1, <2>2
<1> QED BY <1>4, <1>5

\* A directive flushes the pending text and adds its operation.
LEMMA ScannedDirective ==
  ASSUME NEW p, NEW n, NEW lit, NEW o, Scanned(p, n, lit, o), n + 1 < Len(p), p[n + 1] = "%",
         LastIsNoLiteral(o), p[n + 2] \in DOMAIN Pattern!Directive
  PROVE  LET r == Append(Flush(o, lit), [type |-> Pattern!Directive[p[n + 2]], literal |-> << >>])
         IN  Scanned(p, n + 2, << >>, r) /\ LastIsNoLiteral(r)
<1> DEFINE d == Pattern!Directive[p[n + 2]]
           op == [type |-> d, literal |-> << >>]
           f == Flush(o, lit)
           r == Append(f, op)
<1>0. p \in Seq(Chars) /\ lit \in Seq(Chars) /\ o \in Seq(Ops) /\ WellFormed(o)
  BY DEF Scanned
<1>1. /\ n \in Nat /\ n + 2 \in 1..Len(p) /\ n + 2 \in 0..Len(p) /\ ~Intro(p, n + 2) /\ Intro(p, n + 1)
      /\ Mean(p, n + 2) = Cat(Cat(FlatOps(o), lit), Emit(p, n + 2))
  BY ScannedPercent
<1>2. d \in Types /\ d # "Literal"
  BY DirectiveType
<1>3. op \in Ops /\ op.type = d
  <2>1. << >> \in Seq(Chars)
    OBVIOUS
  <2> HIDE DEF d
  <2> QED BY <1>2, <2>1 DEF Ops
<1>4. Pattern!Flat(op) = <<d>>
  <2> HIDE DEF d
  <2> QED BY <1>2 DEF Pattern!Flat
<1>5. f \in Seq(Ops) /\ WellFormed(f) /\ FlatOps(f) = Cat(FlatOps(o), lit)
  BY <1>0, FlushEffect
<1>6. (n + 2) - 1 = n + 1
  BY <1>1
<1>7. Emit(p, n + 2) = <<d>>
  BY <1>0, <1>1, <1>6, EmitCases
<1> HIDE DEF d, op, f
<1>8. FlatOps(r) = Cat(FlatOps(f), <<d>>) /\ r \in Seq(Ops) /\ FlatOps(r) \in Seq(Chars)
  <2>1. r \in Seq(Ops)
    BY <1>3, <1>5, AppendProperties
  <2>2. FlatOps(r) \in Seq(Chars)
    <3> HIDE DEF r
    <3> QED BY <1>3, <2>1, FlatOpsStep
  <2> QED BY <1>3, <1>4, <1>5, <2>1, <2>2, FlatOpsStep
<1>9. WellFormed(r) /\ LastIsNoLiteral(r)
  BY <1>2, <1>3, <1>5, AppendWellFormed
<1>10. Cat(FlatOps(r), << >>) = Mean(p, n + 2)
  <2>1. Cat(FlatOps(r), << >>) = FlatOps(r)
    BY <1>8, CatEmpty
  <2> QED BY <1>1, <1>5, <1>7, <1>8, <2>1
<1>11. << >> \in Seq(Chars)
  OBVIOUS
<1> HIDE DEF r
<1>12. Scanned(p, n + 2, << >>, r)
  BY <1>0, <1>1, <1>8, <1>9, <1>10, <1>11 DEF Scanned
<1> QED BY <1>9, <1>12 DEF r, f, op, d

\* The end of the pattern flushes the rest.
LEMMA ScannedAll ==
  ASSUME NEW p, NEW n, NEW lit, NEW o, Scanned(p, n, lit, o), n = Len(p), LastIsNoLiteral(o)
  PROVE  Scanned(p, n, << >>, Flush(o, lit))
<1> DEFINE f == Flush(o, lit)
<1>0. /\ p \in Seq(Chars) /\ lit \in Seq(Chars) /\ o \in Seq(Ops) /\ WellFormed(o) /\ n \in 0..Len(p)
      /\ Cat(FlatOps(o), lit) = Mean(p, n) /\ (n < Len(p) => ~Intro(p, n))
  BY DEF Scanned
<1>1. f \in Seq(Ops) /\ WellFormed(f) /\ FlatOps(f) = Cat(FlatOps(o), lit)
  BY <1>0, FlushEffect
<1> HIDE DEF f
<1>2. FlatOps(f) \in Seq(Chars) /\ << >> \in Seq(Chars)
  <2>1. [type |-> "Literal", literal |-> << >>] \in Ops
    BY CharsType DEF Ops
  <2> QED BY <1>1, <2>1, FlatOpsStep
<1>3. Cat(FlatOps(f), << >>) = Mean(p, n)
  BY <1>0, <1>1, <1>2, CatEmpty
<1>4. Scanned(p, n, << >>, f)
  BY <1>0, <1>1, <1>2, <1>3 DEF Scanned
<1> QED BY <1>4 DEF f

\* Nothing is scanned yet.
LEMMA ScannedNothing ==
  ASSUME NEW p \in Seq(Chars)
  PROVE  Scanned(p, 0, << >>, << >>) /\ LastIsNoLiteral(<< >>)
<1>1. FlattenSeq(<< >>) = << >>
  BY DEF FlattenSeq
<1>2. Mean(p, 0) = << >>
  <2> DEFINE e == [j \in 1..0 |-> Emit(p, j)]
  <2>1. e = << >>
    OBVIOUS
  <2> QED BY <1>1, <2>1 DEF Mean
<1>3. FlatOps(<< >>) = << >>
  <2> DEFINE e == [j \in DOMAIN << >> |-> Pattern!Flat(<< >>[j])]
  <2>1. e = << >>
    OBVIOUS
  <2> QED BY <1>1, <2>1 DEF FlatOps
<1>4. << >> \in Seq(Chars) /\ << >> \in Seq(Ops) /\ 0 \in 0..Len(p) /\ DOMAIN << >> = {}
  OBVIOUS
<1>5. Cat(FlatOps(<< >>), << >>) = Mean(p, 0)
  BY <1>2, <1>3, <1>4, CatEmpty
<1>6. WellFormed(<< >>) /\ LastIsNoLiteral(<< >>)
  BY <1>4 DEF WellFormed, LastIsNoLiteral
<1>7. ~Intro(p, 0)
  BY DEF Intro
<1> QED BY <1>4, <1>5, <1>6, <1>7 DEF Scanned

\* A sequence whose elements are in S is a sequence over S.
LEMMA SeqOver ==
  ASSUME NEW S, NEW T, NEW s \in Seq(T), \A j \in 1..Len(s) : s[j] \in S
  PROVE  s \in Seq(S)
<1>1. Len(s) \in Nat /\ s = [j \in 1..Len(s) |-> s[j]]
  OBVIOUS
<1> QED BY <1>1

\* The patterns a formatter has are texts.
LEMMA PatternsType == (\A p \in Patterns : p \in Seq(Chars)) /\ DefaultPattern \in Seq(Chars)
<1>1. ASSUME NEW p \in Patterns PROVE p \in Seq(Chars)
  <2>1. p \in Seq(STRING)
    BY TextsAssumption
  <2>2. ASSUME NEW j \in 1..Len(p) PROVE p[j] \in Chars
    <3>1. j \in DOMAIN p
      BY <2>1
    <3>2. p[j] \in PatternChars
      BY <3>1 DEF PatternChars
    <3> QED BY <3>2 DEF Chars
  <2> QED BY <2>1, <2>2, SeqOver
<1>2. DefaultPattern \in Seq(Chars)
  <2>1. \E T : DefaultPattern \in Seq(T)
    <3> DEFINE T == {"[", "%", "D", " ", "T", "e", "]", "C", "L", "R", "t", "i", "d", ":", "f", "#",
                     "n", "g", "m"}
    <3>1. DefaultPattern \in Seq(T)
      BY DEF DefaultPattern
    <3> QED BY <3>1
  <2>2. PICK T : DefaultPattern \in Seq(T)
    BY <2>1
  <2>3. ASSUME NEW j \in 1..Len(DefaultPattern) PROVE DefaultPattern[j] \in Chars
    <3>1. j \in DOMAIN DefaultPattern
      BY <2>2
    <3>2. DefaultPattern[j] \in PatternChars
      BY <3>1 DEF PatternChars
    <3> QED BY <3>2 DEF Chars
  <2> QED BY <2>2, <2>3, SeqOver
<1> QED BY <1>1, <1>2

-----------------------------------------------------------------------------
(***************************************************************************)
(* CompilePattern.                                                         *)
(***************************************************************************)
CompileInv ==
    /\ Scanned(pattern, i, literal, ops)
    /\ compiled \in BOOLEAN
    /\ ~compiled => LastIsNoLiteral(ops)
    /\ compiled => i = Len(pattern)
    /\ formatter # "pattern" => i = 0 /\ literal = << >> /\ ops = << >> /\ ~compiled
    /\ pc = "compile" => formatter = "pattern"

LEMMA CompileInvInit == Init => CompileInv
<1> SUFFICES ASSUME Init PROVE CompileInv
  OBVIOUS
<1>1. i = 0 /\ literal = << >> /\ ops = << >> /\ compiled = FALSE
  BY DEF Init, Pattern!CompileInit
<1>2. pattern \in Seq(Chars) /\ (pc = "compile" => formatter = "pattern")
  <2>1. pattern = << >> \/ pattern \in Patterns
    BY DEF Init
  <2>2. << >> \in Seq(Chars)
    OBVIOUS
  <2>3. pc = "compile" => formatter = "pattern"
    BY DEF Init
  <2> QED BY <2>1, <2>2, <2>3, PatternsType
<1>3. Scanned(pattern, i, literal, ops) /\ LastIsNoLiteral(ops)
  BY <1>1, <1>2, ScannedNothing
<1> QED BY <1>1, <1>2, <1>3 DEF CompileInv

\* One turn of the loop.
LEMMA CompileStep ==
  ASSUME CompileInv, Compile
  PROVE  CompileInv'
<1>0. /\ Scanned(pattern, i, literal, ops) /\ compiled \in BOOLEAN /\ formatter = "pattern"
      /\ ~compiled => LastIsNoLiteral(ops)
  BY DEF CompileInv, Compile
<1>1. pattern' = pattern /\ formatter' = formatter /\ Pattern!Compile
  BY DEF Compile, Pattern!Compile
<1>2. pattern \in Seq(Chars) /\ i \in 0..Len(pattern) /\ Len(pattern) \in Nat /\ literal \in Seq(Chars)
      /\ (i < Len(pattern) => ~Intro(pattern, i))
  BY <1>0 DEF Scanned
<1> SUFFICES /\ Scanned(pattern, i', literal', ops') /\ compiled' \in BOOLEAN
             /\ ~compiled' => LastIsNoLiteral(ops')
             /\ compiled' => i' = Len(pattern)
  BY <1>0, <1>1 DEF CompileInv
<1>3. CASE Pattern!ScanChar
  <2>1. /\ ~compiled /\ i < Len(pattern) /\ pattern[i + 1] # "%"
        /\ literal' = literal \o <<pattern[i + 1]>> /\ i' = i + 1 /\ ops' = ops /\ compiled' = compiled
    BY <1>3 DEF Pattern!ScanChar, Pattern!Scanning, Pattern!Ch, Pattern!ToLiteral
  <2>2. ~Intro(pattern, i) /\ ~Intro(pattern, i + 1) /\ i + 1 \in 1..Len(pattern) /\ (i + 1) - 1 = i
    BY <1>2, <2>1, PercentIntroduces
  <2>3. Emit(pattern, i + 1) = <<pattern[i + 1]>>
    BY <1>2, <2>2, EmitCases
  <2>4. Scanned(pattern, i + 1, literal \o Emit(pattern, i + 1), ops)
    BY <1>0, <2>1, <2>2, ScannedOne
  <2> QED BY <1>0, <2>1, <2>3, <2>4
<1>4. CASE Pattern!ScanLonePercent
  <2>1. /\ ~compiled /\ i < Len(pattern) /\ pattern[i + 1] = "%" /\ i + 1 >= Len(pattern)
        /\ literal' = literal \o <<"%">> /\ i' = i + 1 /\ ops' = ops /\ compiled' = compiled
    BY <1>4 DEF Pattern!ScanLonePercent, Pattern!Scanning, Pattern!Ch, Pattern!IsLast, Pattern!ToLiteral
  <2>2. /\ Intro(pattern, i + 1) /\ i + 1 \in 1..Len(pattern) /\ i + 1 = Len(pattern)
        /\ ~(i + 1 < Len(pattern))
    BY <1>2, <2>1, PercentIntroduces
  <2>3. Emit(pattern, i + 1) = <<"%">>
    BY <1>2, <2>2, EmitCases
  <2>4. Scanned(pattern, i + 1, literal \o Emit(pattern, i + 1), ops)
    BY <1>0, <2>1, <2>2, ScannedOne
  <2> QED BY <1>0, <2>1, <2>3, <2>4
<1>5. CASE Pattern!ScanDirective
  <2> DEFINE r == Append(Flush(ops, literal),
                         [type |-> Pattern!Directive[pattern[i + 2]], literal |-> << >>])
  <2>1. /\ ~compiled /\ i < Len(pattern) /\ pattern[i + 1] = "%" /\ ~(i + 1 >= Len(pattern))
        /\ pattern[i + 2] \in DOMAIN Pattern!Directive
        /\ literal' = << >> /\ i' = i + 2 /\ ops' = r /\ compiled' = compiled
    BY <1>5, Zenon DEF Pattern!ScanDirective, Pattern!Scanning, Pattern!Ch, Pattern!IsLast,
                       Pattern!FlushLiteral, Flush
  <2>2. i + 1 < Len(pattern)
    BY <1>2, <2>1
  <2>3. Scanned(pattern, i + 2, << >>, r) /\ LastIsNoLiteral(r)
    BY <1>0, <2>1, <2>2, ScannedDirective, Zenon
  <2> HIDE DEF r
  <2> QED BY <1>0, <2>1, <2>3
<1>6. CASE Pattern!ScanEscaped
  <2>1. /\ ~compiled /\ i < Len(pattern) /\ pattern[i + 1] = "%" /\ ~(i + 1 >= Len(pattern))
        /\ pattern[i + 2] = "%"
        /\ literal' = literal \o <<"%">> /\ i' = i + 2 /\ ops' = ops /\ compiled' = compiled
    BY <1>6 DEF Pattern!ScanEscaped, Pattern!Scanning, Pattern!Ch, Pattern!IsLast, Pattern!ToLiteral
  <2>2. i + 1 < Len(pattern) /\ i + 2 \in 1..Len(pattern) /\ (i + 2) - 1 = i + 1
    BY <1>2, <2>1
  <2>3. Intro(pattern, i + 1)
    BY <1>2, <2>1, PercentIntroduces
  <2>4. Emit(pattern, i + 2) = <<"%">>
    BY <1>2, <2>1, <2>2, <2>3, EmitCases, DirectiveType
  <2>5. Scanned(pattern, i + 2, literal \o Emit(pattern, i + 2), ops)
    BY <1>0, <2>1, <2>2, ScannedTwo
  <2> QED BY <1>0, <2>1, <2>4, <2>5
<1>7. CASE Pattern!ScanUnknown
  <2>1. /\ ~compiled /\ i < Len(pattern) /\ pattern[i + 1] = "%" /\ ~(i + 1 >= Len(pattern))
        /\ pattern[i + 2] \notin DOMAIN Pattern!Directive \cup {"%"}
        /\ literal' = literal \o <<"%", pattern[i + 2]>> /\ i' = i + 2 /\ ops' = ops
        /\ compiled' = compiled
    BY <1>7 DEF Pattern!ScanUnknown, Pattern!Scanning, Pattern!Ch, Pattern!IsLast, Pattern!ToLiteral
  <2>2. i + 1 < Len(pattern) /\ i + 2 \in 1..Len(pattern) /\ (i + 2) - 1 = i + 1
    BY <1>2, <2>1
  <2>3. Intro(pattern, i + 1)
    BY <1>2, <2>1, PercentIntroduces
  <2>4. Emit(pattern, i + 2) = <<"%", pattern[i + 2]>>
    BY <1>2, <2>1, <2>2, <2>3, EmitCases
  <2>5. Scanned(pattern, i + 2, literal \o Emit(pattern, i + 2), ops)
    BY <1>0, <2>1, <2>2, ScannedTwo
  <2> QED BY <1>0, <2>1, <2>4, <2>5
<1>8. CASE Pattern!CompileReturn
  <2>1. /\ ~compiled /\ i = Len(pattern) /\ ops' = Flush(ops, literal) /\ literal' = << >>
        /\ compiled' = TRUE /\ i' = i
    BY <1>8 DEF Pattern!CompileReturn, Pattern!FlushLiteral, Flush
  <2>2. Scanned(pattern, i, << >>, Flush(ops, literal))
    BY <1>0, <2>1, ScannedAll
  <2> QED BY <2>1, <2>2
<1> QED BY <1>1, <1>3, <1>4, <1>5, <1>6, <1>7, <1>8 DEF Pattern!Compile

LEMMA CompileInvNext == CompileInv /\ [Next]_vars => CompileInv'
<1> SUFFICES ASSUME CompileInv, [Next]_vars PROVE CompileInv'
  OBVIOUS
<1>0. ASSUME UNCHANGED <<pattern, formatter, i, literal, ops, compiled>>,
             pc' = "compile" => pc = "compile"
      PROVE  CompileInv'
  BY <1>0 DEF CompileInv
<1>1. CASE Compile
  BY <1>1, CompileStep
<1>2. ASSUME NEW text \in Texts, NEW plain \in BOOLEAN, LogImpl(text, plain)
      PROVE  CompileInv'
  <2>1. UNCHANGED <<pattern, formatter, i, literal, ops, compiled>> /\ pc' = "write"
    BY <1>2 DEF LogImpl, formatterVars
  <2> QED BY <1>0, <2>1
<1>3. CASE Filtered \/ HaveFormatter \/ DoFormat \/ PutLine \/ OtherSinks
  <2>1. UNCHANGED <<pattern, formatter, i, literal, ops, compiled>>
    BY <1>3 DEF Filtered, HaveFormatter, DoFormat, PutLine, OtherSinks, formatterVars
  <2>2. pc' # "compile"
    BY <1>3 DEF Filtered, HaveFormatter, DoFormat, PutLine, OtherSinks
  <2> QED BY <1>0, <2>1, <2>2
<1>4. CASE MakeFormatter
  <2>1. /\ formatter = "none" /\ formatter' = "pattern" /\ pattern' = DefaultPattern
        /\ UNCHANGED <<i, literal, ops, compiled>>
    BY <1>4 DEF MakeFormatter
  <2>2. i = 0 /\ literal = << >> /\ ops = << >> /\ ~compiled /\ compiled \in BOOLEAN
    BY <2>1 DEF CompileInv
  <2>3. Scanned(DefaultPattern, 0, << >>, << >>) /\ LastIsNoLiteral(<< >>)
    BY PatternsType, ScannedNothing
  <2> QED BY <2>1, <2>2, <2>3 DEF CompileInv
<1>5. CASE FormatLine
  <2>1. UNCHANGED <<pattern, formatter, i, literal, ops, compiled, pc>>
    BY <1>5 DEF FormatLine, Pattern!Format, Pattern!compileVars
  <2> QED BY <1>0, <2>1
<1>6. CASE UNCHANGED vars
  <2>1. UNCHANGED <<pattern, formatter, i, literal, ops, compiled, pc>>
    BY <1>6 DEF vars, formatterVars
  <2> QED BY <1>0, <2>1
<1> QED BY <1>1, <1>2, <1>3, <1>4, <1>5, <1>6 DEF Next

LEMMA CompileInvAlways == Spec => []CompileInv
<1> QED BY CompileInvInit, CompileInvNext, PTL DEF Spec

\* Whatever the pattern, at every point of CompilePattern's scan the operations
\* and the pending literal are what the documentation says of the consumed
\* characters, each '%' read once, unless one of the four disputed directives is
\* among them; and no literal is empty or split.
THEOREM PatternCompiledAsMeant == Spec => []CompiledAsMeant
<1>1. CompileInv => CompiledAsMeant
  BY AsMeantDef DEF CompileInv, Scanned, CompiledAsMeant
<1> QED BY <1>1, CompileInvAlways, PTL

-----------------------------------------------------------------------------
(***************************************************************************)
(* The entry, and the formatter at work on it.                             *)
(***************************************************************************)
EntryInv ==
    /\ level \in 0..6 /\ msg_len \in Nat /\ stored \in Nat
    /\ msg \in Seq(Json!Widths) /\ msg_len <= Len(msg)
    /\ key \in Seq(Json!Widths) /\ value \in Seq(Json!Widths)
    /\ fields \in [Pattern!Fields -> Nat]
    /\ literalText \in BOOLEAN /\ (literalText => msg_len = stored)
    /\ pretty \in BOOLEAN /\ enable_color \in BOOLEAN /\ use_color \in BOOLEAN
    /\ formatter \in {"none", "json", "pattern"}
    /\ ended \in BOOLEAN
    /\ pc \in {"format", "line"} => formatter # "none" /\ (formatter = "pattern" => compiled)
    /\ formatter = "pattern" /\ ~compiled => pc = "compile"

\* Fewer characters than a uint16_t counts are counted.
LEMMA LiteralLength ==
  ASSUME NEW n \in Nat
  PROVE  LiteralMsgLen(n) = Stored(n) /\ Stored(n) \in 0..n
<1>1. MaxMsgLen \in Nat \ {0} /\ LenModulus \in Nat \ {0} /\ MaxMsgLen <= LenModulus
  BY LengthsAssumption
<1>2. Stored(n) \in 0..n /\ Stored(n) < LenModulus
  BY <1>1 DEF Stored
<1>3. \A a \in Nat : a < LenModulus => a % LenModulus = a
  BY <1>1
<1> QED BY <1>2, <1>3 DEF LiteralMsgLen, Stored

\* What a reader of entry.msg finds.
LEMMA MessageType ==
  ASSUME NEW T, NEW text \in Seq(T), NEW n \in 0..Len(text), NEW m \in Nat,
         NEW rest \in [1..(m - n) -> T]
  PROVE  SubSeq(text, 1, n) \o rest \in Seq(T) /\ m <= Len(SubSeq(text, 1, n) \o rest)
<1>0. n \in Nat /\ n <= Len(text) /\ Len(text) \in Nat
  OBVIOUS
<1>1. SubSeq(text, 1, n) \in Seq(T) /\ Len(SubSeq(text, 1, n)) = n
  BY <1>0
<1>2. rest \in Seq(T) /\ (m >= n => Len(rest) = m - n) /\ Len(rest) \in Nat
  <2>1. CASE m >= n
    BY <1>0, <2>1
  <2>2. CASE m < n
    <3>1. 1..(m - n) = {}
      BY <1>0, <2>2
    <3>2. rest = << >>
      BY <3>1
    <3>3. ~(m >= n)
      BY <1>0, <2>2
    <3> QED BY <3>2, <3>3
  <2> QED BY <1>0, <2>1, <2>2
<1> DEFINE s == SubSeq(text, 1, n)
<1> HIDE DEF s
<1>3. s \in Seq(T) /\ Len(s) = n
  BY <1>1 DEF s
<1>4. s \o rest \in Seq(T) /\ Len(s \o rest) = n + Len(rest)
  BY <1>2, <1>3, ConcatProperties
<1>5. m <= n + Len(rest)
  BY <1>0, <1>2
<1> QED BY <1>4, <1>5 DEF s

LEMMA EntryInvInit == Init => EntryInv
<1> SUFFICES ASSUME Init PROVE EntryInv
  OBVIOUS
<1>1. level \in 0..6 /\ msg_len \in Nat /\ stored \in Nat /\ msg_len = stored
  BY DEF Init
<1>2. msg \in Seq(Json!Widths) /\ msg_len <= Len(msg) /\ key \in Seq(Json!Widths) /\ value \in Seq(Json!Widths)
  BY DEF Init
<1>3. fields \in [Pattern!Fields -> Nat]
  BY DEF Init
<1>4. literalText \in BOOLEAN /\ ended \in BOOLEAN
  BY DEF Init
<1>5. use_color \in BOOLEAN
  BY DEF Init, UseColor
<1>6. /\ pretty \in BOOLEAN /\ enable_color \in BOOLEAN
      /\ formatter \in {"none", "json", "pattern"}
  BY DEF Init
<1>7. pc \notin {"format", "line"} /\ (formatter = "pattern" => pc = "compile")
  BY DEF Init
<1> QED BY <1>1, <1>2, <1>3, <1>4, <1>5, <1>6, <1>7 DEF EntryInv

LEMMA EntryInvNext == CompileInv /\ EntryInv /\ [Next]_vars => EntryInv'
<1> SUFFICES ASSUME CompileInv, EntryInv, [Next]_vars PROVE EntryInv'
  OBVIOUS
<1> DEFINE Data == /\ level \in 0..6 /\ msg_len \in Nat /\ stored \in Nat
                   /\ msg \in Seq(Json!Widths) /\ msg_len <= Len(msg)
                   /\ key \in Seq(Json!Widths) /\ value \in Seq(Json!Widths)
                   /\ fields \in [Pattern!Fields -> Nat]
                   /\ literalText \in BOOLEAN /\ (literalText => msg_len = stored)
           Sink == /\ pretty \in BOOLEAN /\ enable_color \in BOOLEAN /\ use_color \in BOOLEAN
                   /\ formatter \in {"none", "json", "pattern"} /\ ended \in BOOLEAN
           Ctrl == /\ pc \in {"format", "line"} => formatter # "none" /\ (formatter = "pattern" => compiled)
                   /\ formatter = "pattern" /\ ~compiled => pc = "compile"
<1>0. Data /\ Sink /\ Ctrl
  BY DEF EntryInv
<1> SUFFICES Data' /\ Sink' /\ Ctrl'
  BY DEF EntryInv
<1>a. ASSUME UNCHANGED <<level, msg_len, stored, msg, tagged, key, value, fields, literalText>>
      PROVE  Data'
  BY <1>0, <1>a
<1>b. ASSUME UNCHANGED <<pretty, enable_color, use_color, formatter>>, ended' \in BOOLEAN
      PROVE  Sink'
  BY <1>0, <1>b
<1>1. CASE Compile
  <2>1. /\ UNCHANGED <<level, msg_len, fields, formatter, pretty, tagged, key, value, msg, literalText, stored,
                       use_color, enable_color, ended>>
        /\ pc = "compile" /\ pc' = IF compiled' THEN (IF entries = 0 THEN "idle" ELSE "format") ELSE pc
    BY <1>1 DEF Compile, Pattern!Compile, Pattern!entryVars, Pattern!formatVars, consoleVars
  <2>2. formatter = "pattern"
    BY <2>1 DEF CompileInv
  <2>3. Data' /\ Sink'
    BY <1>0, <1>a, <1>b, <2>1
  <2>4. Ctrl'
    BY <2>1, <2>2
  <2> HIDE DEF Data, Sink, Ctrl
  <2> QED BY <2>3, <2>4
<1>2. ASSUME NEW text \in Texts, NEW plain \in BOOLEAN, LogImpl(text, plain)
      PROVE  Data' /\ Sink' /\ Ctrl'
  <2>1. Ctrl' /\ Sink'
    <3>1. UNCHANGED <<pretty, enable_color, use_color, formatter, ended, compiled>>
          /\ pc = "idle" /\ pc' = "write"
      BY <1>2 DEF LogImpl, formatterVars, lineVars, consoleVars
    <3> QED BY <1>0, <3>1
  <2>2. text \in Seq(Json!Widths) /\ Len(text) \in Nat
    BY TextsAssumption
  <2> DEFINE n == Len(text)
  <2>3. /\ level' \in 0..6 /\ literalText' = plain /\ stored' = Stored(n)
        /\ msg_len' \in IF plain THEN {LiteralMsgLen(n)} ELSE FormattedMsgLens(n)
    BY <1>2, LevelsAssumption DEF LogImpl
  <2>4. key' \in Seq(Json!Widths) /\ value' \in Seq(Json!Widths) /\ fields' \in [Pattern!Fields -> Nat]
    <3>1. PICK c \in Contents : key' = c.key /\ value' = c.value /\ fields' = c.fields
      BY <1>2 DEF LogImpl
    <3> QED BY <3>1, TextsAssumption
  <2>5. LiteralMsgLen(n) = Stored(n) /\ Stored(n) \in 0..n
    BY <2>2, LiteralLength
  <2>6. FormattedMsgLens(n) \subseteq Nat
    BY <2>2, LengthsAssumption DEF FormattedMsgLens
  <2>7. stored' \in 0..n /\ stored' \in Nat /\ msg_len' \in Nat /\ (plain => msg_len' = stored')
    BY <2>2, <2>3, <2>5, <2>6
  <2>8. PICK rest \in [1..(msg_len' - stored') -> Json!Widths] : msg' = SubSeq(text, 1, stored') \o rest
    BY <1>2 DEF LogImpl
  <2>9. msg' \in Seq(Json!Widths) /\ msg_len' <= Len(msg')
    BY <2>2, <2>7, <2>8, MessageType
  <2>10. Data'
    BY <1>2, <2>3, <2>4, <2>7, <2>9
  <2> HIDE DEF Data, Sink, Ctrl
  <2> QED BY <2>1, <2>10
<1>3. CASE Filtered \/ HaveFormatter \/ DoFormat \/ PutLine \/ OtherSinks
  <2>1. /\ UNCHANGED <<level, msg_len, stored, msg, tagged, key, value, fields, literalText>>
        /\ UNCHANGED <<pretty, enable_color, use_color, formatter, compiled>>
    BY <1>3 DEF Filtered, HaveFormatter, DoFormat, PutLine, OtherSinks, formatterVars, entryVars, consoleVars
  <2>2. ended' \in BOOLEAN
    BY <1>0, <1>3 DEF Filtered, HaveFormatter, DoFormat, PutLine, OtherSinks, lineVars
  <2>3. Data' /\ Sink'
    BY <1>a, <1>b, <2>1, <2>2
  <2>4. pc # "compile" /\ pc' # "compile" /\ (pc' = "format" => formatter # "none") /\ (pc' = "line" => pc = "format")
    BY <1>3 DEF Filtered, HaveFormatter, DoFormat, PutLine, OtherSinks
  <2>5. Ctrl'
    BY <1>0, <2>1, <2>4
  <2> HIDE DEF Data, Sink, Ctrl
  <2> QED BY <2>3, <2>5
<1>4. CASE MakeFormatter
  <2>1. /\ UNCHANGED <<level, msg_len, stored, msg, tagged, key, value, fields, literalText>>
        /\ UNCHANGED <<pretty, use_color, ended>> /\ enable_color' = use_color
        /\ formatter' = "pattern" /\ pc' = "compile"
    BY <1>4 DEF MakeFormatter, entryVars, consoleVars, lineVars
  <2>2. Data'
    BY <1>a, <2>1
  <2>3. Sink' /\ Ctrl'
    BY <1>0, <2>1
  <2> HIDE DEF Data, Sink, Ctrl
  <2> QED BY <2>2, <2>3
<1>5. CASE FormatLine
  <2>1. /\ UNCHANGED <<level, msg_len, stored, msg, tagged, key, value, fields, literalText>>
        /\ UNCHANGED <<pretty, enable_color, use_color, formatter, compiled, pc>>
    BY <1>5 DEF FormatLine, Pattern!Format, Json!Format, Pattern!compileVars, Pattern!entryVars, consoleVars
  <2>2. ended' = ended \/ ended' = TRUE
    BY <1>5 DEF FormatLine, Pattern!Format, Json!Format, Pattern!AppendOp, Pattern!FormatReturn,
                Json!AppendLiteral, Json!AppendEscaped, Json!Terminate
  <2>3. Data' /\ Sink'
    BY <1>0, <1>a, <1>b, <2>1, <2>2
  <2>4. Ctrl'
    BY <1>0, <2>1
  <2> HIDE DEF Data, Sink, Ctrl
  <2> QED BY <2>3, <2>4
<1>6. CASE UNCHANGED vars
  <2>1. /\ UNCHANGED <<level, msg_len, stored, msg, tagged, key, value, fields, literalText>>
        /\ UNCHANGED <<pretty, enable_color, use_color, formatter, compiled, pc, ended>>
    BY <1>6 DEF vars, formatterVars, entryVars, consoleVars, lineVars
  <2>3. Data' /\ Sink'
    BY <1>0, <1>a, <1>b, <2>1
  <2>4. Ctrl'
    BY <1>0, <2>1
  <2> HIDE DEF Data, Sink, Ctrl
  <2> QED BY <2>3, <2>4
<1> HIDE DEF Data, Sink, Ctrl
<1> QED BY <1>1, <1>2, <1>3, <1>4, <1>5, <1>6 DEF Next

-----------------------------------------------------------------------------
(***************************************************************************)
(* JsonFormatter::Format.                                                  *)
(***************************************************************************)
\* Of each piece, the kept count that makes it whole, and its bytes.
WholeCount ==
    <<Json!LiteralLen["lead"], Len(key), Json!LiteralLen["colon"], Len(value),
      Json!LiteralLen["middle"], msg_len, Json!LiteralLen["close"]>>
PieceBytes ==
    <<Json!LiteralLen["lead"], Json!Width(key), Json!LiteralLen["colon"], Json!Width(value),
      Json!LiteralLen["middle"], Json!Width(SubSeq(msg, 1, msg_len)), Json!LiteralLen["close"]>>

LEMMA WidthsAreNumbers == Json!Widths \subseteq Nat /\ \A c \in Json!Widths : c >= 1 /\ c <= 6
BY DEF Json!Widths

LEMMA WidthType ==
  ASSUME NEW t \in Seq(Json!Widths)
  PROVE  t \in Seq(Nat) /\ Json!Width(t) \in Nat
<1>1. t \in Seq(Nat)
  <2>1. \A j \in 1..Len(t) : t[j] \in Json!Widths
    OBVIOUS
  <2>2. \A j \in 1..Len(t) : t[j] \in Nat
    BY <2>1, WidthsAreNumbers
  <2> QED BY <2>2, SeqOver
<1>2. Json!RunningWidth(t) \in [0..Len(t) -> Nat] /\ Len(t) \in Nat
  BY <1>1, RunningWidthDef
<1> QED BY <1>1, <1>2 DEF Json!Width

\* The literals have their lengths, pretty or not.
LEMMA LiteralLenType ==
  ASSUME pretty \in BOOLEAN
  PROVE  /\ Json!LiteralLen["lead"] = LeadLen
         /\ Json!LiteralLen["colon"] \in 0..4 /\ Json!LiteralLen["middle"] \in 9..14
         /\ Json!LiteralLen["close"] \in 2..3
         /\ DOMAIN Json!LiteralLen = {"lead", "colon", "middle", "close"}
<1>1. CASE pretty = TRUE
  BY <1>1 DEF Json!LiteralLen
<1>2. CASE pretty = FALSE
  BY <1>2 DEF Json!LiteralLen
<1> QED BY <1>1, <1>2

LEMMA PiecesType ==
  ASSUME EntryInv
  PROVE  /\ WholeCount \in Seq(Nat) /\ Len(WholeCount) = 7
         /\ PieceBytes \in Seq(Nat) /\ Len(PieceBytes) = 7
         /\ SubSeq(msg, 1, msg_len) \in Seq(Json!Widths) /\ Len(SubSeq(msg, 1, msg_len)) = msg_len
<1>1. pretty \in BOOLEAN /\ key \in Seq(Json!Widths) /\ value \in Seq(Json!Widths) /\ msg_len \in Nat
      /\ msg \in Seq(Json!Widths) /\ msg_len <= Len(msg) /\ Len(msg) \in Nat
  BY DEF EntryInv
<1>2. SubSeq(msg, 1, msg_len) \in Seq(Json!Widths) /\ Len(SubSeq(msg, 1, msg_len)) = msg_len
  BY <1>1
<1>3. /\ Json!LiteralLen["lead"] \in Nat /\ Json!LiteralLen["colon"] \in Nat
      /\ Json!LiteralLen["middle"] \in Nat /\ Json!LiteralLen["close"] \in Nat
  BY <1>1, LiteralLenType, LeadAssumption
<1>4. Len(key) \in Nat /\ Len(value) \in Nat
  BY <1>1
<1>5. /\ Json!Width(key) \in Nat /\ Json!Width(value) \in Nat
      /\ Json!Width(SubSeq(msg, 1, msg_len)) \in Nat
  BY <1>1, <1>2, WidthType
<1>6. WholeCount \in Seq(Nat) /\ Len(WholeCount) = 7
  BY <1>1, <1>3, <1>4 DEF WholeCount
<1>7. PieceBytes \in Seq(Nat) /\ Len(PieceBytes) = 7
  BY <1>3, <1>5 DEF PieceBytes
<1> QED BY <1>2, <1>6, <1>7

\* Literals and escaped texts take turns.
LEMMA LayoutPieces ==
  ASSUME EntryInv, NEW k \in 1..7
  PROVE  /\ Len(Json!Layout) = 7
         /\ Json!Layout[k] \in DOMAIN Json!LiteralLen <=> k \in {1, 3, 5, 7}
         /\ Json!Layout[k] \in DOMAIN Json!Escaped <=> k \in {2, 4, 6}
         /\ k \in {1, 3, 5, 7} =>
              Json!LiteralLen[Json!Layout[k]] = WholeCount[k] /\ WholeCount[k] = PieceBytes[k]
         /\ k \in {2, 4, 6} =>
              /\ Json!Escaped[Json!Layout[k]] \in Seq(Json!Widths)
              /\ Len(Json!Escaped[Json!Layout[k]]) = WholeCount[k]
              /\ Json!Width(Json!Escaped[Json!Layout[k]]) = PieceBytes[k]
         /\ Json!Layout[k] = "msg" <=> k = 6
<1>0. pretty \in BOOLEAN /\ key \in Seq(Json!Widths) /\ value \in Seq(Json!Widths)
  BY DEF EntryInv
<1>1. DOMAIN Json!LiteralLen = {"lead", "colon", "middle", "close"}
  BY <1>0, LiteralLenType
<1>2. DOMAIN Json!Escaped = {"key", "value", "msg"}
  BY DEF Json!Escaped
<1>3. SubSeq(msg, 1, msg_len) \in Seq(Json!Widths) /\ Len(SubSeq(msg, 1, msg_len)) = msg_len
  BY PiecesType
<1>4. /\ Json!Escaped["key"] = key /\ Json!Escaped["value"] = value
      /\ Json!Escaped["msg"] = SubSeq(msg, 1, msg_len)
  BY DEF Json!Escaped
<1>5. /\ Len(Json!Layout) = 7 /\ Json!Layout[1] = "lead" /\ Json!Layout[2] = "key"
      /\ Json!Layout[3] = "colon" /\ Json!Layout[4] = "value" /\ Json!Layout[5] = "middle"
      /\ Json!Layout[6] = "msg" /\ Json!Layout[7] = "close"
  BY DEF Json!Layout
<1>6. /\ WholeCount[1] = Json!LiteralLen["lead"] /\ WholeCount[2] = Len(key)
      /\ WholeCount[3] = Json!LiteralLen["colon"] /\ WholeCount[4] = Len(value)
      /\ WholeCount[5] = Json!LiteralLen["middle"] /\ WholeCount[6] = msg_len
      /\ WholeCount[7] = Json!LiteralLen["close"]
  BY DEF WholeCount
<1>7. /\ PieceBytes[1] = Json!LiteralLen["lead"] /\ PieceBytes[2] = Json!Width(key)
      /\ PieceBytes[3] = Json!LiteralLen["colon"] /\ PieceBytes[4] = Json!Width(value)
      /\ PieceBytes[5] = Json!LiteralLen["middle"]
      /\ PieceBytes[6] = Json!Width(SubSeq(msg, 1, msg_len))
      /\ PieceBytes[7] = Json!LiteralLen["close"]
  BY DEF PieceBytes
<1>8. k \in {1, 2, 3, 4, 5, 6, 7}
  OBVIOUS
<1>9. CASE k = 1
  BY <1>1, <1>2, <1>5, <1>6, <1>7, <1>9
<1>10. CASE k = 2
  BY <1>0, <1>1, <1>2, <1>4, <1>5, <1>6, <1>7, <1>10
<1>11. CASE k = 3
  BY <1>1, <1>2, <1>5, <1>6, <1>7, <1>11
<1>12. CASE k = 4
  BY <1>0, <1>1, <1>2, <1>4, <1>5, <1>6, <1>7, <1>12
<1>13. CASE k = 5
  BY <1>1, <1>2, <1>5, <1>6, <1>7, <1>13
<1>14. CASE k = 6
  <2> DEFINE m == SubSeq(msg, 1, msg_len)
  <2>1. /\ m \in Seq(Json!Widths) /\ Len(m) = msg_len /\ Json!Escaped["msg"] = m
        /\ PieceBytes[6] = Json!Width(m)
    BY <1>3, <1>4, <1>7
  <2> HIDE DEF m
  <2> QED BY <1>1, <1>2, <1>5, <1>6, <1>14, <2>1
<1>15. CASE k = 7
  BY <1>1, <1>2, <1>5, <1>6, <1>7, <1>15
<1> QED BY <1>8, <1>9, <1>10, <1>11, <1>12, <1>13, <1>14, <1>15

\* A bounded set of numbers that is not empty has a greatest one.
LEMMA GreatestExists ==
  ASSUME NEW n \in Nat, NEW S \in SUBSET (0..n), S # {}
  PROVE  /\ Json!Max(S) \in S /\ \A y \in S : y <= Json!Max(S)
         /\ Max(S) \in S /\ \A y \in S : y <= Max(S)
<1> DEFINE T == {n - y : y \in S}
<1>1. T \in SUBSET Nat /\ T # {}
  <2>1. \A y \in S : n - y \in Nat
    OBVIOUS
  <2>2. PICK y \in S : TRUE
    OBVIOUS
  <2>3. n - y \in T
    OBVIOUS
  <2>4. ASSUME NEW z \in T PROVE z \in Nat
    BY <2>1
  <2> QED BY <2>3, <2>4
<1>2. PICK z \in T : \A y \in T : z <= y
  <2> HIDE DEF T
  <2> QED BY <1>1, LeastExists
<1>3. PICK x \in S : z = n - x
  OBVIOUS
<1>4. ASSUME NEW y \in S PROVE x >= y
  <2>1. n - y \in T
    OBVIOUS
  <2>2. n - x <= n - y
    BY <1>2, <1>3, <2>1
  <2> QED BY <2>2
<1>5. \E g \in S : \A y \in S : g >= y
  BY <1>4
<1>6. Json!Max(S) \in S /\ \A y \in S : Json!Max(S) >= y
  BY <1>5 DEF Json!Max
<1>7. Max(S) \in S /\ \A y \in S : Max(S) >= y
  BY <1>5 DEF Max
<1>8. ASSUME NEW y \in S PROVE y <= Json!Max(S) /\ y <= Max(S)
  <2>1. \A x1 \in S : x1 \in Int
    OBVIOUS
  <2> DEFINE m1 == Json!Max(S)
             m2 == Max(S)
  <2>2. m1 >= y /\ m2 >= y /\ m1 \in Int /\ m2 \in Int /\ y \in Int
    BY <1>6, <1>7, <2>1, Zenon
  <2> HIDE DEF m1, m2
  <2>3. y <= m1 /\ y <= m2
    BY <2>2
  <2> QED BY <2>3 DEF m1, m2
<1> QED BY <1>6, <1>7, <1>8

\* What is known of a JSON line in a buffer of b bytes: count and due are
\* WholeCount and the running sums of PieceBytes, p bytes are written, kp was
\* kept.  A piece in front of the message that was cut leaves less room than
\* an escape takes, and none once `"},"msg":"` was tried.
JsonLine(count, due, b, p, kp) ==
    /\ kp \in Seq(Nat) /\ Len(kp) <= 7 /\ p \in Nat /\ p <= b - 1
    /\ due[7] < b => p = due[Len(kp)] /\ \A k \in 1..Len(kp) : kp[k] = count[k]
    /\ (\E k \in 1..Len(kp) : k <= 5 /\ kp[k] # count[k]) =>
          b - 1 - p <= 5 /\ (Len(kp) >= 5 => p = b - 1)
    /\ Len(kp) = 7 /\ kp[7] = count[7] => \A k \in 1..5 : kp[k] = count[k]
    /\ Len(kp) >= 6 => kp[6] <= count[6]

\* Of piece k, with count c and d bytes, n are kept and the buffer is filled
\* from p up to q.  An escaped text stops less than an escape from the end.
Copied(k, c, d, b, p, q, n) ==
    /\ n \in Nat /\ q \in Nat /\ n <= c /\ p <= q /\ q <= b - 1
    /\ d <= b - 1 - p => q = p + d /\ n = c
    /\ n # c => b - 1 - q <= 5
    /\ k \in {1, 3, 5, 7} => IF n = c THEN q = p + n ELSE q = b - 1

\* The counts and running sums of a line.
LineOf(count, due) ==
    /\ count \in [1..7 -> Nat] /\ count[5] >= 9 /\ count[7] >= 2
    /\ due \in [0..7 -> Nat] /\ due[0] = 0
    /\ \A k \in 1..7 : due[k - 1] <= due[k] /\ due[k] <= due[7]

LEMMA JsonLineStep ==
  ASSUME NEW count, NEW due, LineOf(count, due), NEW b \in Nat, NEW p, NEW kp,
         JsonLine(count, due, b, p, kp), NEW j \in 0..6, Len(kp) = j,
         NEW n, NEW q, NEW k1, k1 = j + 1, NEW c, c = count[k1], NEW d, d = due[k1] - due[j],
         Copied(k1, c, d, b, p, q, n)
  PROVE  JsonLine(count, due, b, q, Append(kp, n))
<1> DEFINE r == Append(kp, n)
<1>0. /\ kp \in Seq(Nat) /\ p \in Nat /\ p <= b - 1
      /\ due[7] < b => p = due[j] /\ \A k \in 1..j : kp[k] = count[k]
      /\ (\E k \in 1..j : k <= 5 /\ kp[k] # count[k]) => b - 1 - p <= 5 /\ (j >= 5 => p = b - 1)
      /\ j >= 6 => kp[6] <= count[6]
  BY DEF JsonLine
<1>a. n \in Nat
  BY DEF Copied
<1>1. r \in Seq(Nat) /\ Len(r) = j + 1 /\ r[j + 1] = n /\ (\A k \in 1..j : r[k] = kp[k])
  BY <1>0, <1>a
<1>2. k1 \in 1..7 /\ j \in 0..7 /\ k1 \in 0..7 /\ 7 \in 0..7 /\ k1 - 1 = j
  OBVIOUS
<1>3. due[j] \in Nat /\ due[k1] \in Nat /\ due[7] \in Nat /\ c \in Nat /\ due[k1] <= due[7] /\ due[j] <= due[k1]
  BY <1>2 DEF LineOf
<1>4. /\ n <= c
      /\ q \in Nat /\ p <= q /\ q <= b - 1
      /\ d <= b - 1 - p => q = p + d /\ n = c
      /\ n # c => b - 1 - q <= 5
      /\ k1 \in {5, 7} => (n = c => q = p + n) /\ (n # c => q = b - 1)
  BY DEF Copied
<1> HIDE DEF r
<1>5. due[7] < b => q = due[j + 1] /\ \A k \in 1..(j + 1) : r[k] = count[k]
  <2> SUFFICES ASSUME due[7] < b PROVE q = due[j + 1] /\ \A k \in 1..(j + 1) : r[k] = count[k]
    OBVIOUS
  <2> DEFINE x == due[j]
             y == due[k1]
             z == due[7]
  <2>1. p = x /\ (\A k \in 1..j : kp[k] = count[k])
    BY <1>0
  <2>a. x \in Nat /\ y \in Nat /\ z \in Nat /\ x <= y /\ y <= z /\ z < b /\ d = y - x
    BY <1>3
  <2>b. q = y /\ n = c
    <3> HIDE DEF x, y, z
    <3>1. d <= b - 1 - p
      BY <2>1, <2>a
    <3> QED BY <1>4, <2>1, <2>a, <3>1
  <2>2. q = due[j + 1] /\ n = count[j + 1]
    BY <2>b
  <2>3. ASSUME NEW k \in 1..(j + 1) PROVE r[k] = count[k]
    BY <1>1, <2>1, <2>2, <2>3
  <2> QED BY <2>2, <2>3
<1>6. ASSUME NEW k \in 1..(j + 1), k <= 5, r[k] # count[k]
      PROVE  b - 1 - q <= 5 /\ (j + 1 >= 5 => q = b - 1)
  <2>1. CASE k = j + 1
    <3>1. n # count[j + 1] /\ b - 1 - q <= 5
      BY <1>1, <1>4, <1>6, <2>1
    <3>2. j + 1 >= 5 => j + 1 \in {5, 7}
      BY <1>1, <1>6, <2>1
    <3> QED BY <1>4, <3>1, <3>2
  <2>2. CASE k # j + 1
    <3>1. k \in 1..j /\ kp[k] # count[k]
      BY <1>1, <1>6, <2>2
    <3>2. b - 1 - p <= 5 /\ (j >= 5 => p = b - 1)
      BY <1>0, <1>6, <3>1
    <3>a. p \in Nat
      BY <1>0
    <3>3. b - 1 - q <= 5
      BY <1>4, <3>a, <3>2
    <3>4. CASE j >= 5
      BY <1>4, <3>a, <3>2, <3>3, <3>4
    <3>5. CASE j = 4
      <4>1. count[5] \in Nat /\ count[5] >= 9
        BY DEF LineOf
      <4>2. k1 = 5 /\ c = count[5]
        BY <3>5
      <4>3. n # c
        BY <1>a, <1>4, <3>a, <3>2, <4>1, <4>2
      <4> QED BY <1>4, <3>3, <3>5, <4>2, <4>3
    <3>6. CASE j < 4
      BY <1>1, <3>3, <3>6
    <3> QED BY <1>1, <3>4, <3>5, <3>6
  <2> QED BY <2>1, <2>2
<1>7. ASSUME j + 1 = 7, r[7] = count[7], NEW k \in 1..5 PROVE r[k] = count[k]
  <2> SUFFICES ASSUME r[k] # count[k] PROVE FALSE
    OBVIOUS
  <2>1. j = 6 /\ k \in 1..j /\ k <= 5 /\ kp[k] # count[k] /\ n = count[7]
    BY <1>1, <1>7
  <2>2. p = b - 1
    BY <1>0, <2>1
  <2>3. k1 = 7 /\ c = n /\ n >= 2
    BY <2>1 DEF LineOf
  <2>4. q = p + n /\ q <= b - 1
    BY <1>4, <2>3
  <2>5. p \in Nat
    BY <1>0
  <2> QED BY <1>a, <2>2, <2>3, <2>4, <2>5
<1>8. j + 1 >= 6 => r[6] <= count[6]
  <2>1. CASE j = 5
    BY <1>1, <1>4, <2>1
  <2>2. CASE j = 6
    BY <1>0, <1>1, <2>2
  <2>3. CASE j < 5
    BY <1>1, <2>3
  <2> QED BY <1>1, <2>1, <2>2, <2>3
<1>9. Len(r) <= 7
  BY <1>1
<1>10. \A k \in 1..5 : j + 1 = 7 /\ r[7] = count[7] => r[k] = count[k]
  BY <1>7
<1>11. (\E k \in 1..(j + 1) : k <= 5 /\ r[k] # count[k]) =>
          b - 1 - q <= 5 /\ (j + 1 >= 5 => q = b - 1)
  BY <1>6
<1>12. JsonLine(count, due, b, q, r)
  BY <1>1, <1>4, <1>5, <1>8, <1>9, <1>10, <1>11 DEF JsonLine
<1> QED BY <1>12 DEF r

\* Up to which character an escaped text is copied.
LEMMA EscapeEffect ==
  ASSUME NEW t \in Seq(Json!Widths), pos \in Nat, buf_size \in Nat, pos <= buf_size - 1
  PROVE  LET n == Json!EscapeJsonString(t)
             w == Json!RunningWidth(t)
         IN  /\ n \in 0..Len(t) /\ w[n] \in Nat /\ w[n] <= buf_size - 1 - pos
             /\ Json!Width(t) <= buf_size - 1 - pos => n = Len(t)
             /\ n # Len(t) => buf_size - 1 - (pos + w[n]) <= 5
<1> DEFINE n == Json!EscapeJsonString(t)
           w == Json!RunningWidth(t)
           room == buf_size - 1 - pos
           S == {k \in 0..Len(t) : w[k] <= room}
<1>0. Len(t) \in Nat /\ t \in Seq(Nat) /\ Json!Room = room /\ room \in Nat
  <2>1. t \in Seq(Nat)
    BY WidthType
  <2>2. Json!Room = room /\ room \in Nat
    BY DEF Json!Room
  <2> QED BY <2>1, <2>2
<1>1. w \in [0..Len(t) -> Nat] /\ w[0] = 0 /\ \A k \in 1..Len(t) : w[k] = w[k - 1] + t[k]
  BY <1>0, RunningWidthDef
<1>2. n = Json!Max(S) /\ Json!Width(t) = w[Len(t)]
  BY <1>0 DEF Json!EscapeJsonString, Json!Width
<1>3. \A k \in 1..Len(t) : t[k] \in Nat /\ t[k] <= 6
  <2>1. \A k \in 1..Len(t) : t[k] \in Json!Widths
    OBVIOUS
  <2> QED BY <2>1, WidthsAreNumbers
<1> HIDE DEF w, room, n
<1>4. S \in SUBSET (0..Len(t)) /\ 0 \in S
  BY <1>0, <1>1
<1>5. n \in S /\ \A y \in S : y <= n
  <2> HIDE DEF S
  <2>1. S # {}
    BY <1>4
  <2> QED BY <1>0, <1>2, <1>4, <2>1, GreatestExists
<1>6. n \in 0..Len(t) /\ w[n] \in Nat /\ w[n] <= room
  BY <1>1, <1>5
<1>7. Json!Width(t) <= room => n = Len(t)
  <2> SUFFICES ASSUME w[Len(t)] <= room PROVE n = Len(t)
    BY <1>2
  <2>1. Len(t) \in S
    BY <1>0
  <2> QED BY <1>0, <1>5, <1>6, <2>1
<1>8. n # Len(t) => room - w[n] <= 5
  <2> SUFFICES ASSUME n # Len(t) PROVE room - w[n] <= 5
    OBVIOUS
  <2>1. n + 1 \in 1..Len(t) /\ (n + 1) - 1 = n /\ n + 1 \in 0..Len(t)
    BY <1>0, <1>6
  <2>2. n + 1 \notin S
    BY <1>5, <1>6
  <2>3. w[n + 1] > room /\ w[n + 1] \in Nat
    BY <1>0, <1>1, <2>1, <2>2
  <2>4. w[n + 1] = w[n] + t[n + 1] /\ t[n + 1] \in Nat /\ t[n + 1] <= 6
    BY <1>1, <1>3, <2>1
  <2> QED BY <1>0, <1>6, <2>3, <2>4
<1>9. n # Len(t) => buf_size - 1 - (pos + w[n]) <= 5
  BY <1>6, <1>8 DEF room
<1> QED BY <1>6, <1>7, <1>9 DEF room, n, w

\* The bytes due up to each piece.
JsonDue == Json!RunningWidth(PieceBytes)

LEMMA SeqIsFunction ==
  ASSUME NEW S, NEW s \in Seq(S), NEW n, Len(s) = n
  PROVE  s \in [1..n -> S] /\ \A k \in 1..n : s[k] \in S
OBVIOUS

LEMMA JsonLineOf ==
  ASSUME EntryInv
  PROVE  /\ LineOf(WholeCount, JsonDue)
         /\ \A k \in 1..7 : JsonDue[k] - JsonDue[k - 1] = PieceBytes[k]
         /\ JsonDue[7] = Json!TotalLen
<1> DEFINE w == JsonDue
           b == PieceBytes
<1>1. /\ WholeCount \in Seq(Nat) /\ Len(WholeCount) = 7 /\ b \in Seq(Nat) /\ Len(b) = 7
  BY PiecesType
<1>2. \A k \in 1..7 : b[k] \in Nat
  <2> HIDE DEF b
  <2> QED BY <1>1, SeqIsFunction
<1>3. w \in [0..7 -> Nat] /\ w[0] = 0 /\ \A k \in 1..7 : w[k] = w[k - 1] + b[k]
  <2> HIDE DEF b
  <2> QED BY <1>1, RunningWidthDef DEF JsonDue, b
<1>4. ASSUME NEW k \in 1..7 PROVE w[k] <= w[7]
  <2> HIDE DEF b
  <2>1. k \in 0..Len(b) /\ 7 \in 0..Len(b) /\ k <= 7
    BY <1>1
  <2> QED BY <1>1, <2>1, RunningWidthGrows DEF JsonDue, b
<1>5. WholeCount \in [1..7 -> Nat]
  BY <1>1, SeqIsFunction
<1>6. WholeCount[5] >= 9 /\ WholeCount[7] >= 2
  <2>1. pretty \in BOOLEAN
    BY DEF EntryInv
  <2>2. Json!LiteralLen["middle"] \in 9..14 /\ Json!LiteralLen["close"] \in 2..3
    BY <2>1, LiteralLenType
  <2>3. WholeCount[5] = Json!LiteralLen["middle"] /\ WholeCount[7] = Json!LiteralLen["close"]
    BY DEF WholeCount
  <2> QED BY <2>2, <2>3
<1> HIDE DEF w, b
<1>7. \A k \in 1..7 : w[k] \in Nat /\ w[k - 1] \in Nat
  <2>1. \A k \in 1..7 : k \in 0..7 /\ k - 1 \in 0..7
    OBVIOUS
  <2> QED BY <1>3, <2>1
<1>8. \A k \in 1..7 : w[k - 1] <= w[k] /\ w[k] - w[k - 1] = b[k]
  BY <1>2, <1>3, <1>7
<1>9. LineOf(WholeCount, w)
  BY <1>3, <1>4, <1>5, <1>6, <1>8 DEF LineOf
<1>10. w[7] = b[1] + b[2] + b[3] + b[4] + b[5] + b[6] + b[7]
  <2>1. /\ w[1] = w[0] + b[1] /\ w[2] = w[1] + b[2] /\ w[3] = w[2] + b[3] /\ w[4] = w[3] + b[4]
        /\ w[5] = w[4] + b[5] /\ w[6] = w[5] + b[6] /\ w[7] = w[6] + b[7]
    <3>1. \A k \in 1..7 : w[k] = w[k - 1] + b[k]
      BY <1>3
    <3> QED BY <3>1
  <2>2. /\ b[1] \in Nat /\ b[2] \in Nat /\ b[3] \in Nat /\ b[4] \in Nat /\ b[5] \in Nat /\ b[6] \in Nat
        /\ b[7] \in Nat
    BY <1>2
  <2>3. w[0] = 0
    BY <1>3
  <2> QED BY <2>1, <2>2, <2>3
<1>11. Json!TotalLen = b[1] + b[3] + b[5] + b[7] + b[2] + b[4] + b[6]
  <2>1. /\ b[1] = Json!LiteralLen["lead"] /\ b[2] = Json!Width(key)
        /\ b[3] = Json!LiteralLen["colon"] /\ b[4] = Json!Width(value)
        /\ b[5] = Json!LiteralLen["middle"] /\ b[6] = Json!Width(SubSeq(msg, 1, msg_len))
        /\ b[7] = Json!LiteralLen["close"]
    BY DEF PieceBytes, b
  <2>2. /\ Json!Escaped["key"] = key /\ Json!Escaped["value"] = value
        /\ Json!Escaped["msg"] = SubSeq(msg, 1, msg_len)
    BY DEF Json!Escaped
  <2> QED BY <2>1, <2>2, Zenon DEF Json!TotalLen
<1>12. w[7] = Json!TotalLen
  <2>1. b[1] \in Nat /\ b[2] \in Nat /\ b[3] \in Nat /\ b[4] \in Nat /\ b[5] \in Nat /\ b[6] \in Nat
        /\ b[7] \in Nat
    BY <1>2
  <2> QED BY <1>10, <1>11, <2>1
<1> QED BY <1>8, <1>9, <1>12 DEF w, b

LEMMA JsonPiece ==
  ASSUME EntryInv, buf_size \in Nat, pos \in Nat, pos <= buf_size - 1, NEW j \in 0..6,
         Len(kept) = j, NEW k1, k1 = j + 1, Json!AppendLiteral \/ Json!AppendEscaped
  PROVE  \E n : \E q : /\ kept' = Append(kept, n) /\ pos' = q
                       /\ Copied(k1, WholeCount[k1], PieceBytes[k1], buf_size, pos, q, n)
<1>0. k1 \in 1..7
  OBVIOUS
<1>1. Json!Piece = Json!Layout[k1]
  BY DEF Json!Piece
<1>2. WholeCount[k1] \in Nat /\ PieceBytes[k1] \in Nat
  BY <1>0, PiecesType, SeqIsFunction
<1> DEFINE c == WholeCount[k1]
           d == PieceBytes[k1]
<1>3. CASE Json!AppendLiteral
  <2>1. Json!Layout[k1] \in DOMAIN Json!LiteralLen
    BY <1>1, <1>3 DEF Json!AppendLiteral
  <2>2. k1 \in {1, 3, 5, 7} /\ Json!LiteralLen[Json!Layout[k1]] = c /\ c = d
    BY <1>0, <2>1, LayoutPieces
  <2> DEFINE n == Json!SafeAppend(c)
  <2>3. kept' = Append(kept, n) /\ pos' = pos + n
    BY <1>1, <1>3, <2>2 DEF Json!AppendLiteral
  <2>4. c \in Nat
    BY <1>2
  <2> HIDE DEF c, d
  <2>5. n = IF c < buf_size - 1 - pos THEN c ELSE buf_size - 1 - pos
    BY <2>4 DEF Json!SafeAppend, Json!Room
  <2> HIDE DEF n
  <2>6. Copied(k1, c, d, buf_size, pos, pos + n, n)
    BY <2>2, <2>4, <2>5 DEF Copied
  <2> QED BY <2>3, <2>6 DEF c, d
<1>4. CASE Json!AppendEscaped
  <2>1. Json!Layout[k1] \in DOMAIN Json!Escaped
    BY <1>1, <1>4 DEF Json!AppendEscaped
  <2> DEFINE t == Json!Escaped[Json!Layout[k1]]
             n == Json!EscapeJsonString(t)
             x == Json!RunningWidth(t)[n]
  <2>2. k1 \in {2, 4, 6} /\ t \in Seq(Json!Widths) /\ Len(t) = c /\ Json!Width(t) = d
    BY <1>0, <2>1, LayoutPieces
  <2>3. kept' = Append(kept, n) /\ pos' = pos + x
    BY <1>1, <1>4 DEF Json!AppendEscaped
  <2>4. c \in Nat /\ d \in Nat
    BY <1>2
  <2> HIDE DEF c, d, t
  <2>5. /\ n \in 0..c /\ x \in Nat /\ x <= buf_size - 1 - pos
        /\ d <= buf_size - 1 - pos => n = c
        /\ n # c => buf_size - 1 - (pos + x) <= 5
    BY <2>2, EscapeEffect
  <2>6. n = c => x = d
    BY <2>2 DEF Json!Width
  <2> HIDE DEF n, x
  <2>7. Copied(k1, c, d, buf_size, pos, pos + x, n)
    <3>1. ~(k1 \in {1, 3, 5, 7})
      BY <2>2
    <3>2. n \in Nat /\ n <= c /\ pos + x \in Nat /\ pos <= pos + x /\ pos + x <= buf_size - 1
      BY <2>4, <2>5
    <3> QED BY <2>4, <2>5, <2>6, <3>1, <3>2 DEF Copied
  <2> QED BY <2>3, <2>7 DEF c, d
<1> QED BY <1>3, <1>4

LEMMA JsonFormatStep ==
  ASSUME EntryInv, buf_size \in Nat, JsonLine(WholeCount, JsonDue, buf_size, pos, kept), Json!Format
  PROVE  JsonLine(WholeCount, JsonDue, buf_size, pos', kept') /\ (ended' => Len(kept') = 7)
<1>0. kept \in Seq(Nat) /\ Len(kept) <= 7 /\ pos \in Nat /\ pos <= buf_size - 1 /\ Len(kept) \in Nat
  BY DEF JsonLine
<1>a. Len(Json!Layout) = 7
  BY DEF Json!Layout
<1>1. CASE Json!AppendLiteral \/ Json!AppendEscaped
  <2>1. ~ended /\ ended' = ended /\ Len(kept) < 7
    BY <1>1, <1>a DEF Json!AppendLiteral, Json!AppendEscaped
  <2> DEFINE j == Len(kept)
             k1 == j + 1
  <2>2. j \in 0..6 /\ k1 \in 1..7 /\ k1 - 1 = j
    <3>1. j \in Nat /\ j < 7
      BY <1>0, <2>1
    <3> HIDE DEF j
    <3> QED BY <3>1
  <2>3. PICK n : \E q : /\ kept' = Append(kept, n) /\ pos' = q
                        /\ Copied(k1, WholeCount[k1], PieceBytes[k1], buf_size, pos, q, n)
    BY <1>0, <1>1, <2>2, JsonPiece
  <2>4. PICK q : /\ kept' = Append(kept, n) /\ pos' = q
                 /\ Copied(k1, WholeCount[k1], PieceBytes[k1], buf_size, pos, q, n)
    BY <2>3
  <2>5. LineOf(WholeCount, JsonDue) /\ JsonDue[k1] - JsonDue[j] = PieceBytes[k1]
    BY <2>2, JsonLineOf
  <2>6. JsonLine(WholeCount, JsonDue, buf_size, q, Append(kept, n))
    <3> DEFINE c == WholeCount[k1]
               d == PieceBytes[k1]
    <3>1. Copied(k1, c, d, buf_size, pos, q, n) /\ d = JsonDue[k1] - JsonDue[j]
      BY <2>4, <2>5
    <3>2. c = WholeCount[k1] /\ k1 = j + 1 /\ j = Len(kept)
      OBVIOUS
    <3> HIDE DEF c, d, k1, j
    <3> QED BY <2>2, <2>5, <3>1, <3>2, JsonLineStep
  <2> HIDE DEF j, k1
  <2> QED BY <2>1, <2>4, <2>6
<1>2. CASE Json!Terminate
  <2>1. pos' = pos /\ kept' = kept /\ Len(kept) = 7
    BY <1>2, <1>a DEF Json!Terminate
  <2> QED BY <2>1
<1> QED BY <1>1, <1>2 DEF Json!Format

LEMMA JsonLineEmpty ==
  ASSUME EntryInv, NEW b \in Nat \ {0}
  PROVE  JsonLine(WholeCount, JsonDue, b, 0, << >>)
<1> DEFINE e == << >>
<1>1. e \in Seq(Nat) /\ Len(e) = 0
  OBVIOUS
<1>2. JsonDue[0] = 0
  BY JsonLineOf DEF LineOf
<1> HIDE DEF e
<1>3. JsonLine(WholeCount, JsonDue, b, 0, e)
  BY <1>1, <1>2 DEF JsonLine
<1> QED BY <1>3 DEF e

-----------------------------------------------------------------------------
(***************************************************************************)
(* PatternFormatter::Format.                                               *)
(***************************************************************************)
\* The bytes each operation has to append, and those due up to each.
OpLens == [k \in DOMAIN ops |-> Pattern!OpLen(ops[k])]
PatternDue == Json!RunningWidth(OpLens)

LEMMA OpLenType ==
  ASSUME EntryInv, NEW op \in Ops
  PROVE  Pattern!OpLen(op) \in Nat
<1>1. /\ level \in 0..6 /\ msg_len \in Nat /\ fields \in [Pattern!Fields -> Nat]
      /\ enable_color \in BOOLEAN
  BY DEF EntryInv
<1>2. op.type \in Types /\ Len(op.literal) \in Nat
  BY DEF Ops
<1>3. level + 1 \in {1, 2, 3, 4, 5, 6, 7}
  BY <1>1
<1>4. Pattern!LevelLen[level + 1] \in Nat
  BY <1>3 DEF Pattern!LevelLen
<1>5. Pattern!ColorLen[level + 1] \in Nat
  BY <1>3 DEF Pattern!ColorLen
<1>6. Pattern!Formatted(10, 128) = 10
  BY DEF Pattern!Formatted
<1>7. CASE op.type \in Pattern!Fields
  <2>1. Pattern!OpLen(op) = fields[op.type]
    BY <1>7 DEF Pattern!OpLen, Pattern!Fields
  <2> QED BY <1>1, <1>7, <2>1
<1>8. CASE op.type \in {"Literal", "Date", "Time", "Microseconds", "LevelFull", "LevelShort", "Message",
                        "ColorStart", "ColorReset"}
  <2> DEFINE lv == Pattern!LevelLen[level + 1]
             cl == Pattern!ColorLen[level + 1]
             ll == Len(op.literal)
             fm == Pattern!Formatted(10, 128)
  <2>1. lv \in Nat /\ cl \in Nat /\ ll \in Nat /\ fm \in Nat /\ msg_len \in Nat
    BY <1>1, <1>2, <1>4, <1>5, <1>6
  <2>2. Pattern!OpLen(op) \in {lv, cl, ll, fm, msg_len, 0, 1, 4, 7, 8}
    BY <1>8, Zenon DEF Pattern!OpLen
  <2> HIDE DEF lv, cl, ll, fm
  <2> QED BY <2>1, <2>2
<1>9. op.type \in {"Literal", "Date", "Time", "Microseconds", "LevelFull", "LevelShort", "Message",
                        "ColorStart", "ColorReset"} \/ op.type \in Pattern!Fields
  BY <1>2 DEF Types
<1> QED BY <1>7, <1>8, <1>9

\* x bytes in a buffer of b.
CutAt(b, x) == IF x < b THEN x ELSE b - 1

\* What is known of a line that operations of lens bytes write: it is what fits
\* of what was due, and an operation due before the end is there whole.
PatternLine(lens, due, b, p, kp) ==
    /\ kp \in Seq(Nat) /\ Len(kp) <= Len(lens)
    /\ p = CutAt(b, due[Len(kp)])
    /\ \A k \in 1..Len(kp) : kp[k] <= lens[k] /\ (due[k] < b => kp[k] = lens[k])

\* Of len bytes more, those there is room for.
Taken(b, p, len) == IF len < b - 1 - p THEN len ELSE b - 1 - p

LEMMA CutMore ==
  ASSUME NEW b \in Nat \ {0}, NEW x \in Nat, NEW len \in Nat
  PROVE  /\ CutAt(b, x) \in Nat /\ CutAt(b, x) <= b - 1
         /\ Taken(b, CutAt(b, x), len) \in Nat /\ Taken(b, CutAt(b, x), len) <= len
         /\ CutAt(b, x) + Taken(b, CutAt(b, x), len) = CutAt(b, x + len)
         /\ x + len < b => Taken(b, CutAt(b, x), len) = len
BY DEF CutAt, Taken

LEMMA PatternLineStep ==
  ASSUME NEW lens \in Seq(Nat), NEW due, due = Json!RunningWidth(lens), NEW b \in Nat \ {0},
         NEW p, NEW kp, PatternLine(lens, due, b, p, kp), NEW j, j = Len(kp), j < Len(lens),
         NEW n, n = Taken(b, p, lens[j + 1])
  PROVE  PatternLine(lens, due, b, p + n, Append(kp, n)) /\ p \in Nat /\ p <= b - 1
<1> DEFINE r == Append(kp, n)
           k1 == j + 1
           len == lens[k1]
<1>1. /\ kp \in Seq(Nat) /\ j \in Nat /\ Len(lens) \in Nat /\ p = CutAt(b, due[j])
      /\ \A k \in 1..j : kp[k] <= lens[k] /\ (due[k] < b => kp[k] = lens[k])
  BY DEF PatternLine
<1>2. k1 \in 1..Len(lens) /\ j \in 0..Len(lens) /\ k1 - 1 = j /\ k1 \in 0..Len(lens)
  BY <1>1
<1>3. due \in [0..Len(lens) -> Nat] /\ \A k \in 1..Len(lens) : due[k] = due[k - 1] + lens[k]
  BY RunningWidthDef
<1>4. len \in Nat
  BY <1>2
<1>5. n = Taken(b, p, len)
  OBVIOUS
<1>6. due[j] \in Nat /\ due[k1] = due[j] + len
  BY <1>2, <1>3
<1> HIDE DEF r, k1, len
<1> DEFINE x == due[j]
<1>7. /\ p \in Nat /\ p <= b - 1 /\ n \in Nat /\ n <= len
      /\ p + n = CutAt(b, x + len) /\ (x + len < b => n = len)
  <2>1. x \in Nat /\ p = CutAt(b, x)
    BY <1>1, <1>6
  <2> HIDE DEF x
  <2> QED BY <1>4, <1>5, <2>1, CutMore
<1>8. p + n = CutAt(b, due[k1])
  BY <1>6, <1>7
<1>9. due[k1] < b => n = len
  BY <1>6, <1>7
<1> HIDE DEF x
<1>10. r \in Seq(Nat) /\ Len(r) = k1 /\ r[k1] = n /\ \A k \in 1..j : r[k] = kp[k]
  BY <1>1, <1>7 DEF r, k1
<1>11. ASSUME NEW k \in 1..k1 PROVE r[k] <= lens[k] /\ (due[k] < b => r[k] = lens[k])
  <2>1. CASE k = k1
    BY <1>7, <1>9, <1>10, <2>1 DEF len
  <2>2. CASE k # k1
    <3>1. k \in 1..j
      BY <1>1, <2>2 DEF k1
    <3> QED BY <1>1, <1>10, <3>1
  <2> QED BY <2>1, <2>2
<1>12. Len(r) <= Len(lens)
  BY <1>1, <1>2, <1>10
<1>13. PatternLine(lens, due, b, p + n, r)
  BY <1>8, <1>10, <1>11, <1>12 DEF PatternLine
<1> QED BY <1>7, <1>13 DEF r

LEMMA OpLensType ==
  ASSUME CompileInv, EntryInv
  PROVE  OpLens \in Seq(Nat) /\ Len(OpLens) = Len(ops) /\ Len(ops) \in Nat /\ DOMAIN ops = 1..Len(ops)
<1>1. ops \in Seq(Ops)
  BY DEF CompileInv, Scanned
<1>2. Len(ops) \in Nat /\ DOMAIN ops = 1..Len(ops) /\ \A k \in 1..Len(ops) : ops[k] \in Ops
  BY <1>1
<1>3. \A k \in 1..Len(ops) : Pattern!OpLen(ops[k]) \in Nat
  BY <1>2, OpLenType
<1>4. OpLens = [k \in 1..Len(ops) |-> Pattern!OpLen(ops[k])]
  BY <1>2 DEF OpLens
<1>5. OpLens \in Seq(Nat) /\ Len(OpLens) = Len(ops)
  <2> DEFINE m == Len(ops)
             g(k) == Pattern!OpLen(ops[k])
  <2>1. m \in Nat /\ (\A k \in 1..m : g(k) \in Nat) /\ OpLens = [k \in 1..m |-> g(k)]
    BY <1>2, <1>3, <1>4
  <2> HIDE DEF m, g
  <2>2. OpLens \in [1..m -> Nat]
    BY <2>1
  <2>3. OpLens \in Seq(Nat) /\ Len(OpLens) = m
    BY <2>1, <2>2
  <2> QED BY <2>3 DEF m
<1> QED BY <1>2, <1>5

LEMMA PatternFormatStep ==
  ASSUME CompileInv, EntryInv, buf_size \in Nat \ {0},
         PatternLine(OpLens, PatternDue, buf_size, pos, kept), Pattern!Format
  PROVE  /\ PatternLine(OpLens, PatternDue, buf_size, pos', kept')
         /\ ended' => Len(kept') = Len(ops)
<1>0. OpLens \in Seq(Nat) /\ Len(OpLens) = Len(ops) /\ DOMAIN ops = 1..Len(ops) /\ Len(ops) \in Nat
  BY OpLensType
<1>1. CASE Pattern!AppendOp
  <2> DEFINE j == Len(kept)
             n == Pattern!AppendData(Pattern!OpLen(ops[j + 1]))
  <2>1. ~ended /\ ended' = ended /\ j < Len(ops) /\ kept' = Append(kept, n) /\ pos' = pos + n
    BY <1>1 DEF Pattern!AppendOp
  <2>2. kept \in Seq(Nat) /\ j \in Nat
    BY DEF PatternLine
  <2>3. j + 1 \in 1..Len(ops)
    <3> HIDE DEF j
    <3> QED BY <1>0, <2>1, <2>2
  <2>4. OpLens[j + 1] = Pattern!OpLen(ops[j + 1])
    BY <1>0, <2>3 DEF OpLens
  <2>5. pos \in Nat /\ pos <= buf_size - 1
    <3>1. PatternDue[j] \in Nat
      <4>1. j \in 0..Len(OpLens)
        <5> HIDE DEF j
        <5> QED BY <1>0, <2>1, <2>2
      <4> HIDE DEF j
      <4> QED BY <1>0, <4>1, RunningWidthDef DEF PatternDue
    <3>2. pos = CutAt(buf_size, PatternDue[j])
      BY DEF PatternLine
    <3> HIDE DEF j
    <3> QED BY <3>1, <3>2 DEF CutAt
  <2>6. n = Taken(buf_size, pos, OpLens[j + 1])
    <3>1. pos < buf_size
      BY <2>5
    <3> QED BY <2>4, <3>1 DEF Pattern!AppendData, Taken
  <2>7. PatternLine(OpLens, PatternDue, buf_size, pos + n, Append(kept, n))
    <3>1. j = Len(kept) /\ j < Len(OpLens) /\ PatternDue = Json!RunningWidth(OpLens)
      BY <1>0, <2>1 DEF PatternDue
    <3> HIDE DEF j, n
    <3> QED BY <1>0, <2>6, <3>1, PatternLineStep
  <2> HIDE DEF n, j
  <2> QED BY <2>1, <2>7
<1>2. CASE Pattern!FormatReturn
  <2>1. pos' = pos /\ kept' = kept /\ Len(kept) = Len(ops)
    BY <1>2 DEF Pattern!FormatReturn
  <2> QED BY <2>1
<1> QED BY <1>1, <1>2 DEF Pattern!Format

LEMMA PatternLineEmpty ==
  ASSUME CompileInv, EntryInv, NEW b \in Nat \ {0}
  PROVE  PatternLine(OpLens, PatternDue, b, 0, << >>)
<1> DEFINE e == << >>
<1>1. e \in Seq(Nat) /\ Len(e) = 0
  OBVIOUS
<1>2. OpLens \in Seq(Nat) /\ Len(OpLens) \in Nat
  BY OpLensType
<1>3. PatternDue[0] = 0
  BY <1>2, RunningWidthDef DEF PatternDue
<1>4. CutAt(b, 0) = 0
  BY DEF CutAt
<1> HIDE DEF e
<1>5. PatternLine(OpLens, PatternDue, b, 0, e)
  BY <1>1, <1>2, <1>3, <1>4 DEF PatternLine
<1> QED BY <1>5 DEF e

-----------------------------------------------------------------------------
(***************************************************************************)
(* The line in the sink's buffer.                                          *)
(***************************************************************************)
\* The line so far, by formatter; nothing is written into an empty buffer.
LineInv ==
    /\ buf_size \in Nat
    /\ pc = "line" /\ buf_size = 0 => ended /\ pos = 0 /\ kept = << >>
    /\ pc = "line" /\ buf_size # 0 /\ formatter = "json" =>
          /\ JsonLine(WholeCount, JsonDue, buf_size, pos, kept)
          /\ ended => Len(kept) = 7
    /\ pc = "line" /\ buf_size # 0 /\ formatter = "pattern" =>
          /\ PatternLine(OpLens, PatternDue, buf_size, pos, kept)
          /\ ended => Len(kept) = Len(ops)

\* Lines are made of the entry and of the operations only.
LEMMA SameLine ==
  ASSUME UNCHANGED <<pretty, tagged, key, value, msg, msg_len, ops, level, fields, enable_color>>
  PROVE  /\ WholeCount' = WholeCount /\ JsonDue' = JsonDue
         /\ OpLens' = OpLens /\ PatternDue' = PatternDue
<1>1. WholeCount' = WholeCount
  BY DEF WholeCount, Json!LiteralLen
<1>2. JsonDue' = JsonDue
  BY DEF JsonDue, PieceBytes, Json!LiteralLen, Json!RunningWidth, Json!Width
<1>3. OpLens' = OpLens
  BY DEF OpLens, Pattern!OpLen
<1>4. PatternDue' = PatternDue
  BY <1>3 DEF PatternDue, Json!RunningWidth
<1> QED BY <1>1, <1>2, <1>3, <1>4

LEMMA LineInvInit == Init => LineInv
<1> SUFFICES ASSUME Init PROVE LineInv
  OBVIOUS
<1>1. buf_size = 0 /\ pc # "line"
  BY DEF Init
<1> QED BY <1>1 DEF LineInv

LEMMA LineInvNext == CompileInv /\ EntryInv /\ LineInv /\ [Next]_vars => LineInv'
<1> SUFFICES ASSUME CompileInv, EntryInv, LineInv, [Next]_vars PROVE LineInv'
  OBVIOUS
<1>0. buf_size \in Nat
  BY DEF LineInv
<1>1. ASSUME pc' # "line", buf_size' = buf_size PROVE LineInv'
  BY <1>0, <1>1 DEF LineInv
<1>2. CASE Compile
  <2>1. pc' # "line" /\ buf_size' = buf_size
    BY <1>2 DEF Compile, Pattern!Compile
  <2> QED BY <1>1, <2>1
<1>3. ASSUME NEW text \in Texts, NEW plain \in BOOLEAN, LogImpl(text, plain) PROVE LineInv'
  <2>1. pc' # "line" /\ buf_size' = buf_size
    BY <1>3 DEF LogImpl, lineVars
  <2> QED BY <1>1, <2>1
<1>4. CASE Filtered \/ MakeFormatter \/ HaveFormatter \/ PutLine \/ OtherSinks
  <2>1. pc' # "line" /\ buf_size' = buf_size
    BY <1>4 DEF Filtered, MakeFormatter, HaveFormatter, PutLine, OtherSinks, lineVars
  <2> QED BY <1>1, <2>1
<1>5. CASE DoFormat
  <2>1. /\ pc' = "line" /\ buf_size' \in Nat /\ pos' = 0 /\ kept' = << >> /\ ended' = (buf_size' = 0)
        /\ UNCHANGED <<pretty, tagged, key, value, msg, msg_len, ops, level, fields, enable_color, formatter>>
    BY <1>5, BuffersAssumption DEF DoFormat, formatterVars, entryVars
  <2>2. WholeCount' = WholeCount /\ JsonDue' = JsonDue /\ OpLens' = OpLens /\ PatternDue' = PatternDue
    BY <2>1, SameLine
  <2>3. buf_size' # 0 => JsonLine(WholeCount, JsonDue, buf_size', pos', kept')
    BY <2>1, JsonLineEmpty
  <2>4. buf_size' # 0 => PatternLine(OpLens, PatternDue, buf_size', pos', kept')
    BY <2>1, PatternLineEmpty
  <2> QED BY <2>1, <2>2, <2>3, <2>4 DEF LineInv
<1>6. CASE FormatLine
  <2>1. /\ pc = "line" /\ pc' = pc
        /\ UNCHANGED <<pretty, tagged, key, value, msg, msg_len, ops, level, fields, enable_color, formatter, buf_size>>
    BY <1>6 DEF FormatLine, Json!Format, Pattern!Format, Pattern!compileVars, Pattern!entryVars
  <2>2. WholeCount' = WholeCount /\ JsonDue' = JsonDue /\ OpLens' = OpLens /\ PatternDue' = PatternDue
    BY <2>1, SameLine
  <2>3. ~ended
    BY <1>6 DEF FormatLine, Json!Format, Pattern!Format, Json!AppendLiteral, Json!AppendEscaped,
                Json!Terminate, Pattern!AppendOp, Pattern!FormatReturn
  <2>4. buf_size # 0
    BY <2>1, <2>3 DEF LineInv
  <2>5. CASE formatter = "json"
    <3>1. Json!Format
      BY <1>6, <2>5 DEF FormatLine
    <3>2. JsonLine(WholeCount, JsonDue, buf_size, pos, kept)
      BY <2>1, <2>4, <2>5 DEF LineInv
    <3>3. JsonLine(WholeCount, JsonDue, buf_size, pos', kept') /\ (ended' => Len(kept') = 7)
      BY <1>0, <3>1, <3>2, JsonFormatStep
    <3> QED BY <1>0, <2>1, <2>2, <2>4, <2>5, <3>3 DEF LineInv
  <2>6. CASE formatter = "pattern"
    <3>1. Pattern!Format
      BY <1>6, <2>6 DEF FormatLine
    <3>2. PatternLine(OpLens, PatternDue, buf_size, pos, kept)
      BY <2>1, <2>4, <2>6 DEF LineInv
    <3>3. PatternLine(OpLens, PatternDue, buf_size, pos', kept') /\ (ended' => Len(kept') = Len(ops))
      BY <1>0, <2>4, <3>1, <3>2, PatternFormatStep
    <3> QED BY <1>0, <2>1, <2>2, <2>4, <2>6, <3>3 DEF LineInv
  <2> QED BY <1>6, <2>5, <2>6 DEF FormatLine
<1>7. CASE UNCHANGED vars
  <2>1. UNCHANGED <<pretty, tagged, key, value, msg, msg_len, ops, level, fields, enable_color, formatter, buf_size,
                    pos, kept, ended, pc>>
    BY <1>7 DEF vars, formatterVars, entryVars, lineVars
  <2>2. WholeCount' = WholeCount /\ JsonDue' = JsonDue /\ OpLens' = OpLens /\ PatternDue' = PatternDue
    BY <2>1, SameLine
  <2> QED BY <2>1, <2>2 DEF LineInv
<1> QED BY <1>2, <1>3, <1>4, <1>5, <1>6, <1>7 DEF Next

LEMMA LineInvAlways == Spec => [](CompileInv /\ EntryInv /\ LineInv)
<1>1. Init => CompileInv /\ EntryInv /\ LineInv
  BY CompileInvInit, EntryInvInit, LineInvInit
<1>2. CompileInv /\ EntryInv /\ LineInv /\ [Next]_vars => (CompileInv /\ EntryInv /\ LineInv)'
  BY CompileInvNext, EntryInvNext, LineInvNext
<1> QED BY <1>1, <1>2, PTL DEF Spec

LEMMA WholeMeans ==
  ASSUME EntryInv, NEW k \in 1..7
  PROVE  Json!Whole(k) <=> kept[k] = WholeCount[k]
<1>1. CASE k \in {1, 3, 5, 7}
  <2>1. ~(Json!Layout[k] \in DOMAIN Json!Escaped) /\ Json!LiteralLen[Json!Layout[k]] = WholeCount[k]
    BY <1>1, LayoutPieces
  <2> QED BY <2>1 DEF Json!Whole
<1>2. CASE k \in {2, 4, 6}
  <2>1. Json!Layout[k] \in DOMAIN Json!Escaped /\ Len(Json!Escaped[Json!Layout[k]]) = WholeCount[k]
    BY <1>2, LayoutPieces
  <2> QED BY <2>1 DEF Json!Whole
<1>3. k \in {1, 3, 5, 7} \/ k \in {2, 4, 6}
  OBVIOUS
<1> QED BY <1>1, <1>2, <1>3

\* The line stays in its buffer, a JSON line that fits is whole, and the length of
\* a pattern's line is what was due or all there is room for.
LEMMA LineFitsNow == CompileInv /\ EntryInv /\ LineInv => LineFits
<1> SUFFICES ASSUME CompileInv, EntryInv, LineInv, pc = "line", buf_size > 0
             PROVE  /\ pos <= buf_size - 1
                    /\ ended /\ formatter = "json" /\ Json!TotalLen < buf_size =>
                         \A k \in DOMAIN kept : Json!Whole(k)
                    /\ ended /\ formatter = "pattern" =>
                         pos = IF PatternLen < buf_size THEN PatternLen ELSE buf_size - 1
  BY DEF LineFits
<1>0. buf_size \in Nat /\ buf_size # 0
  BY DEF LineInv
<1>1. CASE formatter = "json"
  <2>1. JsonLine(WholeCount, JsonDue, buf_size, pos, kept) /\ (ended => Len(kept) = 7)
    BY <1>0, <1>1 DEF LineInv
  <2>2. /\ kept \in Seq(Nat) /\ pos <= buf_size - 1
        /\ JsonDue[7] < buf_size => \A k \in 1..Len(kept) : kept[k] = WholeCount[k]
    BY <2>1 DEF JsonLine
  <2>3. JsonDue[7] = Json!TotalLen
    BY JsonLineOf
  <2>4. ASSUME ended, Json!TotalLen < buf_size, NEW k \in DOMAIN kept PROVE Json!Whole(k)
    <3>1. k \in 1..7 /\ k \in 1..Len(kept)
      <4>1. Len(kept) = 7
        BY <2>1, <2>4
      <4>2. DOMAIN kept = 1..Len(kept)
        BY <2>2
      <4> QED BY <4>1, <4>2
    <3>2. kept[k] = WholeCount[k]
      BY <2>2, <2>3, <2>4, <3>1
    <3> QED BY <3>1, <3>2, WholeMeans
  <2> QED BY <1>1, <2>2, <2>4
<1>2. CASE formatter = "pattern"
  <2>1. PatternLine(OpLens, PatternDue, buf_size, pos, kept) /\ (ended => Len(kept) = Len(ops))
    BY <1>0, <1>2 DEF LineInv
  <2>2. kept \in Seq(Nat) /\ Len(kept) <= Len(OpLens) /\ pos = CutAt(buf_size, PatternDue[Len(kept)])
    BY <2>1 DEF PatternLine
  <2>3. OpLens \in Seq(Nat) /\ Len(OpLens) = Len(ops) /\ Len(ops) \in Nat
    BY OpLensType
  <2>4. PatternDue \in [0..Len(ops) -> Nat] /\ PatternLen = PatternDue[Len(ops)]
    BY <2>3, RunningWidthDef DEF PatternDue, PatternLen, Json!Width, OpLens
  <2>5. PatternDue[Len(kept)] \in Nat
    <3>1. Len(kept) \in 0..Len(ops)
      <4>1. Len(kept) \in Nat
        BY <2>2
      <4> QED BY <2>2, <2>3, <4>1
    <3> QED BY <2>4, <3>1
  <2>6. pos <= buf_size - 1
    <3> DEFINE x == PatternDue[Len(kept)]
    <3>1. x \in Nat /\ pos = CutAt(buf_size, x)
      BY <2>2, <2>5
    <3> HIDE DEF x
    <3> QED BY <1>0, <3>1 DEF CutAt
  <2>7. ended => pos = IF PatternLen < buf_size THEN PatternLen ELSE buf_size - 1
    BY <2>1, <2>2, <2>4 DEF CutAt
  <2> QED BY <1>2, <2>6, <2>7
<1> QED BY <1>1, <1>2 DEF EntryInv

\* For every pattern, entry and buffer size, neither formatter writes past its
\* buffer, a JSON line that fits is whole, and a pattern's line is cut only at
\* the last byte in front of the NUL.
THEOREM LinesFit == Spec => []LineFits
BY LineInvAlways, LineFitsNow, PTL

\* The closing piece was kept whole: then so was everything in front of the message.
LEMMA ClosedNow == EntryInv /\ LineInv => ClosedMeansComplete
<1> SUFFICES ASSUME EntryInv, LineInv, pc = "line", formatter = "json", ended, buf_size > 0,
                    Json!Whole(7), NEW k \in 1..5
             PROVE  Json!Whole(k)
  BY DEF ClosedMeansComplete
<1>1. buf_size # 0 /\ k \in 1..7 /\ 7 \in 1..7
  BY DEF LineInv
<1>2. JsonLine(WholeCount, JsonDue, buf_size, pos, kept) /\ Len(kept) = 7
  BY <1>1 DEF LineInv
<1>3. kept[7] = WholeCount[7]
  BY <1>1, WholeMeans
<1>4. kept[k] = WholeCount[k]
  BY <1>2, <1>3 DEF JsonLine
<1> QED BY <1>1, <1>4, WholeMeans

\* For every entry and buffer size, a JSON line whose closing `"}` was copied is
\* complete up to its message.
THEOREM ClosedLinesComplete == Spec => []ClosedMeansComplete
BY LineInvAlways, ClosedNow, PTL

-----------------------------------------------------------------------------
(***************************************************************************)
(* What the sinks show.                                                    *)
(***************************************************************************)
\* The console shows no more characters of the message than msg_len.
LEMMA MessageKeptBound ==
  ASSUME CompileInv, EntryInv, LineInv, pc = "line", pos # 0
  PROVE  MessageKept \in Nat /\ MessageKept <= msg_len
<1>0. buf_size \in Nat /\ buf_size # 0 /\ msg_len \in Nat
  BY DEF LineInv, EntryInv
<1>1. ASSUME NEW k \in DOMAIN kept, Pieces[k] \in {"msg", "Message"}
      PROVE  kept[k] \in Nat /\ kept[k] <= msg_len
  <2>1. CASE formatter = "json"
    <3>1. JsonLine(WholeCount, JsonDue, buf_size, pos, kept)
      BY <1>0, <2>1 DEF LineInv
    <3>2. kept \in Seq(Nat) /\ Len(kept) <= 7 /\ (Len(kept) >= 6 => kept[6] <= WholeCount[6])
      BY <3>1 DEF JsonLine
    <3>3. k \in 1..Len(kept) /\ Len(kept) \in Nat /\ kept[k] \in Nat
      BY <1>1, <3>2
    <3>4. k \in 1..7
      <4> DEFINE l == Len(kept)
      <4>1. l \in Nat /\ l <= 7 /\ k \in 1..l
        BY <3>2, <3>3
      <4> HIDE DEF l
      <4> QED BY <4>1
    <3>5. Json!Layout[k] \in {"msg", "Message"}
      BY <1>1, <2>1 DEF Pieces
    <3>6. Json!Layout[k] # "Message"
      <4>1. k \in {1, 2, 3, 4, 5, 6, 7}
        BY <3>4
      <4> QED BY <4>1 DEF Json!Layout
    <3>7. k = 6
      BY <3>4, <3>5, <3>6, LayoutPieces
    <3>8. WholeCount[6] = msg_len
      BY DEF WholeCount
    <3> QED BY <3>2, <3>3, <3>7, <3>8
  <2>2. CASE formatter = "pattern"
    <3>1. PatternLine(OpLens, PatternDue, buf_size, pos, kept)
      BY <1>0, <2>2 DEF LineInv
    <3>2. kept \in Seq(Nat) /\ Len(kept) <= Len(OpLens) /\ \A m \in 1..Len(kept) : kept[m] <= OpLens[m]
      BY <3>1 DEF PatternLine
    <3>3. k \in 1..Len(kept) /\ Len(kept) \in Nat /\ kept[k] \in Nat
      BY <1>1, <3>2
    <3>4. k \in 1..Len(ops) /\ k \in DOMAIN ops
      BY <3>2, <3>3, OpLensType
    <3>5. ops[k].type \in {"msg", "Message"}
      BY <1>1, <2>2, <3>4 DEF Pieces
    <3>6. ops[k].type \in Types
      <4>1. ops \in Seq(Ops)
        BY DEF CompileInv, Scanned
      <4>2. ops[k] \in Ops
        BY <3>4, <4>1, SeqIsFunction
      <4> QED BY <4>2 DEF Ops
    <3>7. ops[k].type = "Message"
      BY <3>5, <3>6 DEF Types, Pattern!Fields
    <3>8. OpLens[k] = msg_len
      BY <3>4, <3>7 DEF OpLens, Pattern!OpLen
    <3> QED BY <3>2, <3>3, <3>8
  <2> QED BY <2>1, <2>2 DEF EntryInv
<1> DEFINE S == {0} \cup {kept[k] : k \in {k \in DOMAIN kept : Pieces[k] \in {"msg", "Message"}}}
<1>2. S \in SUBSET (0..msg_len) /\ S # {}
  BY <1>0, <1>1
<1>3. MessageKept = Max(S)
  BY DEF MessageKept
<1> HIDE DEF S
<1>4. Max(S) \in S
  BY <1>0, <1>2, GreatestExists
<1>5. ASSUME NEW x \in S PROVE x \in Nat /\ x <= msg_len
  BY <1>0, <1>2
<1> QED BY <1>3, <1>4, <1>5

LEMMA ShownInit == Init => LiteralShownIsStored
<1> SUFFICES ASSUME Init PROVE LiteralShownIsStored
  OBVIOUS
<1>1. DOMAIN shown = {}
  BY DEF Init
<1> QED BY <1>1 DEF LiteralShownIsStored, ShownIsStored

LEMMA ShownNext ==
  CompileInv /\ EntryInv /\ LineInv /\ LiteralShownIsStored /\ [Next]_vars => LiteralShownIsStored'
<1> SUFFICES ASSUME CompileInv, EntryInv, LineInv, LiteralShownIsStored, [Next]_vars
             PROVE  LiteralShownIsStored'
  OBVIOUS
<1>1. ASSUME UNCHANGED <<shown, literalText, stored>> PROVE LiteralShownIsStored'
  BY <1>1 DEF LiteralShownIsStored, ShownIsStored
<1>2. CASE Compile
  <2>1. UNCHANGED <<shown, literalText, stored>>
    BY <1>2 DEF Compile
  <2> QED BY <1>1, <2>1
<1>3. ASSUME NEW text \in Texts, NEW plain \in BOOLEAN, LogImpl(text, plain)
      PROVE  LiteralShownIsStored'
  <2>1. DOMAIN shown' = {}
    BY <1>3 DEF LogImpl
  <2> QED BY <2>1 DEF LiteralShownIsStored, ShownIsStored
<1>4. CASE Filtered \/ MakeFormatter \/ HaveFormatter \/ DoFormat
  <2>1. UNCHANGED <<shown, literalText, stored>>
    BY <1>4 DEF Filtered, MakeFormatter, HaveFormatter, DoFormat, entryVars
  <2> QED BY <1>1, <2>1
<1>5. CASE FormatLine
  <2>1. UNCHANGED <<shown, literalText, stored>>
    BY <1>5 DEF FormatLine
  <2> QED BY <1>1, <2>1
<1>6. CASE PutLine
  <2>1. pc = "line" /\ UNCHANGED <<literalText, stored>>
        /\ shown' = IF pos = 0 THEN shown ELSE [s \in {"console"} |-> MessageKept]
    BY <1>6 DEF PutLine, entryVars
  <2>2. CASE pos = 0
    BY <1>1, <2>1, <2>2
  <2>3. CASE pos # 0
    <3>1. MessageKept <= msg_len
      BY <2>1, <2>3, MessageKeptBound
    <3>2. literalText => msg_len = stored
      BY DEF EntryInv
    <3>3. DOMAIN shown' = {"console"} /\ shown'["console"] = MessageKept
      BY <2>1, <2>3
    <3>4. "callback" \notin DOMAIN shown'
      BY <3>3
    <3>5. literalText' => \A s \in DOMAIN shown' : shown'[s] <= stored'
      BY <2>1, <3>1, <3>2, <3>3
    <3> QED BY <3>4, <3>5 DEF LiteralShownIsStored, ShownIsStored
  <2> QED BY <2>2, <2>3
<1>7. CASE OtherSinks
  <2>1. /\ UNCHANGED <<literalText, stored>>
        /\ shown' = [s \in DOMAIN shown \cup {"callback", "ros2"} |->
                        CASE s = "callback" -> CallBack
                          [] s = "ros2"     -> RosLog
                          [] OTHER          -> shown[s]]
    BY <1>7 DEF OtherSinks, entryVars
  <2>2. literalText => msg_len = stored
    BY DEF EntryInv
  <2>3. stored \in Nat
    BY DEF EntryInv
  <2>4. shown'["callback"] = msg_len /\ shown'["ros2"] = stored
    BY <2>1 DEF CallBack, RosLog
  <2>5. ASSUME literalText', NEW s \in DOMAIN shown' PROVE shown'[s] <= stored'
    <3>1. CASE s = "callback" \/ s = "ros2"
      BY <2>1, <2>2, <2>3, <2>4, <2>5, <3>1
    <3>2. CASE ~(s = "callback" \/ s = "ros2")
      <4>1. s \in DOMAIN shown /\ shown'[s] = shown[s]
        BY <2>1, <2>5, <3>2
      <4>2. shown[s] <= stored
        BY <2>1, <2>5, <4>1 DEF LiteralShownIsStored, ShownIsStored
      <4> QED BY <2>1, <4>1, <4>2
    <3> QED BY <3>1, <3>2
  <2>6. literalText' => shown'["callback"] = shown'["ros2"]
    BY <2>1, <2>2, <2>4
  <2> QED BY <2>5, <2>6 DEF LiteralShownIsStored, ShownIsStored
<1>8. CASE UNCHANGED vars
  <2>1. UNCHANGED <<shown, literalText, stored>>
    BY <1>8 DEF vars, entryVars
  <2> QED BY <1>1, <2>1
<1> QED BY <1>2, <1>3, <1>4, <1>5, <1>6, <1>7, <1>8 DEF Next

\* For every text, a message without arguments is shown by each sink up to what
\* LogImpl stored at most, and by length as it is as a C string.
THEOREM LiteralsShownAsStored == Spec => []LiteralShownIsStored
<1>1. Init => LiteralShownIsStored
  BY ShownInit
<1>2. CompileInv /\ EntryInv /\ LineInv /\ LiteralShownIsStored /\ [Next]_vars => LiteralShownIsStored'
  BY ShownNext
<1> QED BY <1>1, <1>2, LineInvAlways, PTL DEF Spec

-----------------------------------------------------------------------------
(***************************************************************************)
(* The colours of the console's own pattern.                               *)
(***************************************************************************)
Of(type) == [type |-> type, literal |-> << >>]
TextOf(text) == [type |-> "Literal", literal |-> text]

\* What "[%D %T%e] [%C%L%R" compiles to: of each operation its type and the length
\* of its text.
FrontType ==
    <<"Literal", "Date", "Literal", "Time", "Microseconds", "Literal", "ColorStart", "LevelFull",
      "ColorReset">>
FrontLen == <<1, 0, 1, 0, 0, 3, 0, 0, 0>>
IsFront(op, k) == op.type = FrontType[k] /\ Len(op.literal) = FrontLen[k]

\* The operations o are the first m of them.
Ahead(o, m) == o \in Seq(Ops) /\ Len(o) = m /\ \A k \in 1..m : IsFront(o[k], k)

\* The first 9 operations of o are, and none behind them starts a colour.
Past(o) ==
    /\ o \in Seq(Ops) /\ Len(o) >= 9
    /\ \A k \in 1..9 : IsFront(o[k], k)
    /\ \A k \in 10..Len(o) : o[k].type # "ColorStart"

\* How far the scan is: n characters consumed, l pending, m operations made.
Row(n, l, m) ==
    \/ n = 0 /\ l = 0 /\ m = 0
    \/ n = 1 /\ l = 1 /\ m = 0
    \/ n = 3 /\ l = 0 /\ m = 2
    \/ n = 4 /\ l = 1 /\ m = 2
    \/ n = 6 /\ l = 0 /\ m = 4
    \/ n = 8 /\ l = 0 /\ m = 5
    \/ n = 9 /\ l = 1 /\ m = 5
    \/ n = 10 /\ l = 2 /\ m = 5
    \/ n = 11 /\ l = 3 /\ m = 5
    \/ n = 13 /\ l = 0 /\ m = 7
    \/ n = 15 /\ l = 0 /\ m = 8

ColourInv ==
    formatter = "pattern" /\ pattern = DefaultPattern =>
        \/ ~compiled /\ \E m \in 0..8 : Row(i, Len(literal), m) /\ Ahead(ops, m)
        \/ i >= 17 /\ Past(ops)

LEMMA DefaultChars ==
  /\ Len(DefaultPattern) = 45
  /\ DefaultPattern[1] = "[" /\ DefaultPattern[2] = "%" /\ DefaultPattern[3] = "D"
  /\ DefaultPattern[4] = " " /\ DefaultPattern[5] = "%" /\ DefaultPattern[6] = "T"
  /\ DefaultPattern[7] = "%" /\ DefaultPattern[8] = "e" /\ DefaultPattern[9] = "]"
  /\ DefaultPattern[10] = " " /\ DefaultPattern[11] = "[" /\ DefaultPattern[12] = "%"
  /\ DefaultPattern[13] = "C" /\ DefaultPattern[14] = "%" /\ DefaultPattern[15] = "L"
  /\ DefaultPattern[16] = "%" /\ DefaultPattern[17] = "R"
BY DEF DefaultPattern

LEMMA DefaultLength == Len(DefaultPattern) = 45
BY DEF DefaultPattern

LEMMA NoColourLater == \A j \in 18..45 : DefaultPattern[j] # "C"
<1>1. /\ DefaultPattern[18] # "C" /\ DefaultPattern[19] # "C" /\ DefaultPattern[20] # "C" /\ DefaultPattern[21] # "C"
      /\ DefaultPattern[22] # "C" /\ DefaultPattern[23] # "C" /\ DefaultPattern[24] # "C" /\ DefaultPattern[25] # "C"
      /\ DefaultPattern[26] # "C" /\ DefaultPattern[27] # "C" /\ DefaultPattern[28] # "C" /\ DefaultPattern[29] # "C"
      /\ DefaultPattern[30] # "C" /\ DefaultPattern[31] # "C" /\ DefaultPattern[32] # "C" /\ DefaultPattern[33] # "C"
      /\ DefaultPattern[34] # "C" /\ DefaultPattern[35] # "C" /\ DefaultPattern[36] # "C" /\ DefaultPattern[37] # "C"
      /\ DefaultPattern[38] # "C" /\ DefaultPattern[39] # "C" /\ DefaultPattern[40] # "C" /\ DefaultPattern[41] # "C"
      /\ DefaultPattern[42] # "C" /\ DefaultPattern[43] # "C" /\ DefaultPattern[44] # "C" /\ DefaultPattern[45] # "C"
  BY DEF DefaultPattern
<1>2. \A j \in 18..45 :
          \/ j \in {18, 19, 20, 21, 22, 23, 24, 25, 26, 27, 28, 29, 30, 31}
          \/ j \in {32, 33, 34, 35, 36, 37, 38, 39, 40, 41, 42, 43, 44, 45}
  OBVIOUS
<1>3. \A j \in {18, 19, 20, 21, 22, 23, 24, 25, 26, 27, 28, 29, 30, 31} : DefaultPattern[j] # "C"
  BY <1>1
<1>4. \A j \in {32, 33, 34, 35, 36, 37, 38, 39, 40, 41, 42, 43, 44, 45} : DefaultPattern[j] # "C"
  BY <1>1
<1> QED BY <1>2, <1>3, <1>4

LEMMA FrontOps ==
  /\ FrontType[1] = "Literal" /\ FrontType[2] = "Date" /\ FrontType[3] = "Literal"
  /\ FrontType[4] = "Time" /\ FrontType[5] = "Microseconds" /\ FrontType[6] = "Literal"
  /\ FrontType[7] = "ColorStart" /\ FrontType[8] = "LevelFull" /\ FrontType[9] = "ColorReset"
  /\ FrontLen[1] = 1 /\ FrontLen[2] = 0 /\ FrontLen[3] = 1 /\ FrontLen[4] = 0 /\ FrontLen[5] = 0
  /\ FrontLen[6] = 3 /\ FrontLen[7] = 0 /\ FrontLen[8] = 0 /\ FrontLen[9] = 0
BY DEF FrontType, FrontLen

LEMMA DirectiveMeanings ==
  /\ {"D", "T", "e", "C", "L", "R"} \subseteq DOMAIN Pattern!Directive
  /\ Pattern!Directive["D"] = "Date" /\ Pattern!Directive["T"] = "Time"
  /\ Pattern!Directive["e"] = "Microseconds" /\ Pattern!Directive["C"] = "ColorStart"
  /\ Pattern!Directive["L"] = "LevelFull" /\ Pattern!Directive["R"] = "ColorReset"
  /\ \A c \in DOMAIN Pattern!Directive : Pattern!Directive[c] = "ColorStart" => c = "C"
<1>1. DOMAIN Pattern!Directive = {"D", "T", "e", "L", "l", "f", "F", "n", "N", "#", "t", "P", "k", "q", "g",
                                  "m", "C", "R"}
  BY DEF Pattern!Directive
<1>2. /\ Pattern!Directive["D"] = "Date" /\ Pattern!Directive["T"] = "Time"
      /\ Pattern!Directive["e"] = "Microseconds" /\ Pattern!Directive["C"] = "ColorStart"
      /\ Pattern!Directive["L"] = "LevelFull" /\ Pattern!Directive["R"] = "ColorReset"
  BY DEF Pattern!Directive
<1>3. \A c \in DOMAIN Pattern!Directive : Pattern!Directive[c] = "ColorStart" => c = "C"
  BY DEF Pattern!Directive
<1> QED BY <1>1, <1>2, <1>3

\* An operation more.
LEMMA AheadMore ==
  ASSUME NEW o, NEW m \in Nat, Ahead(o, m), NEW op \in Ops, NEW n, n = m + 1, IsFront(op, n)
  PROVE  Ahead(Append(o, op), n)
<1> DEFINE r == Append(o, op)
<1>1. o \in Seq(Ops) /\ Len(o) = m /\ \A k \in 1..m : IsFront(o[k], k)
  BY DEF Ahead
<1>2. r \in Seq(Ops) /\ Len(r) = n /\ r[n] = op /\ \A k \in 1..m : r[k] = o[k]
  BY <1>1
<1> HIDE DEF r
<1>3. ASSUME NEW k \in 1..n PROVE IsFront(r[k], k)
  <2>1. k = n \/ k \in 1..m
    OBVIOUS
  <2> QED BY <1>1, <1>2, <2>1
<1>4. Ahead(r, n)
  BY <1>2, <1>3 DEF Ahead
<1> QED BY <1>4 DEF r

LEMMA PastMore ==
  ASSUME NEW o, Past(o), NEW op \in Ops, op.type # "ColorStart"
  PROVE  Past(Append(o, op))
<1> DEFINE r == Append(o, op)
           n == Len(o)
<1>1. /\ o \in Seq(Ops) /\ n >= 9 /\ (\A k \in 1..9 : IsFront(o[k], k))
      /\ \A k \in 10..n : o[k].type # "ColorStart"
  BY DEF Past
<1>2. n \in Nat /\ r \in Seq(Ops) /\ Len(r) = n + 1 /\ r[n + 1] = op /\ \A k \in 1..n : r[k] = o[k]
  BY <1>1
<1> HIDE DEF r, n
<1>3. ASSUME NEW k \in 1..9 PROVE IsFront(r[k], k)
  <2>1. k \in 1..n
    BY <1>1, <1>2
  <2> QED BY <1>1, <1>2, <2>1
<1>4. ASSUME NEW k \in 10..(n + 1) PROVE r[k].type # "ColorStart"
  <2>1. CASE k = n + 1
    BY <1>2, <2>1
  <2>2. CASE k # n + 1
    <3>1. k \in 10..n /\ k \in 1..n
      BY <1>2, <2>2
    <3> QED BY <1>1, <1>2, <3>1
  <2> QED BY <2>1, <2>2
<1>5. Len(r) >= 9
  BY <1>1, <1>2
<1>6. Past(r)
  BY <1>2, <1>3, <1>4, <1>5 DEF Past
<1> QED BY <1>6 DEF r

LEMMA AheadPast == ASSUME NEW o, Ahead(o, 9) PROVE Past(o)
BY DEF Ahead, Past

\* One turn of the scan at a character, and at a directive.
LEMMA TurnAtChar ==
  ASSUME Pattern!Compile, i \in Nat, Len(pattern) \in Nat, i < Len(pattern), pattern[i + 1] # "%", ~compiled
  PROVE  literal' = Cat(literal, <<pattern[i + 1]>>) /\ i' = i + 1 /\ ops' = ops /\ compiled' = compiled
<1>1. Pattern!ScanChar
  BY DEF Pattern!Compile, Pattern!ScanLonePercent, Pattern!ScanDirective, Pattern!ScanEscaped,
         Pattern!ScanUnknown, Pattern!CompileReturn, Pattern!Ch
<1> QED BY <1>1 DEF Pattern!ScanChar, Pattern!ToLiteral, Pattern!Ch, Cat

LEMMA TurnAtDirective ==
  ASSUME Pattern!Compile, i \in Nat, Len(pattern) \in Nat, i + 1 < Len(pattern), pattern[i + 1] = "%",
         ~compiled, pattern[i + 2] \in DOMAIN Pattern!Directive
  PROVE  /\ ops' = Append(Flush(ops, literal), Of(Pattern!Directive[pattern[i + 2]]))
         /\ literal' = << >> /\ i' = i + 2 /\ compiled' = compiled
<1>0. pattern[i + 2] # "%"
  BY DirectiveType
<1>1. Pattern!ScanDirective
  BY <1>0 DEF Pattern!Compile, Pattern!ScanChar, Pattern!ScanLonePercent, Pattern!ScanEscaped,
         Pattern!ScanUnknown, Pattern!CompileReturn, Pattern!Ch, Pattern!IsLast
<1> QED BY <1>1 DEF Pattern!ScanDirective, Pattern!FlushLiteral, Flush, Of

LEMMA OfType ==
  /\ \A t \in Types : Of(t) \in Ops /\ Of(t).type = t /\ Len(Of(t).literal) = 0
  /\ \A lit \in Seq(Chars) :
        TextOf(lit) \in Ops /\ TextOf(lit).type = "Literal" /\ TextOf(lit).literal = lit
<1>1. << >> \in Seq(Chars) /\ "Literal" \in Types
  BY CharsType
<1> QED BY <1>1 DEF Of, TextOf, Ops

\* A directive flushes what is pending, if anything, and adds its operation.
LEMMA AheadDirective ==
  ASSUME NEW o, NEW m \in Nat, Ahead(o, m), NEW lit \in Seq(Chars), NEW c \in DOMAIN Pattern!Directive,
         NEW m1, m1 = IF Len(lit) = 0 THEN m ELSE m + 1,
         Len(lit) # 0 => FrontType[m1] = "Literal" /\ FrontLen[m1] = Len(lit),
         NEW n, n = m1 + 1, FrontType[n] = Pattern!Directive[c], FrontLen[n] = 0
  PROVE  Ahead(Append(Flush(o, lit), Of(Pattern!Directive[c])), n)
<1> DEFINE op == Of(Pattern!Directive[c])
<1>0. op \in Ops /\ IsFront(op, n)
  <2>1. Pattern!Directive[c] \in Types
    BY DirectiveType
  <2> QED BY <2>1, OfType DEF IsFront
<1> HIDE DEF op
<1>1. CASE Len(lit) = 0
  <2>1. Flush(o, lit) = o /\ m1 = m
    <3>1. lit = << >>
      BY <1>1
    <3> QED BY <1>1, <3>1 DEF Flush
  <2>2. Ahead(Append(o, op), n)
    BY <1>0, <2>1, AheadMore
  <2> QED BY <2>1, <2>2 DEF op
<1>2. CASE Len(lit) # 0
  <2> DEFINE f == Append(o, TextOf(lit))
  <2>1. Flush(o, lit) = f /\ m1 = m + 1 /\ m1 \in Nat
    <3>1. lit # << >>
      BY <1>2
    <3> QED BY <1>2, <3>1 DEF Flush, TextOf
  <2>2. TextOf(lit) \in Ops /\ IsFront(TextOf(lit), m1)
    BY <1>2, OfType DEF IsFront
  <2>3. Ahead(f, m1)
    BY <2>1, <2>2, AheadMore
  <2> HIDE DEF f
  <2>4. Ahead(Append(f, op), n)
    BY <1>0, <2>1, <2>3, AheadMore
  <2> QED BY <2>1, <2>4 DEF op
<1> QED BY <1>1, <1>2

\* Past the colours the scan adds no other.
LEMMA PastCompile ==
  ASSUME CompileInv, pattern = DefaultPattern, Pattern!Compile, i >= 17, Past(ops)
  PROVE  i' >= 17 /\ Past(ops')
<1>0. i \in 0..Len(pattern) /\ literal \in Seq(Chars) /\ Len(pattern) = 45 /\ i \in Nat
  <2>1. i \in 0..Len(pattern) /\ literal \in Seq(Chars)
    BY DEF CompileInv, Scanned
  <2> QED BY <2>1, DefaultLength
<1>1. Past(Flush(ops, literal))
  <2>1. CASE literal = << >>
    BY <2>1 DEF Flush
  <2>2. CASE literal # << >>
    <3>1. Flush(ops, literal) = Append(ops, TextOf(literal))
      BY <2>2 DEF Flush, TextOf
    <3>2. TextOf(literal) \in Ops /\ TextOf(literal).type # "ColorStart"
      BY <1>0, OfType
    <3>3. Past(Append(ops, TextOf(literal)))
      BY <3>2, PastMore
    <3> QED BY <3>1, <3>3
  <2> QED BY <2>1, <2>2
<1>2. CASE Pattern!ScanChar \/ Pattern!ScanLonePercent \/ Pattern!ScanEscaped \/ Pattern!ScanUnknown
  <2>1. ops' = ops /\ (i' = i + 1 \/ i' = i + 2)
    BY <1>2 DEF Pattern!ScanChar, Pattern!ScanLonePercent, Pattern!ScanEscaped, Pattern!ScanUnknown,
                Pattern!ToLiteral
  <2> QED BY <1>0, <2>1
<1>3. CASE Pattern!ScanDirective
  <2> DEFINE c == pattern[i + 2]
             f == Flush(ops, literal)
             op == Of(Pattern!Directive[c])
  <2>1. c \in DOMAIN Pattern!Directive /\ ops' = Append(f, op) /\ i' = i + 2 /\ ~(i + 1 >= Len(pattern))
    BY <1>3 DEF Pattern!ScanDirective, Pattern!FlushLiteral, Pattern!IsLast, Flush, Of
  <2>2. i + 2 \in 18..45
    BY <1>0, <2>1
  <2>3. c # "C"
    BY <2>2, NoColourLater
  <2>4. Pattern!Directive[c] # "ColorStart" /\ Pattern!Directive[c] \in Types
    BY <2>1, <2>3, DirectiveMeanings, DirectiveType
  <2>5. op \in Ops /\ op.type # "ColorStart"
    <3>1. op \in Ops /\ op.type = Pattern!Directive[c]
      BY <2>4, OfType
    <3> QED BY <2>4, <3>1
  <2> HIDE DEF op, f, c
  <2>6. Past(f)
    BY <1>1 DEF f
  <2>7. Past(Append(f, op))
    BY <2>5, <2>6, PastMore
  <2> QED BY <1>0, <2>1, <2>7
<1>4. CASE Pattern!CompileReturn
  <2>1. ops' = Flush(ops, literal) /\ i' = i
    BY <1>4 DEF Pattern!CompileReturn, Pattern!FlushLiteral, Flush
  <2> QED BY <1>1, <2>1
<1> QED BY <1>2, <1>3, <1>4 DEF Pattern!Compile

\* From row to row: a character is pending, or a directive is compiled.
LEMMA RowChar ==
  ASSUME CompileInv, pattern = DefaultPattern, Pattern!Compile, ~compiled, NEW m \in 0..8,
         Row(i, Len(literal), m), Ahead(ops, m), i \in {0, 3, 8, 9, 10}
  PROVE  ~compiled' /\ Row(i', Len(literal'), m) /\ Ahead(ops', m)
<1> DEFINE ch == pattern[i + 1]
           l == Len(literal)
<1>0. i \in Nat /\ Len(pattern) = 45 /\ i < Len(pattern)
  BY DefaultLength
<1>1. ch # "%"
  <2>1. CASE i = 0
    <3>1. i + 1 = 1
      BY <2>1
    <3>2. ch = "["
      BY <3>1, DefaultChars, Zenon
    <3> HIDE DEF ch
    <3> QED BY <3>2
  <2>2. CASE i = 3
    <3>1. i + 1 = 4
      BY <2>2
    <3>2. ch = " "
      BY <3>1, DefaultChars, Zenon
    <3> HIDE DEF ch
    <3> QED BY <3>2
  <2>3. CASE i = 8
    <3>1. i + 1 = 9
      BY <2>3
    <3>2. ch = "]"
      BY <3>1, DefaultChars, Zenon
    <3> HIDE DEF ch
    <3> QED BY <3>2
  <2>4. CASE i = 9
    <3>1. i + 1 = 10
      BY <2>4
    <3>2. ch = " "
      BY <3>1, DefaultChars, Zenon
    <3> HIDE DEF ch
    <3> QED BY <3>2
  <2>5. CASE i = 10
    <3>1. i + 1 = 11
      BY <2>5
    <3>2. ch = "["
      BY <3>1, DefaultChars, Zenon
    <3> HIDE DEF ch
    <3> QED BY <3>2
  <2> QED BY <2>1, <2>2, <2>3, <2>4, <2>5
<1>2. literal' = Cat(literal, <<ch>>) /\ i' = i + 1 /\ ops' = ops /\ compiled' = compiled
  BY <1>0, <1>1, TurnAtChar
<1>3. literal \in Seq(Chars) /\ l \in Nat
  BY DEF CompileInv, Scanned
<1>4. Len(literal') = l + 1
  <2> HIDE DEF ch
  <2> QED BY <1>2, <1>3 DEF Cat
<1> HIDE DEF ch, l
<1>5. Row(i, l, m)
  BY DEF l
<1>6. Row(i + 1, l + 1, m)
  BY <1>3, <1>5 DEF Row
<1> QED BY <1>2, <1>4, <1>6

LEMMA RowDirective ==
  ASSUME CompileInv, pattern = DefaultPattern, Pattern!Compile, ~compiled, NEW m \in 0..8,
         Row(i, Len(literal), m), Ahead(ops, m), i \in {1, 4, 6, 11, 13, 15}
  PROVE  /\ ~compiled' /\ i' = i + 2 /\ Len(literal') = 0
         /\ Ahead(ops', m + 1 + (IF Len(literal) = 0 THEN 0 ELSE 1))
<1> DEFINE c == pattern[i + 2]
           l == Len(literal)
           m1 == IF l = 0 THEN m ELSE m + 1
           n == m1 + 1
<1>0. i \in Nat /\ Len(pattern) = 45 /\ i + 1 < Len(pattern) /\ m \in Nat
  BY DefaultLength
<1>a. literal \in Seq(Chars) /\ l \in Nat
  BY DEF CompileInv, Scanned
<1>b. Row(i, l, m)
  OBVIOUS
<1> HIDE DEF l
<1>1. pattern[i + 1] = "%" /\ c \in {"D", "T", "e", "C", "L", "R"} /\ FrontType[n] = Pattern!Directive[c]
      /\ FrontLen[n] = 0 /\ (l # 0 => FrontType[m1] = "Literal" /\ FrontLen[m1] = l)
  <2>1. CASE i = 1
    <3>1. l = 1 /\ m = 0
      BY <1>b, <2>1 DEF Row
    <3>2. m1 = 1 /\ n = 2
      BY <3>1
    <3>a. i + 1 = 2 /\ i + 2 = 3
      BY <2>1
    <3>3. pattern[i + 1] = "%" /\ c = "D"
      BY <3>a, DefaultChars, Zenon
    <3> QED BY <3>1, <3>2, <3>3, FrontOps, DirectiveMeanings
  <2>2. CASE i = 4
    <3>1. l = 1 /\ m = 2
      BY <1>b, <2>2 DEF Row
    <3>2. m1 = 3 /\ n = 4
      BY <3>1
    <3>a. i + 1 = 5 /\ i + 2 = 6
      BY <2>2
    <3>3. pattern[i + 1] = "%" /\ c = "T"
      BY <3>a, DefaultChars, Zenon
    <3> QED BY <3>1, <3>2, <3>3, FrontOps, DirectiveMeanings
  <2>3. CASE i = 6
    <3>1. l = 0 /\ m = 4
      BY <1>b, <2>3 DEF Row
    <3>2. m1 = 4 /\ n = 5
      BY <3>1
    <3>a. i + 1 = 7 /\ i + 2 = 8
      BY <2>3
    <3>3. pattern[i + 1] = "%" /\ c = "e"
      BY <3>a, DefaultChars, Zenon
    <3> QED BY <3>1, <3>2, <3>3, FrontOps, DirectiveMeanings
  <2>4. CASE i = 11
    <3>1. l = 3 /\ m = 5
      BY <1>b, <2>4 DEF Row
    <3>2. m1 = 6 /\ n = 7
      BY <3>1
    <3>a. i + 1 = 12 /\ i + 2 = 13
      BY <2>4
    <3>3. pattern[i + 1] = "%" /\ c = "C"
      BY <3>a, DefaultChars, Zenon
    <3> QED BY <3>1, <3>2, <3>3, FrontOps, DirectiveMeanings
  <2>5. CASE i = 13
    <3>1. l = 0 /\ m = 7
      BY <1>b, <2>5 DEF Row
    <3>2. m1 = 7 /\ n = 8
      BY <3>1
    <3>a. i + 1 = 14 /\ i + 2 = 15
      BY <2>5
    <3>3. pattern[i + 1] = "%" /\ c = "L"
      BY <3>a, DefaultChars, Zenon
    <3> QED BY <3>1, <3>2, <3>3, FrontOps, DirectiveMeanings
  <2>6. CASE i = 15
    <3>1. l = 0 /\ m = 8
      BY <1>b, <2>6 DEF Row
    <3>2. m1 = 8 /\ n = 9
      BY <3>1
    <3>a. i + 1 = 16 /\ i + 2 = 17
      BY <2>6
    <3>3. pattern[i + 1] = "%" /\ c = "R"
      BY <3>a, DefaultChars, Zenon
    <3> QED BY <3>1, <3>2, <3>3, FrontOps, DirectiveMeanings
  <2> HIDE DEF c, m1, n
  <2> QED BY <2>1, <2>2, <2>3, <2>4, <2>5, <2>6
<1>2. c \in DOMAIN Pattern!Directive
  <2> HIDE DEF c
  <2> QED BY <1>1, DirectiveMeanings
<1>3. /\ ops' = Append(Flush(ops, literal), Of(Pattern!Directive[c]))
      /\ literal' = << >> /\ i' = i + 2 /\ compiled' = compiled
  BY <1>0, <1>1, <1>2, TurnAtDirective
<1>4. Ahead(ops', n)
  <2>1. m1 = (IF Len(literal) = 0 THEN m ELSE m + 1) /\ n = m1 + 1
    BY DEF l
  <2>2. Len(literal) # 0 => FrontType[m1] = "Literal" /\ FrontLen[m1] = Len(literal)
    BY <1>1 DEF l
  <2>3. FrontType[n] = Pattern!Directive[c] /\ FrontLen[n] = 0
    BY <1>1
  <2> HIDE DEF m1, n, c
  <2> QED BY <1>0, <1>a, <1>2, <1>3, <2>1, <2>2, <2>3, AheadDirective
<1>5. n = m + 1 + (IF Len(literal) = 0 THEN 0 ELSE 1)
  BY <1>0 DEF l
<1> HIDE DEF n
<1> QED BY <1>3, <1>4, <1>5

LEMMA ColourCompile ==
  ASSUME CompileInv, pattern = DefaultPattern, Pattern!Compile,
         \/ ~compiled /\ \E m \in 0..8 : Row(i, Len(literal), m) /\ Ahead(ops, m)
         \/ i >= 17 /\ Past(ops)
  PROVE  \/ ~compiled' /\ \E m \in 0..8 : Row(i', Len(literal'), m) /\ Ahead(ops', m)
         \/ i' >= 17 /\ Past(ops')
<1>1. CASE i >= 17 /\ Past(ops)
  BY <1>1, PastCompile
<1>2. ASSUME ~compiled, NEW m \in 0..8, Row(i, Len(literal), m), Ahead(ops, m)
      PROVE  \/ ~compiled' /\ \E x \in 0..8 : Row(i', Len(literal'), x) /\ Ahead(ops', x)
             \/ i' >= 17 /\ Past(ops')
  <2>1. CASE i \in {0, 3, 8, 9, 10}
    <3>1. ~compiled' /\ Row(i', Len(literal'), m) /\ Ahead(ops', m)
      BY <1>2, <2>1, RowChar
    <3> QED BY <3>1
  <2>2. CASE i \in {1, 4, 6, 11, 13, 15}
    <3> DEFINE l == Len(literal)
               n == m + 1 + (IF l = 0 THEN 0 ELSE 1)
    <3>1. ~compiled' /\ i' = i + 2 /\ Len(literal') = 0 /\ Ahead(ops', n)
      BY <1>2, <2>2, RowDirective
    <3>2. Row(i, l, m)
      BY <1>2
    <3> HIDE DEF l
    <3>3. CASE i = 15
      <4>1. n = 9 /\ i' = 17
        BY <3>1, <3>2, <3>3 DEF Row
      <4> HIDE DEF n
      <4>2. Past(ops')
        BY <3>1, <4>1, AheadPast
      <4> QED BY <4>1, <4>2
    <3>4. CASE i # 15
      <4>1. n \in 0..8 /\ Row(i + 2, 0, n)
        BY <2>2, <3>2, <3>4 DEF Row
      <4> HIDE DEF n
      <4> QED BY <3>1, <4>1
    <3> QED BY <3>3, <3>4
  <2>3. i \in {0, 3, 8, 9, 10} \/ i \in {1, 4, 6, 11, 13, 15}
    BY <1>2 DEF Row
  <2> QED BY <2>1, <2>2, <2>3
<1> QED BY <1>1, <1>2

LEMMA RowStart ==
  ASSUME i = 0, literal = << >>, ops = << >>
  PROVE  \E m \in 0..8 : Row(i, Len(literal), m) /\ Ahead(ops, m)
<1>1. Len(literal) = 0 /\ ops \in Seq(Ops) /\ Len(ops) = 0
  OBVIOUS
<1>2. Ahead(ops, 0)
  BY <1>1 DEF Ahead
<1>3. Row(i, Len(literal), 0) /\ 0 \in 0..8
  BY <1>1 DEF Row
<1> QED BY <1>2, <1>3

LEMMA ColourInvInit == Init => ColourInv
<1> SUFFICES ASSUME Init PROVE ColourInv
  OBVIOUS
<1>1. i = 0 /\ literal = << >> /\ ops = << >> /\ compiled = FALSE
  BY DEF Init, Pattern!CompileInit
<1> QED BY <1>1, RowStart DEF ColourInv

LEMMA ColourInvNext == CompileInv /\ ColourInv /\ [Next]_vars => ColourInv'
<1> SUFFICES ASSUME CompileInv, ColourInv, [Next]_vars PROVE ColourInv'
  OBVIOUS
<1>1. ASSUME UNCHANGED <<formatter, pattern, i, literal, ops, compiled>> PROVE ColourInv'
  BY <1>1 DEF ColourInv
<1>2. CASE Compile
  <2>1. formatter = "pattern" /\ formatter' = formatter /\ pattern' = pattern /\ Pattern!Compile
    BY <1>2 DEF Compile, Pattern!Compile, CompileInv
  <2>2. CASE pattern = DefaultPattern
    <3>1. \/ ~compiled /\ \E m \in 0..8 : Row(i, Len(literal), m) /\ Ahead(ops, m)
          \/ i >= 17 /\ Past(ops)
      BY <2>1, <2>2 DEF ColourInv
    <3>2. \/ ~compiled' /\ \E m \in 0..8 : Row(i', Len(literal'), m) /\ Ahead(ops', m)
          \/ i' >= 17 /\ Past(ops')
      BY <2>1, <2>2, <3>1, ColourCompile
    <3> QED BY <3>2 DEF ColourInv
  <2>3. CASE pattern # DefaultPattern
    <3>1. pattern' # DefaultPattern'
      BY <2>1, <2>3 DEF DefaultPattern
    <3> QED BY <3>1 DEF ColourInv
  <2> QED BY <2>2, <2>3
<1>3. ASSUME NEW text \in Texts, NEW plain \in BOOLEAN, LogImpl(text, plain) PROVE ColourInv'
  <2>1. UNCHANGED <<formatter, pattern, i, literal, ops, compiled>>
    BY <1>3 DEF LogImpl, formatterVars
  <2> QED BY <1>1, <2>1
<1>4. CASE Filtered \/ HaveFormatter \/ DoFormat \/ PutLine \/ OtherSinks
  <2>1. UNCHANGED <<formatter, pattern, i, literal, ops, compiled>>
    BY <1>4 DEF Filtered, HaveFormatter, DoFormat, PutLine, OtherSinks, formatterVars
  <2> QED BY <1>1, <2>1
<1>5. CASE MakeFormatter
  <2>1. i = 0 /\ literal = << >> /\ ops = << >> /\ ~compiled
    BY <1>5 DEF MakeFormatter, CompileInv
  <2>2. UNCHANGED <<i, literal, ops, compiled>>
    BY <1>5 DEF MakeFormatter
  <2>3. \E m \in 0..8 : Row(i, Len(literal), m) /\ Ahead(ops, m)
    BY <2>1, RowStart
  <2> QED BY <2>1, <2>2, <2>3 DEF ColourInv
<1>6. CASE FormatLine
  <2>1. UNCHANGED <<formatter, pattern, i, literal, ops, compiled>>
    BY <1>6 DEF FormatLine, Pattern!Format, Pattern!compileVars
  <2> QED BY <1>1, <2>1
<1>7. CASE UNCHANGED vars
  <2>1. UNCHANGED <<formatter, pattern, i, literal, ops, compiled>>
    BY <1>7 DEF vars, formatterVars
  <2> QED BY <1>1, <2>1
<1> QED BY <1>2, <1>3, <1>4, <1>5, <1>6, <1>7 DEF Next

\* The console's line up to the end of the colour is short.
LEMMA FrontFits ==
  ASSUME CompileInv, EntryInv, Past(ops)
  PROVE  PatternDue[9] <= 46 /\ OpLens[9] = (IF enable_color THEN 4 ELSE 0)
         /\ (OpLens[7] > 0 => enable_color)
<1> DEFINE b == OpLens
           w == PatternDue
<1>0. OpLens \in Seq(Nat) /\ Len(OpLens) = Len(ops) /\ Len(ops) \in Nat /\ DOMAIN ops = 1..Len(ops)
  BY OpLensType
<1>1. Len(ops) >= 9 /\ \A k \in 1..9 : IsFront(ops[k], k)
  BY DEF Past
<1>2. \A k \in 1..9 : k \in 1..Len(ops) /\ k \in DOMAIN ops
  <2> DEFINE l == Len(ops)
  <2>1. l \in Nat /\ l >= 9 /\ DOMAIN ops = 1..l
    BY <1>0, <1>1
  <2> HIDE DEF l
  <2>2. \A k \in 1..9 : k \in 1..l /\ k \in DOMAIN ops
    BY <2>1
  <2> QED BY <2>2 DEF l
<1>3. \A k \in 1..9 : b[k] = Pattern!OpLen(ops[k]) /\ b[k] \in Nat
  BY <1>0, <1>2, SeqIsFunction DEF OpLens
<1>4. level + 1 \in {1, 2, 3, 4, 5, 6, 7} /\ enable_color \in BOOLEAN
  BY DEF EntryInv
<1>5. Pattern!LevelLen[level + 1] \in 0..5 /\ Pattern!ColorLen[level + 1] \in 0..7
  BY <1>4 DEF Pattern!LevelLen, Pattern!ColorLen
<1>6. Pattern!Formatted(10, 128) = 10
  BY DEF Pattern!Formatted
<1>7. /\ ops[1].type = "Literal" /\ ops[2].type = "Date" /\ ops[3].type = "Literal"
      /\ ops[4].type = "Time" /\ ops[5].type = "Microseconds" /\ ops[6].type = "Literal"
      /\ ops[7].type = "ColorStart" /\ ops[8].type = "LevelFull" /\ ops[9].type = "ColorReset"
      /\ Len(ops[1].literal) = 1 /\ Len(ops[3].literal) = 1 /\ Len(ops[6].literal) = 3
  <2>1. /\ IsFront(ops[1], 1) /\ IsFront(ops[2], 2) /\ IsFront(ops[3], 3) /\ IsFront(ops[4], 4)
        /\ IsFront(ops[5], 5) /\ IsFront(ops[6], 6) /\ IsFront(ops[7], 7) /\ IsFront(ops[8], 8)
        /\ IsFront(ops[9], 9)
    BY <1>1
  <2> QED BY <2>1, FrontOps, Zenon DEF IsFront
<1>b. /\ b[1] = Pattern!OpLen(ops[1]) /\ b[2] = Pattern!OpLen(ops[2]) /\ b[3] = Pattern!OpLen(ops[3])
      /\ b[4] = Pattern!OpLen(ops[4]) /\ b[5] = Pattern!OpLen(ops[5]) /\ b[6] = Pattern!OpLen(ops[6])
  BY <1>3
<1>8. b[1] = 1 /\ b[3] = 1 /\ b[6] = 3
  <2>1. /\ Pattern!OpLen(ops[1]) = Len(ops[1].literal) /\ Pattern!OpLen(ops[3]) = Len(ops[3].literal)
        /\ Pattern!OpLen(ops[6]) = Len(ops[6].literal)
    BY <1>7, Zenon DEF Pattern!OpLen
  <2> QED BY <1>7, <1>b, <2>1, Zenon
<1>9. b[2] = 10 /\ b[4] = 8 /\ b[5] = 7
  <2>1. /\ Pattern!OpLen(ops[2]) = Pattern!Formatted(10, 128) /\ Pattern!OpLen(ops[4]) = 8
        /\ Pattern!OpLen(ops[5]) = 7
    BY <1>7, Zenon DEF Pattern!OpLen
  <2> QED BY <1>6, <1>b, <2>1, Zenon
<1>a. b[7] = Pattern!OpLen(ops[7]) /\ b[8] = Pattern!OpLen(ops[8]) /\ b[9] = Pattern!OpLen(ops[9])
  BY <1>3
<1>10. b[8] \in 0..5
  <2>1. Pattern!OpLen(ops[8]) = Pattern!LevelLen[level + 1]
    BY <1>7, Zenon DEF Pattern!OpLen
  <2> QED BY <1>a, <1>5, <2>1
<1>11. b[7] \in 0..7 /\ (b[7] > 0 => enable_color)
  <2> DEFINE cl == Pattern!ColorLen[level + 1]
  <2>1. Pattern!OpLen(ops[7]) = IF enable_color THEN cl ELSE 0
    BY <1>7, Zenon DEF Pattern!OpLen
  <2>2. cl \in 0..7
    BY <1>5
  <2> HIDE DEF cl
  <2> QED BY <1>a, <2>1, <2>2
<1>12. b[9] = (IF enable_color THEN 4 ELSE 0) /\ b[9] \in 0..4
  <2>1. Pattern!OpLen(ops[9]) = IF enable_color THEN 4 ELSE 0
    BY <1>7, Zenon DEF Pattern!OpLen
  <2> QED BY <1>a, <2>1
<1>13. w[0] = 0 /\ \A k \in 1..Len(ops) : w[k] = w[k - 1] + b[k]
  BY <1>0, RunningWidthDef DEF PatternDue
<1>14. /\ w[1] = w[0] + b[1] /\ w[2] = w[1] + b[2] /\ w[3] = w[2] + b[3] /\ w[4] = w[3] + b[4]
       /\ w[5] = w[4] + b[5] /\ w[6] = w[5] + b[6] /\ w[7] = w[6] + b[7] /\ w[8] = w[7] + b[8]
       /\ w[9] = w[8] + b[9]
  <2>1. \A k \in 1..9 : w[k] = w[k - 1] + b[k]
    <3> HIDE DEF w, b
    <3> QED BY <1>2, <1>13
  <2> HIDE DEF w, b
  <2> QED BY <2>1
<1> HIDE DEF w, b
<1>15. w[9] = 30 + b[7] + b[8] + b[9]
  BY <1>8, <1>9, <1>10, <1>11, <1>12, <1>13, <1>14
<1>16. w[9] <= 46
  BY <1>10, <1>11, <1>12, <1>15
<1> QED BY <1>11, <1>12, <1>16 DEF w, b

LEMMA ColourNow == CompileInv /\ EntryInv /\ LineInv /\ ColourInv => ColourIsReset
<1> SUFFICES ASSUME CompileInv, EntryInv, LineInv, ColourInv,
                    pc = "line", ended, buf_size = SinkBuf, formatter = "pattern", pattern = DefaultPattern,
                    NEW k \in DOMAIN kept, Pieces[k] = "ColorStart", kept[k] > 0
             PROVE  \E j \in DOMAIN kept : j > k /\ Pieces[j] = "ColorReset" /\ kept[j] = 4
  BY DEF ColourIsReset
<1>0. SinkBuf \in Nat /\ SinkBuf > 46 /\ buf_size # 0
  BY BuffersAssumption
<1>1. Past(ops)
  BY DEF EntryInv, ColourInv
<1>2. PatternLine(OpLens, PatternDue, buf_size, pos, kept) /\ Len(kept) = Len(ops)
  BY <1>0 DEF LineInv
<1>3. /\ kept \in Seq(Nat)
      /\ \A m \in 1..Len(kept) : kept[m] <= OpLens[m] /\ (PatternDue[m] < buf_size => kept[m] = OpLens[m])
  BY <1>2 DEF PatternLine
<1>4. OpLens \in Seq(Nat) /\ Len(OpLens) = Len(ops) /\ Len(ops) \in Nat /\ DOMAIN ops = 1..Len(ops)
  BY OpLensType
<1>5. /\ Len(ops) >= 9 /\ (\A m \in 1..9 : IsFront(ops[m], m))
      /\ \A m \in 10..Len(ops) : ops[m].type # "ColorStart"
  BY <1>1 DEF Past
<1>6. DOMAIN kept = 1..Len(ops)
  BY <1>2, <1>3
<1>7. \A m \in 1..Len(ops) : Pieces[m] = ops[m].type
  BY <1>4 DEF Pieces
<1>8. k = 7
  <2>1. k \in 1..Len(ops) /\ ops[k].type = "ColorStart"
    BY <1>6, <1>7
  <2>2. k \in 1..9
    <3>1. ~(k \in 10..Len(ops))
      BY <1>5, <2>1, Zenon
    <3> DEFINE n == Len(ops)
    <3>2. n \in Nat /\ k \in 1..n /\ ~(k \in 10..n)
      BY <1>4, <2>1, <3>1
    <3> HIDE DEF n
    <3> QED BY <3>2
  <2>3. FrontType[k] = "ColorStart"
    BY <1>5, <2>1, <2>2 DEF IsFront
  <2>4. k \in {1, 2, 3, 4, 5, 6, 7, 8, 9}
    BY <2>2
  <2> QED BY <2>3, <2>4, FrontOps
<1>9. 7 \in 1..Len(ops) /\ 9 \in 1..Len(ops)
  BY <1>4, <1>5
<1>10. PatternDue[9] <= 46 /\ OpLens[9] = (IF enable_color THEN 4 ELSE 0) /\ (OpLens[7] > 0 => enable_color)
  BY <1>1, FrontFits
<1>11. OpLens[7] \in Nat /\ kept[7] \in Nat /\ kept[7] <= OpLens[7] /\ kept[7] > 0
  BY <1>2, <1>3, <1>4, <1>8, <1>9, SeqIsFunction
<1>12. OpLens[9] = 4
  BY <1>10, <1>11
<1>13. PatternDue[9] \in Nat
  <2>1. PatternDue \in [0..Len(ops) -> Nat]
    BY <1>4, RunningWidthDef DEF PatternDue
  <2>2. 9 \in 0..Len(ops)
    BY <1>9
  <2> QED BY <2>1, <2>2
<1>14. PatternDue[9] < buf_size
  BY <1>0, <1>10, <1>13
<1>15. kept[9] = 4
  BY <1>2, <1>3, <1>9, <1>12, <1>14
<1>16. Pieces[9] = "ColorReset"
  <2>1. IsFront(ops[9], 9)
    <3>1. 9 \in 1..9
      OBVIOUS
    <3> QED BY <1>5, <3>1, Zenon
  <2> QED BY <1>7, <1>9, <2>1, FrontOps DEF IsFront
<1> QED BY <1>6, <1>8, <1>9, <1>15, <1>16

\* However long tags, names and message are, a colour that the console's own
\* pattern turns on is turned off again in the line.
THEOREM ColoursAreReset == Spec => []ColourIsReset
<1>1. Init => ColourInv
  BY ColourInvInit
<1>2. CompileInv /\ ColourInv /\ [Next]_vars => ColourInv'
  BY ColourInvNext
<1> QED BY <1>1, <1>2, LineInvAlways, ColourNow, PTL DEF Spec
=============================================================================
