------------------------------- MODULE FoldLemmas -------------------------------
(***************************************************************************)
(* Induction, stated of sets so that it can be cited with a set in place of*)
(* a predicate, and what it shows of the sums the specifications fold over *)
(* a set of notes or a sequence of trades: they do not depend on the order *)
(* of the folding.                                                         *)
(***************************************************************************)
EXTENDS Integers, SequencesExt, FiniteSetTheorems, WellFoundedInduction, TLAPS

-------------------------------------------------------------------------------
(* Induction *)

\* A nonempty set of subsets of a finite set has a minimal member.
LEMMA MinimalSubset ==
  ASSUME NEW S, IsFiniteSet(S), NEW B, B \subseteq SUBSET S, B # {}
  PROVE  \E U \in B : \A V \in B : V \subseteq U => V = U
<1>1. IsWellFoundedOn(StrictSubsetOrdering(S), FiniteSubsetsOf(S))
  BY FS_StrictSubsetOrderingWellFounded
<1>2. FiniteSubsetsOf(S) = SUBSET S
  BY FS_FiniteSubsetsOfFinite
<1>3. PICK U \in B : \A V \in B : ~(<<V, U>> \in StrictSubsetOrdering(S))
  BY <1>1, <1>2, WFMin
<1>4. ASSUME NEW V \in B, V \subseteq U PROVE V = U
  <2>1. SUFFICES ASSUME V # U PROVE FALSE
    OBVIOUS
  <2>2. <<V, U>> \in StrictSubsetOrdering(S)
    BY <1>4, <2>1 DEF StrictSubsetOrdering
  <2>3. QED
    BY <1>3, <2>2
<1>5. QED
  BY <1>4

\* Induction over the natural numbers: the intervals 0 .. k that are cut short
\* by a number outside T would have a minimal one.
LEMMA SetInduction ==
  ASSUME NEW T, 0 \in T, \A n \in Nat : n \in T => n + 1 \in T
  PROVE  Nat \subseteq T
<1>1. SUFFICES ASSUME NEW m \in Nat, m \notin T PROVE FALSE
  OBVIOUS
<1> DEFINE B == { U \in SUBSET (0 .. m) : \E k \in 0 .. m : k \notin T /\ U = 0 .. k }
<1>2. IsFiniteSet(0 .. m)
  BY FS_Interval
<1>3. 0 .. m \in B
  BY <1>1
<1>4. B # {} /\ B \subseteq SUBSET (0 .. m)
  BY <1>3
<1>5. PICK U \in B : \A V \in B : V \subseteq U => V = U
  <2> DEFINE I == 0 .. m
  <2> HIDE DEF B, I
  <2>1. IsFiniteSet(I)
    BY <1>2 DEF I
  <2>2. B \subseteq SUBSET I
    BY <1>4 DEF I
  <2>3. B # {}
    BY <1>4
  <2>4. QED
    BY <2>1, <2>2, <2>3, MinimalSubset
<1>6. PICK k \in 0 .. m : k \notin T /\ U = 0 .. k
  BY <1>5
<1>7. k # 0 /\ k - 1 \in Nat /\ k - 1 \in 0 .. m
  BY <1>6
<1>8. k - 1 \notin T
  BY <1>6, <1>7
<1>9. 0 .. (k - 1) \in B
  <2>1. 0 .. (k - 1) \in SUBSET (0 .. m)
    BY <1>7
  <2>2. QED
    BY <1>7, <1>8, <2>1
<1>10. 0 .. (k - 1) \subseteq U /\ 0 .. (k - 1) # U
  <2>1. k \in 0 .. k /\ k \notin 0 .. (k - 1)
    BY <1>6
  <2>2. QED
    BY <1>6, <1>7, <2>1
<1>11. QED
  BY <1>5, <1>9, <1>10

-------------------------------------------------------------------------------
(* Extreme elements of finite sets of numbers *)

\* A nonempty finite set of numbers has a greatest element.
LEMMA GreatestExists ==
  ASSUME NEW S, S \subseteq Nat, IsFiniteSet(S), S # {}
  PROVE  Max(S) \in S /\ \A x \in S : x <= Max(S)
<1> DEFINE B == { U \in SUBSET S : \E k \in S : U = { x \in S : x > k } }
<1>1. B \subseteq SUBSET S /\ B # {}
  OBVIOUS
<1>2. PICK U \in B : \A V \in B : V \subseteq U => V = U
  <2> HIDE DEF B
  <2>1. B \subseteq SUBSET S
    BY <1>1
  <2>2. B # {}
    BY <1>1
  <2>3. IsFiniteSet(S)
    OBVIOUS
  <2>4. QED
    BY ONLY <2>1, <2>2, <2>3, MinimalSubset
<1>3. PICK k \in S : U = { x \in S : x > k }
  BY <1>2
<1>4. ASSUME NEW x \in S, x > k PROVE FALSE
  <2> DEFINE V == { y \in S : y > x }
  <2>1. V \in B
    OBVIOUS
  <2>1a. V \subseteq U
    <3>1. ASSUME NEW y \in S, y > x PROVE y > k
      BY <1>4, <3>1
    <3>2. QED
      BY <1>3, <3>1
  <2>2. x \in U /\ x \notin V
    BY <1>3, <1>4
  <2>3. QED
    BY <1>2, <2>1, <2>1a, <2>2
<1>5. \E m \in S : \A x \in S : m >= x
  BY <1>4
<1>6. Max(S) \in S /\ \A x \in S : Max(S) >= x
  BY <1>5 DEF Max
<1>7. QED
  BY <1>6

LEMMA LeastExists ==
  ASSUME NEW S, S \subseteq Nat, S # {}
  PROVE  Min(S) \in S /\ \A x \in S : Min(S) <= x
<1>1. PICK m \in S : TRUE
  OBVIOUS
<1> DEFINE T == { n \in Nat : (\E k \in S : k <= n) => \E k \in S : \A x \in S : k <= x }
<1>2. 0 \in T
  OBVIOUS
<1>3. ASSUME NEW n \in Nat, n \in T PROVE n + 1 \in T
  BY <1>3
<1>4. m \in T
  <2> HIDE DEF T
  <2>1. QED
    BY <1>1, <1>2, <1>3, SetInduction
<1>5. \E k \in S : \A x \in S : k <= x
  BY <1>1, <1>4
<1>6. QED
  BY <1>5 DEF Min

-------------------------------------------------------------------------------
(* Sums of weights *)

\* What a fold that adds up weights builds: a partial sum for every subset.
PartialSums(f, S, w) ==
  f = [s \in SUBSET S |->
         IF s = {} THEN 0
         ELSE LET x == CHOOSE x \in s : TRUE IN f[s \ {x}] + w[x]]

\* The partial sums exist: applying the recursion once more settles the sets of
\* one element more.
LEMMA PartialSumsExist ==
  ASSUME NEW S, IsFiniteSet(S), NEW w
  PROVE  \E f : PartialSums(f, S, w)
<1> DEFINE Next(f) == [s \in SUBSET S |->
                         IF s = {} THEN 0
                         ELSE LET x == CHOOSE x \in s : TRUE IN f[s \ {x}] + w[x]]
           Good(f, n) == /\ f = [s \in SUBSET S |-> f[s]]
                         /\ \A s \in SUBSET S : Cardinality(s) <= n => f[s] = Next(f)[s]
           T == { n \in Nat : \E f : Good(f, n) }
<1>1. \A s \in SUBSET S : IsFiniteSet(s) /\ Cardinality(s) \in Nat /\ Cardinality(s) <= Cardinality(S)
  BY FS_Subset, FS_CardinalityType
<1>2. \A s \in SUBSET S : Cardinality(s) <= 0 => s = {}
  BY <1>1, FS_EmptySet
<1>3. 0 \in T
  <2>1. Good([s \in SUBSET S |-> 0], 0)
    BY <1>2
  <2>2. QED
    BY <2>1
<1>4. ASSUME NEW n \in Nat, n \in T PROVE n + 1 \in T
  <2>1. PICK f : Good(f, n)
    BY <1>4
  <2> DEFINE g == Next(f)
  <2>2. ASSUME NEW s \in SUBSET S, Cardinality(s) <= n + 1 PROVE g[s] = Next(g)[s]
    <3>1. CASE s = {}
      BY <3>1
    <3>2. CASE s # {}
      <4> DEFINE x == CHOOSE x \in s : TRUE
      <4>1. x \in s
        BY <3>2
      <4>2. s \ {x} \in SUBSET S /\ Cardinality(s \ {x}) <= n
        <5>1. IsFiniteSet(s) /\ Cardinality(s) \in Nat
          BY <1>1
        <5> HIDE DEF x
        <5>2. Cardinality(s \ {x}) = Cardinality(s) - 1
          BY <4>1, <5>1, FS_RemoveElement
        <5>3. QED
          BY <2>2, <5>1, <5>2
      <4>3. f[s \ {x}] = g[s \ {x}]
        BY <2>1, <4>2
      <4>4. g[s] = f[s \ {x}] + w[x] /\ Next(g)[s] = g[s \ {x}] + w[x]
        BY <3>2
      <4>5. QED
        BY <4>3, <4>4
    <3>3. QED
      BY <3>1, <3>2
  <2>3. Good(g, n + 1)
    <3>1. g = [s \in SUBSET S |-> g[s]]
      OBVIOUS
    <3> HIDE DEF g, Next
    <3>2. QED
      BY <2>2, <3>1
  <2> HIDE DEF Good, g
  <2>4. QED
    BY <2>3
<1>5. Cardinality(S) \in T
  <2> HIDE DEF T
  <2>1. Nat \subseteq T
    BY <1>3, <1>4, SetInduction
  <2>2. QED
    BY <2>1, FS_CardinalityType
<1>6. PICK f : Good(f, Cardinality(S))
  BY <1>5
<1>7. f = Next(f)
  <2>1. \A s \in SUBSET S : f[s] = Next(f)[s]
    BY <1>1, <1>6
  <2>2. f = [s \in SUBSET S |-> f[s]]
    BY <1>6
  <2>3. QED
    BY <2>1, <2>2
<1>8. QED
  BY <1>7 DEF PartialSums

\* The sum of the weights of S.
Sum(w, S) == LET f == CHOOSE f : PartialSums(f, S, w) IN f[S]

LEMMA SumIsPartialSum ==
  ASSUME NEW S, IsFiniteSet(S), NEW w
  PROVE  \E f : PartialSums(f, S, w) /\ Sum(w, S) = f[S]
BY PartialSumsExist DEF Sum

\* Partial sums of different sets agree where both are defined.
LEMMA PartialSumsAgree ==
  ASSUME NEW S, NEW R, IsFiniteSet(S), NEW w, NEW f, NEW g, PartialSums(f, S, w), PartialSums(g, R, w)
  PROVE  \A s \in SUBSET (S \cap R) : f[s] = g[s]
<1> DEFINE T == { n \in Nat : \A s \in SUBSET (S \cap R) : Cardinality(s) <= n => f[s] = g[s] }
<1>1. \A s \in SUBSET (S \cap R) : /\ IsFiniteSet(s) /\ Cardinality(s) \in Nat
                                   /\ s \in SUBSET S /\ s \in SUBSET R
  BY FS_Subset, FS_CardinalityType
<1>2. \A s \in SUBSET (S \cap R) : s = {} => f[s] = 0 /\ g[s] = 0
  BY <1>1 DEF PartialSums
<1>3. 0 \in T
  BY <1>1, <1>2, FS_EmptySet
<1>4. ASSUME NEW n \in Nat, n \in T PROVE n + 1 \in T
  <2>1. ASSUME NEW s \in SUBSET (S \cap R), Cardinality(s) <= n + 1, s # {} PROVE f[s] = g[s]
    <3> DEFINE x == CHOOSE x \in s : TRUE
    <3>1. f[s] = f[s \ {x}] + w[x] /\ g[s] = g[s \ {x}] + w[x]
      BY <1>1, <2>1 DEF PartialSums
    <3>2. x \in s
      BY <2>1
    <3> HIDE DEF x
    <3>3. IsFiniteSet(s) /\ Cardinality(s) \in Nat
      BY <1>1
    <3>4. Cardinality(s \ {x}) = Cardinality(s) - 1
      BY <3>2, <3>3, FS_RemoveElement
    <3>5. s \ {x} \in SUBSET (S \cap R) /\ Cardinality(s \ {x}) <= n
      BY <2>1, <3>3, <3>4
    <3>6. f[s \ {x}] = g[s \ {x}]
      BY <1>4, <3>5
    <3>7. QED
      BY <3>1, <3>6
  <2>2. QED
    BY <1>2, <2>1
<1>5. \A n \in Nat : n \in T
  <2> HIDE DEF T
  <2>1. Nat \subseteq T
    BY <1>3, <1>4, SetInduction
  <2>2. QED
    BY <2>1
<1>6. QED
  BY <1>1, <1>5

\* The empty set weighs nothing; another one what some member of it does, and
\* what the others do.
LEMMA SumOfEmpty ==
  ASSUME NEW w
  PROVE  Sum(w, {}) = 0
<1>1. PICK f : PartialSums(f, {}, w) /\ Sum(w, {}) = f[{}]
  BY SumIsPartialSum, FS_EmptySet
<1>2. f[{}] = 0
  BY <1>1 DEF PartialSums
<1>3. QED
  BY <1>1, <1>2

LEMMA SumUnfolds ==
  ASSUME NEW S, IsFiniteSet(S), S # {}, NEW w
  PROVE  \E x \in S : Sum(w, S) = Sum(w, S \ {x}) + w[x]
<1>1. PICK f : PartialSums(f, S, w) /\ Sum(w, S) = f[S]
  BY SumIsPartialSum
<1> DEFINE y == CHOOSE x \in S : TRUE
<1>2. f[S] = f[S \ {y}] + w[y]
  BY <1>1 DEF PartialSums
<1>3. y \in S
  OBVIOUS
<1>4. PICK x \in S : Sum(w, S) = f[S \ {x}] + w[x]
  BY <1>1, <1>2, <1>3
<1>5. IsFiniteSet(S \ {x})
  BY FS_RemoveElement
<1>6. PICK g : PartialSums(g, S \ {x}, w) /\ Sum(w, S \ {x}) = g[S \ {x}]
  BY <1>5, SumIsPartialSum
<1>7. f[S \ {x}] = g[S \ {x}]
  <2> DEFINE R == S \ {x}
  <2>1. PartialSums(g, R, w) /\ R \in SUBSET (S \cap R)
    BY <1>6
  <2> HIDE DEF R
  <2>2. f[R] = g[R]
    BY <1>1, <2>1, PartialSumsAgree
  <2>3. QED
    BY <2>2 DEF R
<1>8. QED
  BY <1>4, <1>6, <1>7

\* The sum is a number, and any member may be taken out of it.
LEMMA SumRemoved ==
  ASSUME NEW S, IsFiniteSet(S), NEW w, \A y \in S : w[y] \in Nat
  PROVE  /\ Sum(w, S) \in Nat
         /\ \A x \in S : Sum(w, S) = Sum(w, S \ {x}) + w[x]
<1> DEFINE Good(s) == /\ Sum(w, s) \in Nat
                      /\ \A x \in s : Sum(w, s) = Sum(w, s \ {x}) + w[x]
           B == { s \in SUBSET S : ~Good(s) }
<1>1. SUFFICES ASSUME ~Good(S) PROVE FALSE
  OBVIOUS
<1>2. S \in B
  BY <1>1
<1>3. PICK s \in B : \A V \in B : V \subseteq s => V = s
  <2>1. B # {}
    BY <1>2
  <2>2. B \subseteq SUBSET S
    OBVIOUS
  <2> HIDE DEF B
  <2>3. QED
    BY <2>1, <2>2, MinimalSubset
<1>4. s \in SUBSET S /\ ~Good(s) /\ IsFiniteSet(s)
  BY <1>3, FS_Subset
<1>5. \A x \in s : Good(s \ {x})
  BY <1>3
<1> HIDE DEF Good
<1>6. s # {}
  <2>1. Good({})
    BY SumOfEmpty DEF Good
  <2>2. QED
    BY <1>4, <2>1
<1>7. PICK y \in s : Sum(w, s) = Sum(w, s \ {y}) + w[y]
  BY <1>4, <1>6, SumUnfolds
<1>8. Sum(w, s) \in Nat
  BY <1>4, <1>5, <1>7 DEF Good
<1>9. ASSUME NEW x \in s PROVE Sum(w, s) = Sum(w, s \ {x}) + w[x]
  <2>1. CASE x = y
    BY <1>7, <2>1
  <2>2. CASE x # y
    <3>1. Sum(w, s \ {y}) = Sum(w, (s \ {y}) \ {x}) + w[x]
      BY <1>5, <2>2 DEF Good
    <3>2. Sum(w, s \ {x}) = Sum(w, (s \ {x}) \ {y}) + w[y]
      BY <1>5, <2>2 DEF Good
    <3>3. (s \ {x}) \ {y} = (s \ {y}) \ {x}
      OBVIOUS
    <3>4. /\ w[x] \in Nat /\ w[y] \in Nat
          /\ Sum(w, s \ {y}) \in Nat /\ Sum(w, s \ {x}) \in Nat
      BY <1>4, <1>5 DEF Good
    <3>5. Sum(w, (s \ {y}) \ {x}) \in Nat
      <4>1. IsFiniteSet(s \ {x}) /\ s \ {x} \in SUBSET S
        BY <1>4, FS_RemoveElement
      <4>2. Good((s \ {x}) \ {y})
        <5>1. (s \ {x}) \ {y} \notin B
          BY <1>3
        <5>2. QED
          BY <1>4, <5>1
      <4>3. QED
        BY <3>3, <4>2 DEF Good
    <3>6. Sum(w, s \ {x}) = Sum(w, (s \ {y}) \ {x}) + w[y]
      BY <3>2, <3>3
    <3> DEFINE rest == Sum(w, (s \ {y}) \ {x})
               p == w[x]
               q == w[y]
    <3>7. Sum(w, s) = (rest + p) + q /\ Sum(w, s \ {x}) = rest + q /\ rest \in Nat
      BY <1>7, <3>1, <3>5, <3>6
    <3>8. p \in Nat /\ q \in Nat
      BY <3>4
    <3> HIDE DEF rest, p, q
    <3>9. (rest + p) + q = (rest + q) + p
      BY <3>7, <3>8
    <3>10. QED
      BY <3>7, <3>9 DEF p
  <2>3. QED
    BY <2>1, <2>2
<1>10. QED
  BY <1>4, <1>8, <1>9 DEF Good

\* What a new member adds.
LEMMA SumAdded ==
  ASSUME NEW S, IsFiniteSet(S), NEW w, \A y \in S : w[y] \in Nat,
         NEW x, x \notin S, w[x] \in Nat
  PROVE  Sum(w, S \cup {x}) = Sum(w, S) + w[x]
<1>1. IsFiniteSet(S \cup {x})
  BY FS_AddElement
<1>2. Sum(w, S \cup {x}) = Sum(w, (S \cup {x}) \ {x}) + w[x]
  BY <1>1, SumRemoved
<1>3. (S \cup {x}) \ {x} = S
  OBVIOUS
<1>4. QED
  BY <1>2, <1>3

-------------------------------------------------------------------------------
(* The sums the specifications fold *)

\* The sum of the amounts of a set of notes.
AmountOf(S) == FoldSet(LAMBDA note, sum : sum + note.amount, 0, S)

LEMMA AmountIsSum ==
  ASSUME NEW S, IsFiniteSet(S), NEW w, \A x \in S : w[x] = x.amount
  PROVE  AmountOf(S) = Sum(w, S)
<1> DEFINE NoteSums(f) ==
             f = [s \in SUBSET S |->
                    IF s = {} THEN 0
                    ELSE LET x == CHOOSE x \in s : TRUE IN f[s \ {x}] + x.amount]
           g == CHOOSE f : NoteSums(f)
<1>1. AmountOf(S) = g[S]
  BY DEF AmountOf, FoldSet, MapThenFoldSet
<1>2. ASSUME NEW s \in SUBSET S, s # {}
      PROVE  w[CHOOSE x \in s : TRUE] = (CHOOSE x \in s : TRUE).amount
  BY <1>2
<1>3. \A f : PartialSums(f, S, w) <=> NoteSums(f)
  BY <1>2 DEF PartialSums
<1>4. PICK h : PartialSums(h, S, w) /\ Sum(w, S) = h[S]
  BY SumIsPartialSum
<1>5. PartialSums(g, S, w)
  <2> HIDE DEF NoteSums
  <2>1. NoteSums(g)
    BY <1>3, <1>4
  <2>2. QED
    BY <1>3, <2>1
<1> HIDE DEF g
<1>6. g[S] = h[S]
  BY <1>4, <1>5, PartialSumsAgree
<1>7. QED
  BY <1>1, <1>4, <1>6

LEMMA AmountOfEmpty == AmountOf({}) = 0
<1>1. \A w : AmountOf({}) = Sum(w, {})
  BY AmountIsSum, FS_EmptySet
<1>2. QED
  BY <1>1, SumOfEmpty

\* The sum is a number, and any member may be taken out of it.
LEMMA AmountRemoved ==
  ASSUME NEW S, IsFiniteSet(S), \A note \in S : note.amount \in Nat
  PROVE  /\ AmountOf(S) \in Nat
         /\ \A x \in S : AmountOf(S) = AmountOf(S \ {x}) + x.amount
<1> DEFINE w == [x \in S |-> x.amount]
<1>1. \A x \in S : w[x] = x.amount /\ w[x] \in Nat
  OBVIOUS
<1> HIDE DEF w
<1>2. AmountOf(S) = Sum(w, S)
  BY <1>1, AmountIsSum
<1>3. \A x \in S : AmountOf(S \ {x}) = Sum(w, S \ {x})
  <2>1. \A x \in S : IsFiniteSet(S \ {x}) /\ \A y \in S \ {x} : w[y] = y.amount
    BY <1>1, FS_RemoveElement
  <2>2. QED
    BY <2>1, AmountIsSum
<1>4. QED
  BY <1>1, <1>2, <1>3, SumRemoved

\* What a new member adds.
LEMMA AmountAdded ==
  ASSUME NEW S, IsFiniteSet(S), \A note \in S : note.amount \in Nat,
         NEW x, x \notin S, x.amount \in Nat
  PROVE  AmountOf(S \cup {x}) = AmountOf(S) + x.amount
<1>1. IsFiniteSet(S \cup {x})
  BY FS_AddElement
<1>2. AmountOf(S \cup {x}) = AmountOf((S \cup {x}) \ {x}) + x.amount
  BY <1>1, AmountRemoved
<1>3. (S \cup {x}) \ {x} = S
  OBVIOUS
<1>4. QED
  BY <1>2, <1>3

\* The sum of the quantities of a sequence of trades.
QuantityOf(seq) == FoldSeq(LAMBDA t, sum : sum + t.quantity, 0, seq)

LEMMA QuantityIsSum ==
  ASSUME NEW seq, NEW n \in Nat, DOMAIN seq = 1 .. n,
         NEW w, \A i \in 1 .. n : w[i] = seq[i].quantity
  PROVE  QuantityOf(seq) = Sum(w, 1 .. n)
<1> DEFINE S == 1 .. n
           TradeSums(f) ==
             f = [s \in SUBSET S |->
                    IF s = {} THEN 0
                    ELSE LET x == CHOOSE x \in s : TRUE IN f[s \ {x}] + seq[x].quantity]
           g == CHOOSE f : TradeSums(f)
<1>1. QuantityOf(seq) = g[S]
  BY DEF QuantityOf, FoldSeq, FoldFunction, FoldFunctionOnSet, MapThenFoldSet
<1>2. ASSUME NEW s \in SUBSET S, s # {}
      PROVE  w[CHOOSE x \in s : TRUE] = seq[CHOOSE x \in s : TRUE].quantity
  BY <1>2
<1>3. \A f : PartialSums(f, S, w) <=> TradeSums(f)
  <2> HIDE DEF S
  <2>1. QED
    BY <1>2 DEF PartialSums
<1>0. IsFiniteSet(S)
  BY FS_Interval
<1> HIDE DEF S
<1>4. PICK h : PartialSums(h, S, w) /\ Sum(w, S) = h[S]
  BY <1>0, SumIsPartialSum
<1>5. PartialSums(g, S, w)
  <2> HIDE DEF TradeSums
  <2>1. TradeSums(g)
    BY <1>3, <1>4
  <2>2. QED
    BY <1>3, <2>1
<1> HIDE DEF g
<1>6. g[S] = h[S]
  BY <1>0, <1>4, <1>5, PartialSumsAgree
<1>7. QED
  BY <1>1, <1>4, <1>6 DEF S

LEMMA QuantityOfEmpty == QuantityOf(<< >>) = 0
<1>1. \A w : QuantityOf(<< >>) = Sum(w, 1 .. 0)
  BY QuantityIsSum
<1>2. 1 .. 0 = {}
  OBVIOUS
<1>3. QED
  BY <1>1, <1>2, SumOfEmpty

\* One trade more.
LEMMA QuantityAppended ==
  ASSUME NEW T, NEW seq \in Seq(T), NEW t \in T, \A x \in T : x.quantity \in Nat
  PROVE  /\ QuantityOf(seq) \in Nat
         /\ QuantityOf(Append(seq, t)) = QuantityOf(seq) + t.quantity
<1> DEFINE n == Len(seq)
           longer == Append(seq, t)
           w == [i \in 1 .. n + 1 |-> longer[i].quantity]
<1>1. /\ n \in Nat /\ DOMAIN seq = 1 .. n /\ DOMAIN longer = 1 .. n + 1
      /\ \A i \in 1 .. n : longer[i] = seq[i] /\ seq[i] \in T
      /\ longer[n + 1] = t
  OBVIOUS
<1>2. /\ \A i \in 1 .. n + 1 : w[i] = longer[i].quantity
      /\ \A i \in 1 .. n : w[i] = seq[i].quantity /\ w[i] \in Nat
      /\ w[n + 1] = t.quantity
  BY <1>1
<1> HIDE DEF w, longer, n
<1>3. QuantityOf(seq) = Sum(w, 1 .. n)
  BY <1>1, <1>2, QuantityIsSum
<1>4. QuantityOf(longer) = Sum(w, 1 .. n + 1)
  BY <1>1, <1>2, QuantityIsSum
<1>5. /\ IsFiniteSet(1 .. n) /\ n + 1 \notin 1 .. n
      /\ 1 .. n + 1 = (1 .. n) \cup {n + 1}
  <2>1. n \in Int /\ 1 \in Int
    BY <1>1
  <2>2. IsFiniteSet(1 .. n)
    BY <2>1, FS_Interval
  <2>3. n + 1 \notin 1 .. n
    BY <1>1
  <2>4. 1 .. n + 1 = (1 .. n) \cup {n + 1}
    BY <1>1
  <2>5. QED
    BY <2>2, <2>3, <2>4
<1>6. Sum(w, 1 .. n) \in Nat
  <2> DEFINE I == 1 .. n
  <2>1. IsFiniteSet(I) /\ \A i \in I : w[i] \in Nat
    BY <1>2, <1>5
  <2> HIDE DEF I
  <2>2. Sum(w, I) \in Nat
    BY <2>1, SumRemoved
  <2>3. QED
    BY <2>2 DEF I
<1>7. Sum(w, (1 .. n) \cup {n + 1}) = Sum(w, 1 .. n) + w[n + 1]
  <2> DEFINE I == 1 .. n
             m == n + 1
  <2>1. IsFiniteSet(I) /\ (\A i \in I : w[i] \in Nat) /\ m \notin I /\ w[m] \in Nat
    BY <1>2, <1>5
  <2> HIDE DEF I, m
  <2>2. Sum(w, I \cup {m}) = Sum(w, I) + w[m]
    BY <2>1, SumAdded
  <2>3. QED
    BY <2>2 DEF I, m
<1>8. QED
  BY <1>2, <1>3, <1>4, <1>5, <1>6, <1>7 DEF longer
===============================================================================
