------------------------------- MODULE LeftFolds -------------------------------
(***************************************************************************)
(* What a left fold over a sequence computes, for any operation: nothing of*)
(* the empty sequence, and one operation more of a longer one.  The        *)
(* operation is a constant, so that an instance of this module proves it of*)
(* a specification's own fold.                                             *)
(***************************************************************************)
EXTENDS FoldLemmas, SequenceTheorems

CONSTANT Op(_, _)

\* The recursion of FoldLeft over the first n places of seq.
Steps(f, n, base, seq) ==
  f = [s \in SUBSET (1 .. n) |->
         IF s = {} THEN base ELSE LET x == Max(s) IN Op(f[s \ {x}], seq[x])]

LEMMA GreatestPlace ==
  ASSUME NEW n \in Nat, NEW s \in SUBSET (1 .. n + 1), n + 1 \in s
  PROVE  Max(s) = n + 1
<1>1. IsFiniteSet(1 .. n + 1)
  BY FS_Interval
<1>2. IsFiniteSet(s)
  BY <1>1, FS_Subset
<1>3. s \subseteq Nat /\ s # {} /\ \A x \in s : x <= n + 1
  OBVIOUS
<1>4. Max(s) \in s /\ \A x \in s : x <= Max(s)
  BY <1>2, <1>3, GreatestExists
<1>5. Max(s) \in Nat /\ Max(s) <= n + 1 /\ n + 1 <= Max(s)
  BY <1>3, <1>4
<1>6. QED
  BY <1>5

\* The recursion has a solution: one for n places extends to the next place.
LEMMA StepsExist ==
  ASSUME NEW base, NEW seq, NEW n \in Nat
  PROVE  \E f : Steps(f, n, base, seq)
<1> DEFINE T == { m \in Nat : \E f : Steps(f, m, base, seq) }
<1>1. 0 \in T
  <2> DEFINE f == [s \in SUBSET (1 .. 0) |-> base]
  <2>1. \A s \in SUBSET (1 .. 0) : s = {}
    OBVIOUS
  <2>2. Steps(f, 0, base, seq)
    BY <2>1 DEF Steps
  <2>3. QED
    BY <2>2
<1>2. ASSUME NEW m \in Nat, m \in T PROVE m + 1 \in T
  <2>1. PICK f : Steps(f, m, base, seq)
    BY <1>2
  <2> DEFINE g == [s \in SUBSET (1 .. m + 1) |->
                     IF m + 1 \in s THEN Op(f[s \ {m + 1}], seq[m + 1]) ELSE f[s]]
  <2>2. ASSUME NEW s \in SUBSET (1 .. m + 1), m + 1 \in s
        PROVE  Max(s) = m + 1 /\ g[s \ {m + 1}] = f[s \ {m + 1}]
    <3>1. Max(s) = m + 1
      BY <2>2, GreatestPlace
    <3>2. s \ {m + 1} \in SUBSET (1 .. m + 1) /\ m + 1 \notin s \ {m + 1}
      BY <2>2
    <3>3. QED
      BY <3>1, <3>2
  <2>3. ASSUME NEW s \in SUBSET (1 .. m + 1), m + 1 \notin s
        PROVE  /\ s \in SUBSET (1 .. m) /\ g[s] = f[s]
               /\ s # {} => g[s \ {Max(s)}] = f[s \ {Max(s)}]
    <3>1. s \in SUBSET (1 .. m)
      BY <2>3
    <3>2. s \ {Max(s)} \in SUBSET (1 .. m + 1) /\ m + 1 \notin s \ {Max(s)}
      BY <2>3
    <3>3. QED
      BY <2>3, <3>1, <3>2
  <2>4. ASSUME NEW s \in SUBSET (1 .. m + 1)
        PROVE  g[s] = IF s = {} THEN base ELSE Op(g[s \ {Max(s)}], seq[Max(s)])
    <3>1. CASE m + 1 \in s
      <4>1. g[s] = Op(f[s \ {m + 1}], seq[m + 1]) /\ s # {}
        BY <3>1
      <4> HIDE DEF g
      <4>2. QED
        BY <2>2, <3>1, <4>1
    <3>2. CASE m + 1 \notin s
      <4> HIDE DEF g
      <4>1. s \in SUBSET (1 .. m) /\ g[s] = f[s]
        BY <2>3, <3>2
      <4>2. f[s] = IF s = {} THEN base ELSE Op(f[s \ {Max(s)}], seq[Max(s)])
        BY <2>1, <4>1 DEF Steps
      <4>3. QED
        BY <2>3, <3>2, <4>1, <4>2
    <3>3. QED
      BY <3>1, <3>2
  <2>5. g = [s \in SUBSET (1 .. m + 1) |-> g[s]]
    OBVIOUS
  <2> HIDE DEF g
  <2>6. Steps(g, m + 1, base, seq)
    BY <2>4, <2>5 DEF Steps
  <2>7. QED
    BY <2>6
<1>3. Nat \subseteq T
  <2> HIDE DEF T
  <2>1. QED
    BY <1>1, <1>2, SetInduction
<1>4. QED
  BY <1>3

Alike(k, seq, other) == \A i \in 1 .. k : seq[i] = other[i]

\* Solutions for sequences that begin alike are alike at their beginning.
LEMMA StepsAgree ==
  ASSUME NEW base, NEW n \in Nat, NEW m \in Nat, NEW k \in Nat, k <= n, k <= m,
         NEW seq, NEW other, Alike(k, seq, other),
         NEW f, Steps(f, n, base, seq), NEW g, Steps(g, m, base, other)
  PROVE  f[1 .. k] = g[1 .. k]
<1> DEFINE T == { i \in Nat : i <= k => f[1 .. i] = g[1 .. i] }
<1>1. 0 \in T
  <2>1. 1 .. 0 = {} /\ {} \in SUBSET (1 .. n) /\ {} \in SUBSET (1 .. m)
    OBVIOUS
  <2>2. f[{}] = base /\ g[{}] = base
    BY <2>1 DEF Steps
  <2>3. QED
    BY <2>1, <2>2
<1>2. ASSUME NEW i \in Nat, i \in T PROVE i + 1 \in T
  <2>1. SUFFICES ASSUME i + 1 <= k PROVE f[1 .. i + 1] = g[1 .. i + 1]
    OBVIOUS
  <2> DEFINE s == 1 .. i + 1
  <2>2. /\ s \in SUBSET (1 .. n) /\ s \in SUBSET (1 .. m)
        /\ s \in SUBSET (1 .. i + 1) /\ i + 1 \in s
    BY <2>1
  <2>3. s \ {i + 1} = 1 .. i
    OBVIOUS
  <2>4. f[1 .. i] = g[1 .. i] /\ seq[i + 1] = other[i + 1]
    BY <1>2, <2>1 DEF Alike
  <2> HIDE DEF s
  <2>5. Max(s) = i + 1
    BY <2>2, GreatestPlace
  <2>6. s # {}
    BY <2>2
  <2>7. f[s] = Op(f[s \ {Max(s)}], seq[Max(s)]) /\ g[s] = Op(g[s \ {Max(s)}], other[Max(s)])
    BY <2>2, <2>6 DEF Steps
  <2>8. QED
    BY <2>3, <2>4, <2>5, <2>7 DEF s
<1>3. Nat \subseteq T
  <2> HIDE DEF T
  <2>1. QED
    BY <1>1, <1>2, SetInduction
<1>4. QED
  BY <1>3

Folded(base, seq) == FoldLeft(Op, base, seq)

LEMMA FoldIsSteps ==
  ASSUME NEW base, NEW seq, NEW n \in Nat, DOMAIN seq = 1 .. n
  PROVE  \E f : Steps(f, n, base, seq) /\ Folded(base, seq) = f[1 .. n]
<1> DEFINE g == CHOOSE f : Steps(f, n, base, seq)
<1>1. Steps(g, n, base, seq)
  BY StepsExist
<1>2. Folded(base, seq) = g[1 .. n]
  BY DEF Folded, FoldLeft, MapThenFoldSet, Steps
<1> HIDE DEF g
<1>3. QED
  BY <1>1, <1>2

\* A fold of the empty sequence is its base.
LEMMA FoldOfEmpty ==
  ASSUME NEW base, NEW seq, DOMAIN seq = {}
  PROVE  Folded(base, seq) = base
<1>1. DOMAIN seq = 1 .. 0
  OBVIOUS
<1>2. PICK f : Steps(f, 0, base, seq) /\ Folded(base, seq) = f[1 .. 0]
  BY <1>1, FoldIsSteps
<1>3. 1 .. 0 = {}
  OBVIOUS
<1>4. f[{}] = base
  BY <1>2 DEF Steps
<1>5. QED
  BY <1>2, <1>3, <1>4

\* One element more is one operation more, on what the others gave.
LEMMA FoldOfLonger ==
  ASSUME NEW base, NEW seq, NEW n \in Nat, DOMAIN seq = 1 .. n,
         NEW longer, DOMAIN longer = 1 .. n + 1, \A i \in 1 .. n : longer[i] = seq[i]
  PROVE  Folded(base, longer) = Op(Folded(base, seq), longer[n + 1])
<1>1. PICK f : Steps(f, n, base, seq) /\ Folded(base, seq) = f[1 .. n]
  BY FoldIsSteps
<1>2. PICK g : Steps(g, n + 1, base, longer) /\ Folded(base, longer) = g[1 .. n + 1]
  BY FoldIsSteps
<1>3. g[1 .. n] = f[1 .. n]
  <2> DEFINE m == n + 1
  <2>1. n \in Nat /\ m \in Nat /\ n <= n /\ n <= m /\ Alike(n, seq, longer)
    BY DEF Alike
  <2>2. Steps(f, n, base, seq) /\ Steps(g, m, base, longer)
    BY <1>1, <1>2
  <2> HIDE DEF m
  <2>3. f[1 .. n] = g[1 .. n]
    BY ONLY <2>1, <2>2, StepsAgree
  <2>4. QED
    BY <2>3
<1> DEFINE s == 1 .. n + 1
<1>4. s \in SUBSET (1 .. n + 1) /\ n + 1 \in s
  OBVIOUS
<1>5. s \ {n + 1} = 1 .. n
  OBVIOUS
<1>6. g[1 .. n + 1] = g[s]
  OBVIOUS
<1> HIDE DEF s
<1>7. Max(s) = n + 1
  BY <1>4, GreatestPlace
<1>8. s # {}
  BY <1>4
<1>9. g[s] = Op(g[s \ {Max(s)}], longer[Max(s)])
  BY <1>2, <1>4, <1>8 DEF Steps
<1>10. QED
  BY <1>1, <1>2, <1>3, <1>5, <1>6, <1>7, <1>9
===============================================================================
