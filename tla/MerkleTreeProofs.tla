--------------------------- MODULE MerkleTreeProofs ---------------------------
(***************************************************************************)
(* Proofs about the Merkle tree for every depth and every size of the root *)
(* history.                                                                *)
(*                                                                         *)
(* The contract's tree: the storage and the event log stay in step, the    *)
(* ring holds exactly the recent roots, the root computed from one cached  *)
(* hash a level is that of the whole tree, and it implements RootWindow.   *)
(*                                                                         *)
(* deplob-core's copy: rebuilt from the contract's events it has the       *)
(* contract's root, the proof it yields for a position verifies for the    *)
(* leaf there and for no other, and no path and siblings whatever prove a  *)
(* commitment that was not inserted.                                       *)
(***************************************************************************)
EXTENDS CoreMerkle, FoldLemmas, TLAPS

-------------------------------------------------------------------------------
(* Facts about the remainder *)

\* Quotient and remainder are unique: what makes two numbers less than H apart
\* fall in different slots.
LEMMA QuotientUnique ==
  ASSUME NEW H \in Nat \ {0}, NEW q1 \in Int, NEW q2 \in Int,
         NEW r1 \in 0 .. H - 1, NEW r2 \in 0 .. H - 1,
         q1 * H + r1 = q2 * H + r2
  PROVE  q1 = q2 /\ r1 = r2
<1>1. ~(q1 >= q2 + 1)
  <2>1. SUFFICES ASSUME q1 >= q2 + 1 PROVE FALSE
    OBVIOUS
  <2>2. q1 * H >= (q2 + 1) * H
    BY <2>1
  <2>3. (q2 + 1) * H = q2 * H + H
    OBVIOUS
  <2>4. QED
    BY <2>2, <2>3
<1>2. ~(q2 >= q1 + 1)
  <2>1. SUFFICES ASSUME q2 >= q1 + 1 PROVE FALSE
    OBVIOUS
  <2>2. q2 * H >= (q1 + 1) * H
    BY <2>1
  <2>3. (q1 + 1) * H = q1 * H + H
    OBVIOUS
  <2>4. QED
    BY <2>2, <2>3
<1>3. q1 = q2
  BY <1>1, <1>2
<1>4. QED
  BY <1>3

\* What % and \div are.
LEMMA QuotientRemainder ==
  ASSUME NEW H \in Nat \ {0}, NEW n \in Int
  PROVE  /\ n \div H \in Int
         /\ n % H \in 0 .. H - 1
         /\ n = (n \div H) * H + (n % H)
OBVIOUS

\* A number is its own slot while it is below the size.
LEMMA SmallSlot ==
  ASSUME NEW H \in Nat \ {0}, NEW n \in 0 .. H - 1
  PROVE  n % H = n
<1>1. n = 0 * H + n
  OBVIOUS
<1>2. QED
  BY <1>1, QuotientRemainder, QuotientUnique

\* The slot after n's is that of n + 1.
LEMMA SlotOfSuccessor ==
  ASSUME NEW H \in Nat \ {0}, NEW n \in Nat
  PROVE  ((n % H) + 1) % H = (n + 1) % H
<1> DEFINE q == n \div H
           r == n % H
<1>1. q \in Int /\ r \in 0 .. H - 1 /\ n = q * H + r
  BY QuotientRemainder
<1> HIDE DEF q, r
<1>2. CASE r + 1 = H
  <2>1. n + 1 = (q + 1) * H + 0
    BY <1>1, <1>2
  <2>2. (n + 1) % H = 0
    BY <1>1, <2>1, QuotientRemainder, QuotientUnique
  <2>3. H = 1 * H + 0
    OBVIOUS
  <2>4. H % H = 0
    BY <2>3, QuotientRemainder, QuotientUnique
  <2>5. QED
    BY <1>2, <2>2, <2>4 DEF r
<1>3. CASE r + 1 # H
  <2>1. r + 1 \in 0 .. H - 1
    BY <1>1, <1>3
  <2>2. n + 1 = q * H + (r + 1)
    BY <1>1
  <2>3. (n + 1) % H = r + 1
    <3> DEFINE q2 == (n + 1) \div H
               r2 == (n + 1) % H
    <3>1. q2 \in Int /\ r2 \in 0 .. H - 1 /\ n + 1 = q2 * H + r2
      BY QuotientRemainder
    <3> HIDE DEF q2, r2
    <3>2. q2 * H + r2 = q * H + (r + 1)
      BY <2>2, <3>1
    <3>3. r2 = r + 1
      BY <1>1, <2>1, <3>1, <3>2, QuotientUnique
    <3>4. QED
      BY <3>3 DEF r2
  <2>4. (r + 1) % H = r + 1
    BY <2>1, SmallSlot
  <2>5. QED
    BY <2>3, <2>4 DEF r
<1>4. QED
  BY <1>2, <1>3

\* Numbers less than H apart have different slots.
LEMMA NearbySlotsDiffer ==
  ASSUME NEW H \in Nat \ {0}, NEW m \in Int, NEW n \in Int,
         m < n, n < m + H
  PROVE  m % H # n % H
<1> DEFINE p == m \div H
           q == n \div H
<1>1. p \in Int /\ q \in Int /\ m % H \in Int
  BY QuotientRemainder
<1>2. m = p * H + (m % H) /\ n = q * H + (n % H)
  BY QuotientRemainder
<1> HIDE DEF p, q
<1>3. SUFFICES ASSUME m % H = n % H PROVE FALSE
  OBVIOUS
<1>4. n - m = (q - p) * H
  <2>1. (q - p) * H = q * H - p * H
    BY <1>1
  <2>2. QED
    BY <1>1, <1>2, <1>3, <2>1
<1>5. CASE q - p <= 0
  <2>1. (q - p) * H <= 0
    BY <1>1, <1>5
  <2>2. QED
    BY <1>4, <2>1
<1>6. CASE q - p >= 1
  <2>1. (q - p) * H >= H
    BY <1>1, <1>6
  <2>2. QED
    BY <1>4, <2>1
<1>7. QED
  BY <1>1, <1>5, <1>6

-------------------------------------------------------------------------------
(* The ring and the event log *)

\* The inductive invariant: the storage is typed, the log is a sequence with one
\* event per leaf, and the ring is indexed by version modulo its size.  That the
\* slots not reached yet are empty is needed to know that the slot of the next
\* version is not one of theirs.
RingOK(t) ==
  /\ \E S : t.log \in Seq(S)
  /\ t.nextIndex \in Nat
  /\ Len(t.log) = t.nextIndex
  /\ \A i \in 1 .. Len(t.log) : t.log[i].leafIndex = i - 1
  /\ DOMAIN t.filledSubtrees = Levels
  /\ DOMAIN t.roots = Slots
  /\ t.currentRootIndex = t.nextIndex % ROOT_HISTORY_SIZE
  /\ \A k \in RecentVersions(t) : t.roots[k % ROOT_HISTORY_SIZE] = RootAfter(t, k)
  /\ \A slot \in Slots : slot > t.nextIndex => t.roots[slot] = ZERO

RingInv == RingOK(tree)

\* The storage the constructor leaves satisfies the invariant.
LEMMA RingOKEmpty == ASSUME NEW t, t = EmptyTree PROVE RingOK(t)
<1> USE TreeAssumption
<1>1. /\ t.nextIndex = 0 /\ t.currentRootIndex = 0 /\ t.log = << >>
      /\ t.filledSubtrees = [level \in Levels |-> Zeros[level]]
      /\ t.roots = [slot \in Slots |-> IF slot = 0 THEN Zeros[TREE_DEPTH] ELSE ZERO]
  BY DEF EmptyTree
<1>2. t.log \in Seq({}) /\ Len(t.log) = 0
  BY <1>1
<1>3. 0 % ROOT_HISTORY_SIZE = 0
  BY SmallSlot
<1>4. /\ t.currentRootIndex = t.nextIndex % ROOT_HISTORY_SIZE
      /\ \A k \in RecentVersions(t) : t.roots[k % ROOT_HISTORY_SIZE] = RootAfter(t, k)
      /\ \A slot \in Slots : slot > t.nextIndex => t.roots[slot] = ZERO
  <2>1. \A k \in RecentVersions(t) : k = 0
    BY <1>1 DEF RecentVersions
  <2>2. RootAfter(t, 0) = Zeros[TREE_DEPTH] /\ t.roots[0] = Zeros[TREE_DEPTH]
    BY <1>1 DEF RootAfter, Slots
  <2>3. \A slot \in Slots : slot > 0 => t.roots[slot] = ZERO
    BY <1>1 DEF Slots
  <2>4. QED
    BY <1>1, <1>3, <2>1, <2>2, <2>3
<1>5. DOMAIN t.filledSubtrees = Levels /\ DOMAIN t.roots = Slots
  BY <1>1
<1>6. \E S : t.log \in Seq(S)
  BY <1>2
<1>7. \A i \in 1 .. Len(t.log) : t.log[i].leafIndex = i - 1
  BY <1>2
<1>8. t.nextIndex \in Nat /\ Len(t.log) = t.nextIndex
  BY <1>1, <1>2
<1>9. QED
  BY <1>4, <1>5, <1>6, <1>7, <1>8, Zenon DEF RingOK

\* What _insert leaves of the parts of the storage the ring is made of.
LEMMA InsertedFields ==
  ASSUME NEW t, NEW leaf
  PROVE  LET root == PathHashes(leaf, t.nextIndex, t.filledSubtrees)[TREE_DEPTH]
             slot == NextSlot(t.currentRootIndex)
         IN  /\ Inserted(t, leaf).nextIndex = t.nextIndex + 1
             /\ Inserted(t, leaf).currentRootIndex = slot
             /\ Inserted(t, leaf).roots = [t.roots EXCEPT ![slot] = root]
             /\ Inserted(t, leaf).log =
                  Append(t.log, [leaf |-> leaf, leafIndex |-> t.nextIndex, newRoot |-> root])
             /\ DOMAIN Inserted(t, leaf).filledSubtrees = Levels
BY DEF Inserted, StoreLeft

\* An insertion keeps the invariant: it overwrites the slot of the one version
\* that leaves the window.
LEMMA RingOKInserted ==
  ASSUME NEW t, RingOK(t), NEW leaf, NEW u, u = Inserted(t, leaf)
  PROVE  RingOK(u)
<1> USE TreeAssumption
<1> DEFINE H == ROOT_HISTORY_SIZE
           n == t.nextIndex
           root == PathHashes(leaf, n, t.filledSubtrees)[TREE_DEPTH]
           slot == NextSlot(t.currentRootIndex)
           event == [leaf |-> leaf, leafIndex |-> n, newRoot |-> root]
<1>1. /\ u.nextIndex = n + 1
      /\ u.currentRootIndex = slot
      /\ u.roots = [t.roots EXCEPT ![slot] = root]
      /\ u.log = Append(t.log, event)
      /\ DOMAIN u.filledSubtrees = Levels
  BY InsertedFields
<1>2. /\ n \in Nat /\ Len(t.log) = n
      /\ t.currentRootIndex = n % H
      /\ DOMAIN t.roots = Slots
      /\ \A k \in RecentVersions(t) : t.roots[k % H] = RootAfter(t, k)
      /\ \A s \in Slots : s > n => t.roots[s] = ZERO
      /\ \A i \in 1 .. n : t.log[i].leafIndex = i - 1
  BY DEF RingOK
<1>3. PICK S : t.log \in Seq(S)
  BY DEF RingOK
<1> HIDE DEF root
<1>4. /\ u.log \in Seq(S \cup {event})
      /\ Len(u.log) = n + 1
      /\ \A i \in 1 .. n : u.log[i] = t.log[i]
      /\ u.log[n + 1] = event
  <2>1. t.log \in Seq(S \cup {event}) /\ event \in S \cup {event}
    BY <1>3
  <2> HIDE DEF event
  <2>2. QED
    BY <1>1, <1>2, <2>1
<1>5. slot = (n + 1) % H /\ slot \in Slots
  <2>1. ((n % H) + 1) % H = (n + 1) % H
    BY <1>2, SlotOfSuccessor
  <2>2. (n + 1) % H \in 0 .. H - 1
    BY <1>2
  <2>3. QED
    BY <1>2, <2>1, <2>2 DEF NextSlot, Slots
<1>6. u.roots[slot] = root /\ DOMAIN u.roots = Slots
  BY <1>1, <1>2, <1>5
<1>7. \A k \in RecentVersions(u) : u.roots[k % H] = RootAfter(u, k)
  <2> SUFFICES ASSUME NEW k \in RecentVersions(u)
               PROVE  u.roots[k % H] = RootAfter(u, k)
    OBVIOUS
  <2>1. k \in 0 .. n + 1 /\ k > n + 1 - H
    <3>1. u.nextIndex = n + 1
      BY <1>1
    <3>2. k \in 0 .. u.nextIndex /\ k > u.nextIndex - ROOT_HISTORY_SIZE
      BY DEF RecentVersions
    <3>3. QED
      BY <1>2, <3>1, <3>2
  <2>2. CASE k = n + 1
    <3>1. RootAfter(u, k) = root
      BY <1>2, <1>4, <2>2 DEF RootAfter
    <3>2. QED
      BY <1>5, <1>6, <2>2, <3>1
  <2>3. CASE k # n + 1
    <3>1. k \in RecentVersions(t) /\ k \in 0 .. n
      BY <1>2, <2>1, <2>3 DEF RecentVersions
    <3>2. RootAfter(u, k) = RootAfter(t, k)
      BY <1>2, <1>4, <3>1 DEF RootAfter
    <3>3. k % H # slot
      <4>1. k \in Int /\ n + 1 \in Int /\ k < n + 1 /\ n + 1 < k + H
        BY <1>2, <2>1, <3>1
      <4>2. k % H # (n + 1) % H
        BY <4>1, NearbySlotsDiffer
      <4>3. QED
        BY <1>5, <4>2
    <3>4. k % H \in Slots
      BY <3>1, QuotientRemainder DEF Slots
    <3>5. u.roots[k % H] = t.roots[k % H]
      BY <1>1, <1>2, <3>3, <3>4
    <3>6. QED
      BY <1>2, <3>1, <3>2, <3>5
  <2>4. QED
    BY <2>2, <2>3
<1>8. \A s \in Slots : s > n + 1 => u.roots[s] = ZERO
  <2> SUFFICES ASSUME NEW s \in Slots, s > n + 1 PROVE u.roots[s] = ZERO
    OBVIOUS
  <2>1. n + 1 \in 0 .. H - 1 /\ s > n
    BY <1>2 DEF Slots
  <2>2. slot = n + 1
    BY <1>5, <2>1, SmallSlot
  <2>3. s # slot
    BY <1>2, <2>2 DEF Slots
  <2>4. QED
    BY <1>1, <1>2, <2>1, <2>3
<1>9. \A i \in 1 .. n + 1 : u.log[i].leafIndex = i - 1
  <2> SUFFICES ASSUME NEW i \in 1 .. n + 1 PROVE u.log[i].leafIndex = i - 1
    OBVIOUS
  <2>1. CASE i = n + 1
    BY <1>2, <1>4, <2>1
  <2>2. CASE i # n + 1
    <3>1. i \in 1 .. n
      BY <1>2, <2>2
    <3>2. u.log[i] = t.log[i] /\ t.log[i].leafIndex = i - 1
      BY <1>2, <1>4, <3>1
    <3>3. QED
      BY <3>2
  <2>3. QED
    BY <2>1, <2>2
<1>10. QED
  BY <1>1, <1>2, <1>4, <1>5, <1>6, <1>7, <1>8, <1>9 DEF RingOK

\* The hashes on the way up exist at every level, one level after the other.
LEMMA PathSteps ==
  ASSUME NEW leaf, NEW index, NEW filled, NEW path, path = PathHashes(leaf, index, filled)
  PROVE  /\ path[0] = leaf
         /\ \A level \in Levels :
              path[level + 1] = IF IsLeftChild(index, level)
                                THEN HashPair(path[level], Zeros[level])
                                ELSE HashPair(filled[level], path[level])
<1> USE TreeAssumption
<1> DEFINE Next(h) == [level \in 0 .. TREE_DEPTH |->
                         CASE level = 0 -> leaf
                           [] level > 0 /\ IsLeftChild(index, level - 1) ->
                                HashPair(h[level - 1], Zeros[level - 1])
                           [] OTHER -> HashPair(filled[level - 1], h[level - 1])]
           Good(h, n) == /\ h = [level \in 0 .. TREE_DEPTH |-> h[level]]
                         /\ \A level \in 0 .. TREE_DEPTH : level <= n => h[level] = Next(h)[level]
           T == { n \in Nat : \E h : Good(h, n) }
<1>1. 0 \in T
  <2> DEFINE h == [level \in 0 .. TREE_DEPTH |-> leaf]
  <2>1. Good(h, 0)
    OBVIOUS
  <2> HIDE DEF h, Good
  <2>2. QED
    BY <2>1
<1>2. ASSUME NEW n \in Nat, n \in T PROVE n + 1 \in T
  <2>1. PICK h : Good(h, n)
    BY <1>2
  <2> DEFINE g == Next(h)
  <2>2. ASSUME NEW level \in 0 .. TREE_DEPTH, level <= n + 1 PROVE g[level] = Next(g)[level]
    <3>1. CASE level = 0
      BY <3>1
    <3>2. CASE level # 0
      <4>1. level - 1 \in 0 .. TREE_DEPTH /\ level - 1 <= n
        BY <2>2, <3>2
      <4>2. h[level - 1] = g[level - 1]
        BY <2>1, <4>1
      <4>3. QED
        BY <3>2, <4>2
    <3>3. QED
      BY <3>1, <3>2
  <2>3. Good(g, n + 1)
    <3>1. g = [level \in 0 .. TREE_DEPTH |-> g[level]]
      OBVIOUS
    <3> HIDE DEF g, Next
    <3>2. QED
      BY <2>2, <3>1
  <2> HIDE DEF Good, g
  <2>4. QED
    BY <2>3
<1>3. TREE_DEPTH \in T
  <2> HIDE DEF T
  <2>1. Nat \subseteq T
    BY <1>1, <1>2, SetInduction
  <2>2. QED
    BY <2>1
<1>4. PICK h : Good(h, TREE_DEPTH)
  BY <1>3
<1>5. h = Next(h)
  <2>1. \A level \in 0 .. TREE_DEPTH : level <= TREE_DEPTH
    OBVIOUS
  <2>2. \A level \in 0 .. TREE_DEPTH : h[level] = Next(h)[level]
    <3> HIDE DEF Next
    <3>1. QED
      BY <1>4, <2>1
  <2>3. QED
    BY <1>4, <2>2
<1> DEFINE walk == CHOOSE g : g = Next(g)
<1>6. walk = Next(walk)
  BY <1>5
<1>7. path = walk
  BY DEF PathHashes
<1>8. \A level \in 0 .. TREE_DEPTH : path[level] = Next(path)[level]
  <2>1. path = Next(path)
    BY <1>6, <1>7
  <2> HIDE DEF Next
  <2>2. QED
    BY <2>1
<1>9. path[0] = leaf
  BY <1>8
<1>10. ASSUME NEW level \in Levels
       PROVE  path[level + 1] = IF IsLeftChild(index, level)
                                THEN HashPair(path[level], Zeros[level])
                                ELSE HashPair(filled[level], path[level])
  <2>1. level + 1 \in 0 .. TREE_DEPTH /\ level + 1 > 0 /\ level + 1 # 0 /\ (level + 1) - 1 = level
    BY DEF Levels
  <2>2. path[level + 1] = Next(path)[level + 1]
    BY <1>8, <2>1
  <2>3. QED
    BY <2>1, <2>2
<1>11. QED
  BY <1>9, <1>10

\* The root of an insertion is a pair, and so never zero.
LEMMA NewRootIsNoZero ==
  ASSUME NEW leaf, NEW index, NEW filled
  PROVE  PathHashes(leaf, index, filled)[TREE_DEPTH] # ZERO
<1> DEFINE path == PathHashes(leaf, index, filled)
<1>1. TREE_DEPTH - 1 \in Levels /\ (TREE_DEPTH - 1) + 1 = TREE_DEPTH
  BY TreeAssumption DEF Levels
<1>2. path[(TREE_DEPTH - 1) + 1] = IF IsLeftChild(index, TREE_DEPTH - 1)
                                   THEN HashPair(path[TREE_DEPTH - 1], Zeros[TREE_DEPTH - 1])
                                   ELSE HashPair(filled[TREE_DEPTH - 1], path[TREE_DEPTH - 1])
  BY <1>1, PathSteps
<1> HIDE DEF path
<1>3. \E left, right : path[TREE_DEPTH] = HashPair(left, right)
  BY <1>1, <1>2, Zenon
<1>4. \A left, right : HashPair(left, right) # ZERO
  BY DEF HashPair, ZERO
<1>5. QED
  BY <1>3, <1>4 DEF path

\* The invariant holds of every reachable state.
THEOREM RingInvariant == TreeSpec => []RingInv
<1>1. TreeInit => RingInv
  BY RingOKEmpty DEF TreeInit, RingInv
<1>2. RingInv /\ [TreeNext]_tree => RingInv'
  <2>1. ASSUME RingInv, TreeNext PROVE RingInv'
    BY <2>1, RingOKInserted DEF TreeNext, Insert, RingInv
  <2>2. ASSUME RingInv, UNCHANGED tree PROVE RingInv'
    BY <2>2 DEF RingInv
  <2>3. QED
    BY <2>1, <2>2
<1>3. QED
  BY <1>1, <1>2, PTL DEF TreeSpec

LEMMA RingInvTypes == ASSUME RingInv PROVE TreeTypeOK
<1>1. tree.nextIndex \in Nat /\ tree.currentRootIndex = tree.nextIndex % ROOT_HISTORY_SIZE
  BY DEF RingInv, RingOK
<1>2. tree.nextIndex % ROOT_HISTORY_SIZE \in 0 .. ROOT_HISTORY_SIZE - 1
  BY <1>1, TreeAssumption
<1>3. tree.currentRootIndex \in Slots
  BY <1>1, <1>2 DEF Slots
<1>4. QED
  BY <1>3 DEF RingInv, RingOK, TreeTypeOK

\* Type correctness: storage and event log stay in step for trees of any depth
\* (MerkleTreeWithHistory.sol, _insert).
THEOREM TreeTypeCorrect == TreeSpec => []TreeTypeOK
<1>1. RingInv => TreeTypeOK
  BY RingInvTypes
<1>2. QED
  BY <1>1, RingInvariant, PTL

\* The ring holds the root of each of the last ROOT_HISTORY_SIZE versions in its
\* slot and nothing where no root was written, for any size of the ring, the
\* wrap-around included.
THEOREM RingIsRecentRoots == TreeSpec => []RingHoldsRecentRoots
<1>1. RingInv => RingHoldsRecentRoots
  BY DEF RingInv, RingOK, RingHoldsRecentRoots
<1>2. QED
  BY <1>1, RingInvariant, PTL

-------------------------------------------------------------------------------
(* isKnownRoot *)

\* Going i slots back from n's slot reaches the slot of n - i.
LEMMA SlotOfPredecessor ==
  ASSUME NEW H \in Nat \ {0}, NEW n \in Nat, NEW i \in 0 .. H - 1
  PROVE  ((n % H) - i) % H = (n - i) % H
<1> DEFINE q == n \div H
           r == n % H
           p == (r - i) \div H
           s == (r - i) % H
           u == (n - i) \div H
           v == (n - i) % H
<1>1. q \in Int /\ r \in 0 .. H - 1 /\ n = q * H + r
  BY QuotientRemainder
<1>2. r - i \in Int /\ n - i \in Int
  BY <1>1
<1> HIDE DEF q, r
<1>3. p \in Int /\ s \in 0 .. H - 1 /\ r - i = p * H + s
  BY <1>2, QuotientRemainder
<1>4. u \in Int /\ v \in 0 .. H - 1 /\ n - i = u * H + v
  BY <1>2, QuotientRemainder
<1> HIDE DEF p, s, u, v
<1>5. (q + p) * H = q * H + p * H
  BY <1>1, <1>3
<1> DEFINE w == q + p
<1>6. w * H + s = u * H + v
  BY <1>1, <1>3, <1>4, <1>5
<1>7. w \in Int
  BY <1>1, <1>3
<1> HIDE DEF w
<1>8. s = v
  BY <1>3, <1>4, <1>6, <1>7, QuotientUnique
<1>9. QED
  BY <1>8 DEF r, s, v

\* The slots isKnownRoot walks over: those of the recent versions, and before
\* the ring has filled up those that were never written.
LEMMA WalkedSlots ==
  ASSUME RingInv, NEW i \in Slots
  PROVE  LET n == tree.nextIndex
             s == SlotBack(tree, i)
         IN  /\ n - i >= 0 => n - i \in RecentVersions(tree) /\ s = (n - i) % ROOT_HISTORY_SIZE
             /\ n - i < 0 => s \in Slots /\ s > n
<1> USE TreeAssumption
<1> DEFINE H == ROOT_HISTORY_SIZE
           n == tree.nextIndex
           s == SlotBack(tree, i)
<1>1. n \in Nat /\ tree.currentRootIndex = n % H /\ i \in 0 .. H - 1
  BY DEF RingInv, RingOK, Slots
<1>2. ((n % H) - i) % H = (n - i) % H
  BY <1>1, SlotOfPredecessor
<1>3. s = (n - i) % H
  BY <1>1, <1>2 DEF SlotBack
<1>4. ASSUME n - i >= 0 PROVE n - i \in RecentVersions(tree)
  BY <1>1, <1>4 DEF RecentVersions
<1>5. ASSUME n - i < 0 PROVE s \in Slots /\ s > n
  <2> DEFINE m == n - i
  <2>1. m \in Int /\ m + H \in 0 .. H - 1 /\ m + H > n
    BY <1>1, <1>5
  <2>2. m \div H \in Int /\ m % H \in 0 .. H - 1 /\ m = (m \div H) * H + (m % H)
    BY <2>1, QuotientRemainder
  <2> HIDE DEF m
  <2>3. m = (-1) * H + (m + H)
    BY <2>1
  <2>4. (m \div H) * H + (m % H) = (-1) * H + (m + H)
    BY <2>2, <2>3
  <2>5. m % H = m + H
    BY <2>1, <2>2, <2>4, QuotientUnique
  <2>6. QED
    BY <1>3, <2>1, <2>5 DEF m, Slots
<1>6. QED
  BY <1>3, <1>4, <1>5

\* Provided a root stands for its leaves and none is zero, exactly the roots of
\* the last ROOT_HISTORY_SIZE versions are known.
LEMMA KnownIfIdentified == ASSUME RingInv, RootsIdentifyLeaves PROVE KnownIffRecent
<1> USE TreeAssumption
<1> DEFINE H == ROOT_HISTORY_SIZE
           n == tree.nextIndex
<1> SUFFICES ASSUME NEW k \in 0 .. n
             PROVE  IsKnownRoot(tree, RootAfter(tree, k))
                      <=> \E j \in RecentVersions(tree) : SameLeaves(tree, j, k)
  BY DEF KnownIffRecent
<1>1. /\ n \in Nat
      /\ \A m \in RecentVersions(tree) : tree.roots[m % H] = RootAfter(tree, m)
      /\ \A s \in Slots : s > n => tree.roots[s] = ZERO
  BY DEF RingInv, RingOK
<1>2. /\ RootAfter(tree, k) # ZERO
      /\ \A m \in 0 .. n : RootAfter(tree, m) = RootAfter(tree, k) <=> SameLeaves(tree, m, k)
  BY DEF RootsIdentifyLeaves
<1>3. ASSUME NEW j \in RecentVersions(tree), SameLeaves(tree, j, k)
      PROVE  IsKnownRoot(tree, RootAfter(tree, k))
  <2>1. j \in 0 .. n /\ j > n - H
    BY DEF RecentVersions
  <2>2. n - j \in Slots /\ n - (n - j) = j /\ j >= 0
    BY <1>1, <2>1 DEF Slots
  <2>3. SlotBack(tree, n - j) = j % H
    BY <2>2, WalkedSlots
  <2>4. RootAfter(tree, j) = RootAfter(tree, k)
    BY <1>2, <1>3, <2>1
  <2>5. QED
    BY <1>1, <1>2, <2>2, <2>3, <2>4 DEF IsKnownRoot
<1>4. ASSUME IsKnownRoot(tree, RootAfter(tree, k))
      PROVE  \E j \in RecentVersions(tree) : SameLeaves(tree, j, k)
  <2>1. PICK i \in Slots : tree.roots[SlotBack(tree, i)] = RootAfter(tree, k)
    BY <1>4 DEF IsKnownRoot
  <2>2. n - i >= 0
    <3>1. SUFFICES ASSUME n - i < 0 PROVE FALSE
      BY <1>1 DEF Slots
    <3>2. SlotBack(tree, i) \in Slots /\ SlotBack(tree, i) > n
      BY <3>1, WalkedSlots
    <3>3. QED
      BY <1>1, <1>2, <2>1, <3>2
  <2>3. n - i \in RecentVersions(tree) /\ SlotBack(tree, i) = (n - i) % H
    BY <2>2, WalkedSlots
  <2>4. RootAfter(tree, n - i) = RootAfter(tree, k) /\ n - i \in 0 .. n
    BY <1>1, <2>1, <2>3 DEF RecentVersions
  <2>5. QED
    BY <1>2, <2>3, <2>4
<1>5. QED
  BY <1>3, <1>4

-------------------------------------------------------------------------------
(* Powers of two and quotients by them *)

LEMMA PowersPositive == \A d \in 0 .. TREE_DEPTH : 2 ^ d \in Nat \ {0}
<1> DEFINE T == { d \in Nat : d <= TREE_DEPTH => 2 ^ d \in Nat \ {0} }
<1>1. 0 \in T
  BY PowersOfTwo
<1>2. ASSUME NEW d \in Nat, d \in T PROVE d + 1 \in T
  <2>1. SUFFICES ASSUME d + 1 <= TREE_DEPTH PROVE 2 ^ (d + 1) \in Nat \ {0}
    OBVIOUS
  <2>2. d \in 0 .. TREE_DEPTH - 1
    BY <2>1, TreeAssumption
  <2>3. 2 ^ (d + 1) = 2 * 2 ^ d
    BY <2>2, PowersOfTwo
  <2>4. 2 ^ d \in Nat \ {0}
    BY <1>2, <2>2, TreeAssumption
  <2>5. QED
    BY <2>3, <2>4
<1>3. Nat \subseteq T
  <2> HIDE DEF T
  <2>1. QED
    BY <1>1, <1>2, SetInduction
<1>4. QED
  BY <1>3, TreeAssumption

LEMMA MaxLeavesNat == MAX_LEAVES \in Nat
BY PowersPositive, TreeAssumption DEF MAX_LEAVES

\* Halving a quotient is dividing by the double.
LEMMA HalvedQuotient ==
  ASSUME NEW n \in Nat, NEW H \in Nat \ {0}
  PROVE  n \div (2 * H) = (n \div H) \div 2
<1> DEFINE q == n \div H
           r == n % H
           p == q \div 2
           b == q % 2
           u == n \div (2 * H)
           v == n % (2 * H)
<1>1. q \in Int /\ r \in 0 .. H - 1 /\ n = q * H + r
  BY QuotientRemainder
<1> HIDE DEF q, r
<1>2. p \in Int /\ b \in 0 .. 1 /\ q = p * 2 + b
  BY <1>1
<1>3. 2 * H \in Nat \ {0}
  OBVIOUS
<1>4. u \in Int /\ v \in 0 .. 2 * H - 1 /\ n = u * (2 * H) + v
  <2> DEFINE K == 2 * H
  <2>1. K \in Nat \ {0}
    BY <1>3
  <2> HIDE DEF K
  <2>2. n \div K \in Int /\ n % K \in 0 .. K - 1 /\ n = (n \div K) * K + (n % K)
    BY <2>1, QuotientRemainder
  <2>3. QED
    BY <2>2 DEF K
<1> HIDE DEF p, b, u, v
<1>5. b * H + r \in 0 .. 2 * H - 1
  <2>1. CASE b = 0
    BY <1>1, <2>1
  <2>2. CASE b = 1
    BY <1>1, <2>2
  <2>3. QED
    BY <1>2, <2>1, <2>2
<1>6. n = p * (2 * H) + (b * H + r)
  <2>1. q * H = (p * 2) * H + b * H
    BY <1>2
  <2>2. (p * 2) * H = p * (2 * H)
    BY <1>2
  <2>3. p * (2 * H) \in Int /\ b * H \in Int
    BY <1>2
  <2>4. q * H = p * (2 * H) + b * H
    BY <2>1, <2>2
  <2> DEFINE X == p * (2 * H)
             Y == b * H
  <2> HIDE DEF X, Y
  <2>5. X \in Int /\ Y \in Int /\ n = (X + Y) + r
    BY <1>1, <2>3, <2>4 DEF X, Y
  <2>6. n = X + (Y + r)
    BY <1>1, <2>5
  <2>7. QED
    BY <2>6 DEF X, Y
<1>7. u = p
  <2> DEFINE K == 2 * H
             w == b * H + r
  <2>1. K \in Nat \ {0} /\ w \in 0 .. K - 1 /\ v \in 0 .. K - 1
    BY <1>3, <1>4, <1>5
  <2>2. u * K + v = p * K + w
    BY <1>4, <1>6
  <2> HIDE DEF K, w
  <2>3. QED
    BY <1>2, <1>4, <2>1, <2>2, QuotientUnique
<1>8. QED
  BY <1>7 DEF u, p, q

\* The position at a level of the ancestor of the leaf at index.
Ancestor(index, level) == index \div 2 ^ level

\* Going up from a leaf: positions are halved and stay within the level.
LEMMA Ancestors ==
  ASSUME NEW n \in 0 .. MAX_LEAVES - 1
  PROVE  /\ Ancestor(n, 0) = n
         /\ \A level \in 0 .. TREE_DEPTH - 1 :
              Ancestor(n, level + 1) = Ancestor(n, level) \div 2
         /\ \A level \in 0 .. TREE_DEPTH :
              /\ Ancestor(n, level) \in 0 .. 2 ^ (TREE_DEPTH - level) - 1
              /\ Ancestor(n, level) * 2 ^ level <= n
              /\ n + 1 <= (Ancestor(n, level) + 1) * 2 ^ level
<1> USE TreeAssumption, PowersPositive
<1>1. MAX_LEAVES \in Nat
  BY DEF MAX_LEAVES
<1>2. Ancestor(n, 0) = n
  BY <1>1, PowersOfTwo DEF Ancestor
<1>3. ASSUME NEW level \in 0 .. TREE_DEPTH - 1
      PROVE  Ancestor(n, level + 1) = Ancestor(n, level) \div 2
  <2>1. 2 ^ level \in Nat \ {0} /\ 2 ^ (level + 1) = 2 * 2 ^ level
    BY PowersOfTwo
  <2>2. n \in Nat
    BY <1>1
  <2>3. n \div (2 * 2 ^ level) = (n \div 2 ^ level) \div 2
    BY <2>1, <2>2, HalvedQuotient
  <2>4. QED
    BY <2>1, <2>3 DEF Ancestor
<1>4. ASSUME NEW level \in 0 .. TREE_DEPTH
      PROVE  /\ Ancestor(n, level) * 2 ^ level <= n
             /\ n + 1 <= (Ancestor(n, level) + 1) * 2 ^ level
  <2> DEFINE H == 2 ^ level
             q == n \div H
             r == n % H
  <2>1. H \in Nat \ {0} /\ n \in Int
    BY <1>1
  <2> HIDE DEF H
  <2>2. q \in Int /\ r \in 0 .. H - 1 /\ n = q * H + r
    BY <2>1, QuotientRemainder
  <2> HIDE DEF q, r
  <2>3. (q + 1) * H = q * H + H /\ q * H \in Int
    BY <2>1, <2>2
  <2>4. q * H <= n /\ n + 1 <= (q + 1) * H
    BY <2>1, <2>2, <2>3
  <2>5. QED
    BY <2>4 DEF q, H, Ancestor
<1>5. \A level \in 0 .. TREE_DEPTH : Ancestor(n, level) \in 0 .. 2 ^ (TREE_DEPTH - level) - 1
  <2> DEFINE T == { l \in Nat : l <= TREE_DEPTH =>
                      Ancestor(n, l) \in 0 .. 2 ^ (TREE_DEPTH - l) - 1 }
  <2>1. 0 \in T
    BY <1>2 DEF MAX_LEAVES
  <2>2. ASSUME NEW l \in Nat, l \in T PROVE l + 1 \in T
    <3>1. SUFFICES ASSUME l + 1 <= TREE_DEPTH
                   PROVE  Ancestor(n, l + 1) \in 0 .. 2 ^ (TREE_DEPTH - (l + 1)) - 1
      OBVIOUS
    <3>2. l \in 0 .. TREE_DEPTH - 1 /\ TREE_DEPTH - (l + 1) \in 0 .. TREE_DEPTH - 1
      BY <3>1
    <3> DEFINE d == TREE_DEPTH - (l + 1)
    <3>3. TREE_DEPTH - l = d + 1
      BY <3>2
    <3>4. Ancestor(n, l) \in 0 .. 2 ^ (d + 1) - 1
      BY <2>2, <3>2, <3>3
    <3>5. 2 ^ (d + 1) = 2 * 2 ^ d /\ 2 ^ d \in Nat \ {0}
      BY <3>2, PowersOfTwo
    <3>6. Ancestor(n, l + 1) = Ancestor(n, l) \div 2
      BY <1>3, <3>2
    <3> DEFINE P == 2 ^ d
               q == Ancestor(n, l)
    <3>7. P \in Nat \ {0} /\ q \in 0 .. 2 * P - 1
      BY <3>4, <3>5
    <3> HIDE DEF P, q
    <3>8. q \div 2 \in 0 .. P - 1
      BY <3>7
    <3>9. QED
      BY <3>6, <3>8 DEF P, q
  <2>3. Nat \subseteq T
    <3> HIDE DEF T
    <3>1. QED
      BY <2>1, <2>2, SetInduction
  <2>4. QED
    BY <2>3
<1>6. QED
  BY <1>2, <1>3, <1>4, <1>5

\* Every way up ends at the top.
LEMMA TopAncestor == ASSUME NEW n \in 0 .. MAX_LEAVES - 1 PROVE Ancestor(n, TREE_DEPTH) = 0
<1>1. \A level \in 0 .. TREE_DEPTH : Ancestor(n, level) \in 0 .. 2 ^ (TREE_DEPTH - level) - 1
  BY Ancestors
<1>2. TREE_DEPTH \in 0 .. TREE_DEPTH /\ TREE_DEPTH - TREE_DEPTH = 0
  BY TreeAssumption
<1>3. 2 ^ (TREE_DEPTH - TREE_DEPTH) = 1
  BY <1>2, PowersOfTwo
<1>4. Ancestor(n, TREE_DEPTH) \in 0 .. 2 ^ (TREE_DEPTH - TREE_DEPTH) - 1
  BY ONLY <1>1, <1>2, Zenon
<1>5. QED
  BY <1>3, <1>4

-------------------------------------------------------------------------------
(* The reference tree *)

\* Empty subtrees are hashed from two empty ones.
LEMMA ZerosSteps ==
  /\ Zeros[0] = ZERO
  /\ \A level \in Levels : Zeros[level + 1] = HashPair(Zeros[level], Zeros[level])
<1> USE TreeAssumption
<1> DEFINE Next(h) == [level \in 0 .. TREE_DEPTH |->
                         IF level = 0 THEN ZERO ELSE HashPair(h[level - 1], h[level - 1])]
           Good(h, n) == /\ h = [level \in 0 .. TREE_DEPTH |-> h[level]]
                         /\ \A level \in 0 .. TREE_DEPTH : level <= n => h[level] = Next(h)[level]
           T == { n \in Nat : \E h : Good(h, n) }
<1>1. 0 \in T
  <2> DEFINE h == [level \in 0 .. TREE_DEPTH |-> ZERO]
  <2>1. Good(h, 0)
    OBVIOUS
  <2> HIDE DEF h, Good
  <2>2. QED
    BY <2>1
<1>2. ASSUME NEW n \in Nat, n \in T PROVE n + 1 \in T
  <2>1. PICK h : Good(h, n)
    BY <1>2
  <2> DEFINE g == Next(h)
  <2>2. ASSUME NEW level \in 0 .. TREE_DEPTH, level <= n + 1 PROVE g[level] = Next(g)[level]
    <3>1. CASE level = 0
      BY <3>1
    <3>2. CASE level # 0
      <4>1. level - 1 \in 0 .. TREE_DEPTH /\ level - 1 <= n
        BY <2>2, <3>2
      <4>2. h[level - 1] = g[level - 1]
        BY <2>1, <4>1
      <4>3. QED
        BY <3>2, <4>2
    <3>3. QED
      BY <3>1, <3>2
  <2>3. Good(g, n + 1)
    <3>1. g = [level \in 0 .. TREE_DEPTH |-> g[level]]
      OBVIOUS
    <3> HIDE DEF g, Next
    <3>2. QED
      BY <2>2, <3>1
  <2> HIDE DEF Good, g
  <2>4. QED
    BY <2>3
<1>3. TREE_DEPTH \in T
  <2> HIDE DEF T
  <2>1. Nat \subseteq T
    BY <1>1, <1>2, SetInduction
  <2>2. QED
    BY <2>1
<1>4. PICK h : Good(h, TREE_DEPTH)
  BY <1>3
<1>5. h = Next(h)
  <2>1. \A level \in 0 .. TREE_DEPTH : level <= TREE_DEPTH
    OBVIOUS
  <2>2. \A level \in 0 .. TREE_DEPTH : h[level] = Next(h)[level]
    <3> HIDE DEF Next
    <3>1. QED
      BY <1>4, <2>1
  <2>3. QED
    BY <1>4, <2>2
<1> DEFINE zeros == CHOOSE g : g = Next(g)
<1>6. zeros = Next(zeros)
  BY <1>5
<1>7. Zeros = zeros
  BY DEF Zeros
<1>8. \A level \in 0 .. TREE_DEPTH : Zeros[level] = Next(Zeros)[level]
  <2>1. Zeros = Next(Zeros)
    BY <1>6, <1>7
  <2> HIDE DEF Next
  <2>2. QED
    BY <2>1
<1>9. ASSUME NEW level \in Levels
      PROVE  Zeros[level + 1] = HashPair(Zeros[level], Zeros[level])
  <2>1. level + 1 \in 0 .. TREE_DEPTH /\ level + 1 # 0 /\ (level + 1) - 1 = level
    BY DEF Levels
  <2>2. Zeros[level + 1] = Next(Zeros)[level + 1]
    BY <1>8, <2>1
  <2>3. QED
    BY <2>1, <2>2
<1>10. Zeros[0] = ZERO
  <2>1. 0 \in 0 .. TREE_DEPTH
    OBVIOUS
  <2>2. Zeros[0] = Next(Zeros)[0]
    BY <1>8, <2>1
  <2>3. QED
    BY <2>1, <2>2
<1>11. QED
  BY <1>9, <1>10

\* L is the whole tree over a sequence of leaves, level by level.
WholeTree(L, leaves) ==
  /\ \A k \in 0 .. 2 ^ TREE_DEPTH - 1 :
       L[0][k] = IF k < Len(leaves) THEN leaves[k + 1] ELSE ZERO
  /\ \A level \in Levels : \A k \in 0 .. 2 ^ (TREE_DEPTH - (level + 1)) - 1 :
       L[level + 1][k] = HashPair(L[level][2 * k], L[level][2 * k + 1])

\* ReferenceRoot is the top of such a tree.
LEMMA ReferenceTree ==
  ASSUME NEW leaves
  PROVE  \E L : WholeTree(L, leaves) /\ ReferenceRoot(leaves) = L[TREE_DEPTH][0]
<1> USE TreeAssumption
<1> DEFINE base == [k \in 0 .. MAX_LEAVES - 1 |-> IF k < Len(leaves) THEN leaves[k + 1] ELSE ZERO]
           Next(h) == [l \in 0 .. TREE_DEPTH |->
                         IF l = 0
                         THEN [k \in 0 .. MAX_LEAVES - 1 |-> IF k < Len(leaves) THEN leaves[k + 1] ELSE ZERO]
                         ELSE [k \in 0 .. 2 ^ (TREE_DEPTH - l) - 1 |->
                                 HashPair(h[l - 1][2 * k], h[l - 1][2 * k + 1])]]
           Good(h, n) == /\ h = [level \in 0 .. TREE_DEPTH |-> h[level]]
                         /\ \A level \in 0 .. TREE_DEPTH : level <= n => h[level] = Next(h)[level]
           T == { n \in Nat : \E h : Good(h, n) }
<1>1. 0 \in T
  <2> DEFINE h == [level \in 0 .. TREE_DEPTH |-> base]
  <2>1. Good(h, 0)
    <3>1. h = [level \in 0 .. TREE_DEPTH |-> h[level]]
      OBVIOUS
    <3>2. ASSUME NEW level \in 0 .. TREE_DEPTH, level <= 0 PROVE h[level] = Next(h)[level]
      <4>1. level = 0
        BY <3>2
      <4>2. h[level] = base
        OBVIOUS
      <4>3. Next(h)[level] = base
        BY <4>1
      <4>4. QED
        BY <4>2, <4>3
    <3> HIDE DEF h, Next
    <3>3. QED
      BY <3>1, <3>2
  <2> HIDE DEF h, Good
  <2>2. QED
    BY <2>1
<1>2. ASSUME NEW n \in Nat, n \in T PROVE n + 1 \in T
  <2>1. PICK h : Good(h, n)
    BY <1>2
  <2> DEFINE g == Next(h)
  <2>2. ASSUME NEW level \in 0 .. TREE_DEPTH, level <= n + 1 PROVE g[level] = Next(g)[level]
    <3>1. CASE level = 0
      BY <3>1
    <3>2. CASE level # 0
      <4>1. level - 1 \in 0 .. TREE_DEPTH /\ level - 1 <= n
        BY <2>2, <3>2
      <4>2. h[level - 1] = g[level - 1]
        <5> HIDE DEF Next
        <5>1. QED
          BY <2>1, <4>1
      <4>3. Next(g)[level] = [k \in 0 .. 2 ^ (TREE_DEPTH - level) - 1 |->
                                HashPair(g[level - 1][2 * k], g[level - 1][2 * k + 1])]
        <5> HIDE DEF g
        <5>1. QED
          BY <3>2
      <4>4. g[level] = [k \in 0 .. 2 ^ (TREE_DEPTH - level) - 1 |->
                          HashPair(h[level - 1][2 * k], h[level - 1][2 * k + 1])]
        BY <3>2
      <4> HIDE DEF g, Next
      <4>5. QED
        BY <4>2, <4>3, <4>4
    <3>3. QED
      BY <3>1, <3>2
  <2>3. Good(g, n + 1)
    <3>1. g = [level \in 0 .. TREE_DEPTH |-> g[level]]
      OBVIOUS
    <3> HIDE DEF g, Next
    <3>2. QED
      BY <2>2, <3>1
  <2> HIDE DEF Good, g
  <2>4. QED
    BY <2>3
<1>3. TREE_DEPTH \in T
  <2> HIDE DEF T
  <2>1. Nat \subseteq T
    BY <1>1, <1>2, SetInduction
  <2>2. QED
    BY <2>1
<1>4. PICK h : Good(h, TREE_DEPTH)
  BY <1>3
<1>5. h = Next(h)
  <2>1. \A level \in 0 .. TREE_DEPTH : level <= TREE_DEPTH
    OBVIOUS
  <2>2. \A level \in 0 .. TREE_DEPTH : h[level] = Next(h)[level]
    <3> HIDE DEF Next
    <3>1. QED
      BY <1>4, <2>1
  <2>3. Next(h) = [level \in 0 .. TREE_DEPTH |-> Next(h)[level]]
    OBVIOUS
  <2> HIDE DEF Next
  <2>4. QED
    BY <1>4, <2>2, <2>3
<1> DEFINE L == CHOOSE g : g = Next(g)
<1>6. L = Next(L)
  <2> HIDE DEF Next
  <2>1. QED
    BY <1>5
<1>7. ReferenceRoot(leaves) = L[TREE_DEPTH][0]
  BY DEF ReferenceRoot
<1> HIDE DEF L
<1>8. \A level \in 0 .. TREE_DEPTH : L[level] = Next(L)[level]
  <2> HIDE DEF Next
  <2>1. QED
    BY <1>6
<1>9. ASSUME NEW k \in 0 .. 2 ^ TREE_DEPTH - 1
      PROVE  L[0][k] = IF k < Len(leaves) THEN leaves[k + 1] ELSE ZERO
  <2>1. L[0] = base
    <3>1. 0 \in 0 .. TREE_DEPTH
      OBVIOUS
    <3>2. L[0] = Next(L)[0]
      BY <1>8, <3>1
    <3>3. Next(L)[0] = base
      BY <3>1
    <3>4. QED
      BY <3>2, <3>3
  <2>2. k \in 0 .. MAX_LEAVES - 1
    BY DEF MAX_LEAVES
  <2>3. QED
    BY <2>1, <2>2
<1>10. ASSUME NEW level \in Levels, NEW k \in 0 .. 2 ^ (TREE_DEPTH - (level + 1)) - 1
       PROVE  L[level + 1][k] = HashPair(L[level][2 * k], L[level][2 * k + 1])
  <2>1. level + 1 \in 0 .. TREE_DEPTH /\ level + 1 # 0 /\ (level + 1) - 1 = level
    BY DEF Levels
  <2>2. L[level + 1] = [i \in 0 .. 2 ^ (TREE_DEPTH - (level + 1)) - 1 |->
                          HashPair(L[(level + 1) - 1][2 * i], L[(level + 1) - 1][2 * i + 1])]
    BY <1>8, <2>1
  <2>3. QED
    BY <2>1, <2>2
<1>11. WholeTree(L, leaves)
  BY <1>9, <1>10 DEF WholeTree
<1>12. QED
  BY <1>7, <1>11

\* The two children of a node, and the leaves below them.
LEMMA Children ==
  ASSUME NEW level \in Levels, NEW k \in 0 .. 2 ^ (TREE_DEPTH - (level + 1)) - 1
  PROVE  /\ 2 * k \in 0 .. 2 ^ (TREE_DEPTH - level) - 1
         /\ 2 * k + 1 \in 0 .. 2 ^ (TREE_DEPTH - level) - 1
         /\ k * 2 ^ (level + 1) <= (2 * k) * 2 ^ level
         /\ k * 2 ^ (level + 1) <= (2 * k + 1) * 2 ^ level
         /\ (2 * k + 1) * 2 ^ level <= (k + 1) * 2 ^ (level + 1)
         /\ (2 * k + 2) * 2 ^ level <= (k + 1) * 2 ^ (level + 1)
         /\ \A m \in {k, k + 1} : m * 2 ^ (level + 1) \in Nat
         /\ \A m \in {2 * k, 2 * k + 1, 2 * k + 2} : m * 2 ^ level \in Nat
<1> USE TreeAssumption
<1> DEFINE d == TREE_DEPTH - (level + 1)
           P == 2 ^ d
           H == 2 ^ level
           K == 2 ^ (level + 1)
<1>1. level \in 0 .. TREE_DEPTH - 1 /\ d \in 0 .. TREE_DEPTH - 1 /\ TREE_DEPTH - level = d + 1
  BY DEF Levels
<1>2. 2 ^ (d + 1) = 2 * P /\ P \in Nat \ {0}
  BY <1>1, PowersOfTwo, PowersPositive
<1>3. K = 2 * H /\ H \in Nat \ {0}
  BY <1>1, PowersOfTwo, PowersPositive
<1>4. k \in 0 .. P - 1
  OBVIOUS
<1>5. 2 ^ (TREE_DEPTH - level) = 2 * P
  BY <1>1, <1>2
<1> HIDE DEF P, H, K
<1>6. 2 * k \in 0 .. 2 * P - 1 /\ 2 * k + 1 \in 0 .. 2 * P - 1 /\ k \in Nat
  BY <1>2, <1>4
<1>7. k * H \in Nat
  BY <1>3, <1>6
<1>8. /\ k * (2 * H) = 2 * (k * H)
      /\ (k + 1) * (2 * H) = 2 * (k * H) + 2 * H
      /\ (2 * k) * H = 2 * (k * H)
      /\ (2 * k + 1) * H = 2 * (k * H) + H
      /\ (2 * k + 2) * H = 2 * (k * H) + 2 * H
  BY <1>3, <1>6
<1> DEFINE x == k * H
<1> HIDE DEF x
<1>9. /\ k * K <= (2 * k) * H
      /\ k * K <= (2 * k + 1) * H
      /\ (2 * k + 1) * H <= (k + 1) * K
      /\ (2 * k + 2) * H <= (k + 1) * K
      /\ k * K \in Nat /\ (k + 1) * K \in Nat
      /\ (2 * k) * H \in Nat /\ (2 * k + 1) * H \in Nat /\ (2 * k + 2) * H \in Nat
  <2>1. /\ k * K = 2 * x
        /\ (k + 1) * K = 2 * x + 2 * H
        /\ (2 * k) * H = 2 * x
        /\ (2 * k + 1) * H = 2 * x + H
        /\ (2 * k + 2) * H = 2 * x + 2 * H
    BY <1>3, <1>8 DEF x
  <2>2. x \in Nat
    BY <1>7 DEF x
  <2> DEFINE a == k * K
             b == (k + 1) * K
             c == (2 * k) * H
             e == (2 * k + 1) * H
             f == (2 * k + 2) * H
  <2>3. a = 2 * x /\ b = 2 * x + 2 * H /\ c = 2 * x /\ e = 2 * x + H /\ f = 2 * x + 2 * H
    BY <2>1
  <2> HIDE DEF a, b, c, e, f
  <2>4. a <= c /\ a <= e /\ e <= b /\ f <= b /\ a \in Nat /\ b \in Nat /\ c \in Nat /\ e \in Nat /\ f \in Nat
    BY <1>3, <2>2, <2>3
  <2>5. QED
    BY <2>4 DEF a, b, c, e, f
<1>10. QED
  BY <1>5, <1>6, <1>9 DEF H, K

\* A node with no leaf below it is the root of an empty subtree.
LEMMA BlankNodes ==
  ASSUME NEW L, NEW leaves, Len(leaves) \in Nat, WholeTree(L, leaves)
  PROVE  \A level \in 0 .. TREE_DEPTH : \A k \in 0 .. 2 ^ (TREE_DEPTH - level) - 1 :
           Len(leaves) <= k * 2 ^ level => L[level][k] = Zeros[level]
<1> USE TreeAssumption
<1> DEFINE T == { l \in Nat : l <= TREE_DEPTH =>
                    \A k \in 0 .. 2 ^ (TREE_DEPTH - l) - 1 :
                      Len(leaves) <= k * 2 ^ l => L[l][k] = Zeros[l] }
<1>1. 0 \in T
  <2>1. TREE_DEPTH - 0 = TREE_DEPTH /\ 2 ^ TREE_DEPTH \in Nat /\ 2 ^ 0 = 1
    BY PowersPositive, PowersOfTwo
  <2>2. ASSUME NEW k \in 0 .. 2 ^ (TREE_DEPTH - 0) - 1, Len(leaves) <= k * 2 ^ 0
        PROVE  L[0][k] = Zeros[0]
    <3>1. k \in 0 .. 2 ^ TREE_DEPTH - 1 /\ ~(k < Len(leaves))
      BY <2>1, <2>2
    <3>2. L[0][k] = ZERO
      BY <3>1 DEF WholeTree
    <3>3. QED
      BY <3>2, ZerosSteps
  <2>3. QED
    BY <2>2
<1>2. ASSUME NEW l \in Nat, l \in T PROVE l + 1 \in T
  <2>1. SUFFICES ASSUME l + 1 <= TREE_DEPTH, NEW k \in 0 .. 2 ^ (TREE_DEPTH - (l + 1)) - 1,
                        Len(leaves) <= k * 2 ^ (l + 1)
                 PROVE  L[l + 1][k] = Zeros[l + 1]
    OBVIOUS
  <2>2. l \in Levels
    BY <2>1 DEF Levels
  <2>3. /\ 2 * k \in 0 .. 2 ^ (TREE_DEPTH - l) - 1
        /\ 2 * k + 1 \in 0 .. 2 ^ (TREE_DEPTH - l) - 1
        /\ k * 2 ^ (l + 1) <= (2 * k) * 2 ^ l
        /\ k * 2 ^ (l + 1) <= (2 * k + 1) * 2 ^ l
        /\ k * 2 ^ (l + 1) \in Nat /\ (2 * k) * 2 ^ l \in Nat /\ (2 * k + 1) * 2 ^ l \in Nat
    BY <2>2, Children
  <2>4. Len(leaves) <= (2 * k) * 2 ^ l /\ Len(leaves) <= (2 * k + 1) * 2 ^ l
    BY <2>1, <2>3
  <2>5. L[l][2 * k] = Zeros[l] /\ L[l][2 * k + 1] = Zeros[l]
    <3>1. \A m \in 0 .. 2 ^ (TREE_DEPTH - l) - 1 : Len(leaves) <= m * 2 ^ l => L[l][m] = Zeros[l]
      <4>1. l <= TREE_DEPTH
        BY <2>1
      <4>2. l \in T
        BY <1>2
      <4>3. QED
        BY ONLY <4>1, <4>2, Zenon
    <3>2. QED
      BY ONLY <2>3, <2>4, <3>1, Zenon
  <2>6. L[l + 1][k] = HashPair(L[l][2 * k], L[l][2 * k + 1])
    BY <2>2 DEF WholeTree
  <2>7. QED
    BY <2>2, <2>5, <2>6, ZerosSteps
<1>3. Nat \subseteq T
  <2> HIDE DEF T
  <2>1. QED
    BY <1>1, <1>2, SetInduction
<1>4. QED
  BY <1>3

\* A node whose leaves are all inserted does not change any more.
LEMMA SettledNodes ==
  ASSUME NEW L, NEW leaves, Len(leaves) \in Nat, WholeTree(L, leaves),
         NEW M, NEW more, Len(more) \in Nat, WholeTree(M, more),
         Len(leaves) <= Len(more), \A i \in 1 .. Len(leaves) : more[i] = leaves[i]
  PROVE  \A level \in 0 .. TREE_DEPTH : \A k \in 0 .. 2 ^ (TREE_DEPTH - level) - 1 :
           (k + 1) * 2 ^ level <= Len(leaves) => M[level][k] = L[level][k]
<1> USE TreeAssumption
<1> DEFINE T == { l \in Nat : l <= TREE_DEPTH =>
                    \A k \in 0 .. 2 ^ (TREE_DEPTH - l) - 1 :
                      (k + 1) * 2 ^ l <= Len(leaves) => M[l][k] = L[l][k] }
<1>1. 0 \in T
  <2>1. TREE_DEPTH - 0 = TREE_DEPTH /\ 2 ^ TREE_DEPTH \in Nat /\ 2 ^ 0 = 1
    BY PowersPositive, PowersOfTwo
  <2>2. ASSUME NEW k \in 0 .. 2 ^ (TREE_DEPTH - 0) - 1, (k + 1) * 2 ^ 0 <= Len(leaves)
        PROVE  M[0][k] = L[0][k]
    <3>1. k \in 0 .. 2 ^ TREE_DEPTH - 1 /\ k < Len(leaves) /\ k < Len(more)
      BY <2>1, <2>2
    <3>2. L[0][k] = leaves[k + 1] /\ M[0][k] = more[k + 1]
      BY <3>1 DEF WholeTree
    <3>3. k + 1 \in 1 .. Len(leaves)
      BY <3>1
    <3>4. QED
      BY <3>2, <3>3
  <2>3. QED
    BY <2>2
<1>2. ASSUME NEW l \in Nat, l \in T PROVE l + 1 \in T
  <2>1. SUFFICES ASSUME l + 1 <= TREE_DEPTH, NEW k \in 0 .. 2 ^ (TREE_DEPTH - (l + 1)) - 1,
                        (k + 1) * 2 ^ (l + 1) <= Len(leaves)
                 PROVE  M[l + 1][k] = L[l + 1][k]
    OBVIOUS
  <2>2. l \in Levels
    BY <2>1 DEF Levels
  <2>3. /\ 2 * k \in 0 .. 2 ^ (TREE_DEPTH - l) - 1
        /\ 2 * k + 1 \in 0 .. 2 ^ (TREE_DEPTH - l) - 1
        /\ (2 * k + 1) * 2 ^ l <= (k + 1) * 2 ^ (l + 1)
        /\ (2 * k + 2) * 2 ^ l <= (k + 1) * 2 ^ (l + 1)
        /\ (k + 1) * 2 ^ (l + 1) \in Nat /\ (2 * k + 1) * 2 ^ l \in Nat /\ (2 * k + 2) * 2 ^ l \in Nat
    BY <2>2, Children
  <2>4. (2 * k + 1) * 2 ^ l <= Len(leaves) /\ ((2 * k + 1) + 1) * 2 ^ l <= Len(leaves)
    <3>1. (2 * k + 1) + 1 = 2 * k + 2
      BY <2>3
    <3>2. (2 * k + 1) * 2 ^ l <= Len(leaves) /\ (2 * k + 2) * 2 ^ l <= Len(leaves)
      BY <2>1, <2>3
    <3>3. QED
      BY <3>1, <3>2
  <2>5. M[l][2 * k] = L[l][2 * k] /\ M[l][2 * k + 1] = L[l][2 * k + 1]
    <3>1. \A m \in 0 .. 2 ^ (TREE_DEPTH - l) - 1 : (m + 1) * 2 ^ l <= Len(leaves) => M[l][m] = L[l][m]
      <4>1. l <= TREE_DEPTH
        BY <2>1
      <4>2. l \in T
        BY <1>2
      <4>3. QED
        BY ONLY <4>1, <4>2, Zenon
    <3>2. QED
      BY ONLY <2>3, <2>4, <3>1, Zenon
  <2>6. /\ L[l + 1][k] = HashPair(L[l][2 * k], L[l][2 * k + 1])
        /\ M[l + 1][k] = HashPair(M[l][2 * k], M[l][2 * k + 1])
    BY <2>2 DEF WholeTree
  <2>7. QED
    BY <2>5, <2>6
<1>3. Nat \subseteq T
  <2> HIDE DEF T
  <2>1. QED
    BY <1>1, <1>2, SetInduction
<1>4. QED
  BY <1>3

\* One leaf more moves the ancestor by one at most.
LEMMA NextAncestor ==
  ASSUME NEW n \in Nat, NEW level \in Levels
  PROVE  /\ Ancestor(n, level) \in Nat
         /\ Ancestor(n + 1, level) \in {Ancestor(n, level), Ancestor(n, level) + 1}
<1> USE TreeAssumption
<1> DEFINE H == 2 ^ level
           q == n \div H
           r == n % H
           u == (n + 1) \div H
           v == (n + 1) % H
<1>1. H \in Nat \ {0}
  BY PowersPositive DEF Levels
<1> HIDE DEF H
<1>2. q \in Int /\ r \in 0 .. H - 1 /\ n = q * H + r
  BY <1>1, QuotientRemainder
<1>3. u \in Int /\ v \in 0 .. H - 1 /\ n + 1 = u * H + v
  BY <1>1, QuotientRemainder
<1>4. q \in Nat
  BY <1>1
<1> HIDE DEF q, r, u, v
<1>5. CASE r + 1 = H
  <2>1. n + 1 = (q + 1) * H + 0
    BY <1>1, <1>2, <1>5
  <2> DEFINE p == q + 1
  <2>2. p \in Int /\ 0 \in 0 .. H - 1 /\ u * H + v = p * H + 0
    BY <1>1, <1>2, <1>3, <2>1
  <2> HIDE DEF p
  <2>3. u = p
    BY <1>1, <1>3, <2>2, QuotientUnique
  <2>4. QED
    BY <1>4, <2>3 DEF p, u, q, H, Ancestor
<1>6. CASE r + 1 # H
  <2> DEFINE w == r + 1
  <2>1. w \in 0 .. H - 1 /\ u * H + v = q * H + w
    BY <1>1, <1>2, <1>3, <1>6
  <2> HIDE DEF w
  <2>2. u = q
    BY <1>1, <1>2, <1>3, <2>1, QuotientUnique
  <2>3. QED
    BY <1>4, <2>2 DEF u, q, H, Ancestor
<1>7. QED
  BY <1>5, <1>6

-------------------------------------------------------------------------------
(* The cached hashes against the whole tree *)

\* What the cache holds with n leaves inserted: where the way up from leaf n goes
\* right, the node to its left, which is complete.
CacheOK(filled, L, n) ==
  \A level \in Levels :
    Ancestor(n, level) % 2 # 0 => filled[level] = L[level][Ancestor(n, level) - 1]

\* One more leaf: L is the tree before, M the tree after, path the way up.
Grown(L, leaves, M, more, n, leaf) ==
  /\ n \in 0 .. MAX_LEAVES - 1
  /\ Len(leaves) = n /\ WholeTree(L, leaves)
  /\ Len(more) = n + 1 /\ WholeTree(M, more)
  /\ \A i \in 1 .. n : more[i] = leaves[i]
  /\ more[n + 1] = leaf

\* The nodes of L over none but its leaves are those of M.
Settled(L, leaves, M) ==
  \A level \in 0 .. TREE_DEPTH : \A k \in 0 .. 2 ^ (TREE_DEPTH - level) - 1 :
    (k + 1) * 2 ^ level <= Len(leaves) => M[level][k] = L[level][k]

LEMMA GrownIsSettled ==
  ASSUME NEW L, NEW leaves, NEW M, NEW more, NEW n, NEW leaf, Grown(L, leaves, M, more, n, leaf)
  PROVE  Settled(L, leaves, M)
<1>1. /\ Len(leaves) \in Nat /\ WholeTree(L, leaves)
      /\ Len(more) \in Nat /\ WholeTree(M, more)
      /\ Len(leaves) <= Len(more)
  BY DEF Grown
<1>2. \A i \in 1 .. Len(leaves) : more[i] = leaves[i]
  BY DEF Grown
<1>3. QED
  BY <1>1, <1>2, SettledNodes DEF Settled

\* The hashes of _insert are the nodes of the whole tree above the new leaf.
LEMMA PathIsInTree ==
  ASSUME NEW L, NEW leaves, NEW M, NEW more, NEW n, NEW leaf, Grown(L, leaves, M, more, n, leaf),
         NEW filled, CacheOK(filled, L, n),
         NEW path, path = PathHashes(leaf, n, filled)
  PROVE  \A level \in 0 .. TREE_DEPTH : path[level] = M[level][Ancestor(n, level)]
<1> USE TreeAssumption
<1>1. /\ n \in 0 .. MAX_LEAVES - 1 /\ MAX_LEAVES \in Nat /\ n \in Nat
      /\ Len(leaves) = n /\ WholeTree(L, leaves)
      /\ Len(more) = n + 1 /\ WholeTree(M, more)
      /\ \A i \in 1 .. n : more[i] = leaves[i]
      /\ more[n + 1] = leaf
  BY PowersPositive DEF Grown, MAX_LEAVES
<1> DEFINE T == { l \in Nat : l <= TREE_DEPTH => path[l] = M[l][Ancestor(n, l)] }
<1>2. 0 \in T
  <2>1. path[0] = leaf
    BY PathSteps
  <2>2. Ancestor(n, 0) = n
    BY <1>1, Ancestors
  <2>3. n \in 0 .. 2 ^ TREE_DEPTH - 1 /\ n < Len(more)
    BY <1>1 DEF MAX_LEAVES
  <2>4. M[0][n] = more[n + 1]
    BY <1>1, <2>3 DEF WholeTree
  <2>5. QED
    BY <1>1, <2>1, <2>2, <2>4
<1>3. ASSUME NEW l \in Nat, l \in T PROVE l + 1 \in T
  <2>1. SUFFICES ASSUME l + 1 <= TREE_DEPTH PROVE path[l + 1] = M[l + 1][Ancestor(n, l + 1)]
    OBVIOUS
  <2>2. l \in Levels /\ l \in 0 .. TREE_DEPTH - 1 /\ l \in 0 .. TREE_DEPTH
    BY <2>1 DEF Levels
  <2> DEFINE q == Ancestor(n, l)
             p == Ancestor(n, l + 1)
  <2>3. /\ q \in 0 .. 2 ^ (TREE_DEPTH - l) - 1
        /\ q * 2 ^ l <= n /\ n + 1 <= (q + 1) * 2 ^ l
        /\ p = q \div 2
        /\ p \in 0 .. 2 ^ (TREE_DEPTH - (l + 1)) - 1
    <3>1. l + 1 \in 0 .. TREE_DEPTH
      BY <2>2
    <3>2. QED
      BY <1>1, <2>2, <3>1, Ancestors
  <2>4. path[l] = M[l][q]
    BY <1>3, <2>1
  <2>5. M[l + 1][p] = HashPair(M[l][2 * p], M[l][2 * p + 1])
    BY <1>1, <2>2, <2>3 DEF WholeTree
  <2>6. path[l + 1] = IF IsLeftChild(n, l) THEN HashPair(path[l], Zeros[l])
                                           ELSE HashPair(filled[l], path[l])
    BY <2>2, PathSteps
  <2>7. IsLeftChild(n, l) <=> q % 2 = 0
    BY DEF IsLeftChild, Ancestor
  <2>8. /\ 2 * p \in 0 .. 2 ^ (TREE_DEPTH - l) - 1
        /\ 2 * p + 1 \in 0 .. 2 ^ (TREE_DEPTH - l) - 1
    BY <2>2, <2>3, Children
  <2> HIDE DEF p, q
  <2>9. q \in Nat /\ p \in Nat /\ 2 ^ (TREE_DEPTH - l) \in Nat
    <3>1. TREE_DEPTH - l \in 0 .. TREE_DEPTH
      BY <2>2
    <3>2. 2 ^ (TREE_DEPTH - l) \in Nat
      BY <3>1, PowersPositive
    <3>3. QED
      BY <2>3, <3>2
  <2>10. CASE q % 2 = 0
    <3>1. q = 2 * p
      BY <2>3, <2>9, <2>10
    <3>2. Len(more) <= (2 * p + 1) * 2 ^ l
      BY <1>1, <2>3, <3>1
    <3>3. M[l][2 * p + 1] = Zeros[l]
      <4>1. \A k \in 0 .. 2 ^ (TREE_DEPTH - l) - 1 :
              Len(more) <= k * 2 ^ l => M[l][k] = Zeros[l]
        <5>1. Len(more) \in Nat /\ WholeTree(M, more)
          BY <1>1
        <5>2. QED
          BY ONLY <2>2, <5>1, BlankNodes
      <4>2. QED
        BY ONLY <2>8, <3>2, <4>1, Zenon
    <3>4. QED
      BY <2>4, <2>5, <2>6, <2>7, <2>10, <3>1, <3>3 DEF p
  <2>11. CASE q % 2 # 0
    <3>1. q = 2 * p + 1 /\ q - 1 = 2 * p
      BY <2>3, <2>9, <2>11
    <3>2. filled[l] = L[l][q - 1]
      BY <2>2, <2>11 DEF CacheOK, q
    <3>3. (2 * p + 1) * 2 ^ l <= Len(leaves)
      BY <1>1, <2>3, <3>1
    <3>4. M[l][2 * p] = L[l][2 * p]
      <4>1. \A k \in 0 .. 2 ^ (TREE_DEPTH - l) - 1 :
              (k + 1) * 2 ^ l <= Len(leaves) => M[l][k] = L[l][k]
        <5>1. Settled(L, leaves, M)
          BY GrownIsSettled
        <5>2. QED
          BY ONLY <2>2, <5>1, Zenon DEF Settled
      <4>2. QED
        BY ONLY <2>8, <3>3, <4>1, Zenon
    <3>5. QED
      BY <2>4, <2>5, <2>6, <2>7, <2>11, <3>1, <3>2, <3>4 DEF p
  <2>12. QED
    BY <2>10, <2>11
<1>4. Nat \subseteq T
  <2> HIDE DEF T
  <2>1. QED
    BY <1>2, <1>3, SetInduction
<1>5. QED
  BY <1>4

\* The cache after the insertion is that of the grown tree.
LEMMA CacheKept ==
  ASSUME NEW L, NEW leaves, NEW M, NEW more, NEW n, NEW leaf, Grown(L, leaves, M, more, n, leaf),
         NEW filled, CacheOK(filled, L, n)
  PROVE  CacheOK(StoreLeft(filled, n, PathHashes(leaf, n, filled)), M, n + 1)
<1> USE TreeAssumption
<1> DEFINE path == PathHashes(leaf, n, filled)
           new == StoreLeft(filled, n, path)
<1>1. /\ n \in 0 .. MAX_LEAVES - 1 /\ MAX_LEAVES \in Nat /\ n \in Nat
      /\ Len(leaves) = n /\ WholeTree(L, leaves)
      /\ Len(more) = n + 1 /\ WholeTree(M, more)
      /\ \A i \in 1 .. n : more[i] = leaves[i]
  BY PowersPositive DEF Grown, MAX_LEAVES
<1> SUFFICES ASSUME NEW level \in Levels, Ancestor(n + 1, level) % 2 # 0
             PROVE  new[level] = M[level][Ancestor(n + 1, level) - 1]
  BY DEF CacheOK
<1> DEFINE q == Ancestor(n, level)
           s == Ancestor(n + 1, level)
<1>2. level \in 0 .. TREE_DEPTH
  BY DEF Levels
<1>3. q \in Nat /\ s \in {q, q + 1} /\ s % 2 # 0
  BY <1>1, NextAncestor
<1>4. q \in 0 .. 2 ^ (TREE_DEPTH - level) - 1 /\ q * 2 ^ level <= n
  BY <1>1, <1>2, Ancestors
<1>5. new[level] = IF IsLeftChild(n, level) THEN path[level] ELSE filled[level]
  BY DEF StoreLeft
<1>6. IsLeftChild(n, level) <=> q % 2 = 0
  BY DEF IsLeftChild, Ancestor
<1>7. path[level] = M[level][q]
  BY <1>2, PathIsInTree
<1>8. q % 2 # 0 => filled[level] = L[level][q - 1]
  BY DEF CacheOK
<1> HIDE DEF path, new, q, s
<1>9. CASE q % 2 = 0
  <2>1. s = q + 1 /\ s - 1 = q
    BY <1>3, <1>9
  <2>2. QED
    BY <1>5, <1>6, <1>7, <1>9, <2>1 DEF s, new
<1>10. CASE q % 2 # 0
  <2>1. s = q /\ q >= 1
    BY <1>3, <1>10
  <2>2. q - 1 \in 0 .. 2 ^ (TREE_DEPTH - level) - 1 /\ (q - 1) + 1 = q
    <3>1. 2 ^ (TREE_DEPTH - level) \in Nat
      <4>1. TREE_DEPTH - level \in 0 .. TREE_DEPTH
        BY <1>2
      <4>2. QED
        BY <4>1, PowersPositive
    <3>2. QED
      BY <1>3, <1>4, <2>1, <3>1
  <2>3. M[level][q - 1] = L[level][q - 1]
    <3>1. \A k \in 0 .. 2 ^ (TREE_DEPTH - level) - 1 :
            (k + 1) * 2 ^ level <= Len(leaves) => M[level][k] = L[level][k]
      <4>1. /\ Len(leaves) \in Nat /\ WholeTree(L, leaves)
            /\ Len(more) \in Nat /\ WholeTree(M, more)
            /\ Len(leaves) <= Len(more)
            /\ \A i \in 1 .. Len(leaves) : more[i] = leaves[i]
        BY <1>1
      <4>2. QED
        BY ONLY <1>2, <4>1, SettledNodes
    <3>2. ((q - 1) + 1) * 2 ^ level <= Len(leaves)
      BY <1>1, <1>4, <2>2
    <3>3. QED
      BY ONLY <2>2, <3>1, <3>2, Zenon
  <2>4. QED
    BY <1>5, <1>6, <1>8, <1>10, <2>1, <2>3 DEF s, new
<1>11. QED
  BY <1>9, <1>10

\* The tree as it was after k insertions.
Version(t, k) == [i \in 1 .. k |-> t.log[i].leaf]

\* Together with RingOK, the inductive invariant of the hashing: every root
\* computed so far is that of the whole tree of its version, and the cache holds
\* the nodes of the present one.
HashOK(t) ==
  /\ t.nextIndex <= MAX_LEAVES
  /\ \A i \in 1 .. t.nextIndex : t.log[i].leaf \in Leaves
  /\ \A k \in 0 .. t.nextIndex : RootAfter(t, k) = ReferenceRoot(Version(t, k))
  /\ \A L : WholeTree(L, Version(t, t.nextIndex)) => CacheOK(t.filledSubtrees, L, t.nextIndex)

HashInv == HashOK(tree)

LEMMA VersionLength ==
  ASSUME NEW t, NEW k \in Nat
  PROVE  Len(Version(t, k)) = k /\ \A i \in 1 .. k : Version(t, k)[i] = t.log[i].leaf
<1>1. Version(t, k) \in Seq({ t.log[i].leaf : i \in 1 .. k })
  BY DEF Version
<1>2. QED
  BY <1>1 DEF Version

LEMMA HashOKEmpty == ASSUME NEW t, t = EmptyTree PROVE HashOK(t)
<1> USE TreeAssumption
<1>1. t.nextIndex = 0 /\ t.log = << >>
  BY DEF EmptyTree
<1>2. MAX_LEAVES \in Nat
  BY PowersPositive DEF MAX_LEAVES
<1>3. RootAfter(t, 0) = ReferenceRoot(Version(t, 0))
  <2> DEFINE leaves == Version(t, 0)
  <2>1. Len(leaves) = 0
    BY VersionLength
  <2> HIDE DEF leaves
  <2>2. PICK L : WholeTree(L, leaves) /\ ReferenceRoot(leaves) = L[TREE_DEPTH][0]
    BY ReferenceTree
  <2>3. \A level \in 0 .. TREE_DEPTH : \A k \in 0 .. 2 ^ (TREE_DEPTH - level) - 1 :
          Len(leaves) <= k * 2 ^ level => L[level][k] = Zeros[level]
    <3>1. Len(leaves) \in Nat /\ WholeTree(L, leaves)
      BY <2>1, <2>2
    <3>2. QED
      BY ONLY <3>1, BlankNodes
  <2>4. TREE_DEPTH \in 0 .. TREE_DEPTH /\ TREE_DEPTH - TREE_DEPTH = 0
    OBVIOUS
  <2>5. 0 \in 0 .. 2 ^ (TREE_DEPTH - TREE_DEPTH) - 1
    BY <2>4, PowersOfTwo
  <2>6. Len(leaves) <= 0 * 2 ^ TREE_DEPTH
    BY <2>1, <2>4, PowersPositive
  <2>7. L[TREE_DEPTH][0] = Zeros[TREE_DEPTH]
    BY ONLY <2>3, <2>4, <2>5, <2>6, Zenon
  <2>8. RootAfter(t, 0) = Zeros[TREE_DEPTH]
    BY DEF RootAfter
  <2>9. QED
    BY <2>2, <2>7, <2>8 DEF leaves
<1>4. ASSUME NEW L, NEW level \in Levels PROVE Ancestor(0, level) % 2 = 0
  <2>1. 2 ^ level \in Nat \ {0}
    BY PowersPositive DEF Levels
  <2> DEFINE H == 2 ^ level
  <2> HIDE DEF H
  <2>2. H \in Nat \ {0}
    BY <2>1 DEF H
  <2>3. 0 \div H = 0
    <3>1. 0 \div H \in Int /\ 0 % H \in 0 .. H - 1 /\ 0 = (0 \div H) * H + (0 % H)
      BY <2>2, QuotientRemainder
    <3> DEFINE q == 0 \div H
               r == 0 % H
    <3> HIDE DEF q, r
    <3>2. q \in Int /\ r \in 0 .. H - 1 /\ q * H + r = 0 * H + 0
      BY <2>2, <3>1 DEF q, r
    <3>3. 0 \in Int /\ 0 \in 0 .. H - 1
      BY <2>2
    <3>4. q = 0
      BY <2>2, <3>2, <3>3, QuotientUnique
    <3>5. QED
      BY <3>4 DEF q
  <2>4. QED
    BY <2>3 DEF H, Ancestor
<1>5. \A L : CacheOK(t.filledSubtrees, L, 0)
  BY <1>4 DEF CacheOK
<1>6. QED
  BY <1>1, <1>2, <1>3, <1>5 DEF HashOK

\* An insertion computes the root of the whole tree from the cache alone.
LEMMA HashOKInserted ==
  ASSUME NEW t, RingOK(t), HashOK(t), HasRoom(t, 1), NEW leaf \in Leaves,
         NEW u, u = Inserted(t, leaf)
  PROVE  HashOK(u)
<1> USE TreeAssumption
<1> DEFINE n == t.nextIndex
           leaves == Version(t, n)
           more == Version(u, n + 1)
           path == PathHashes(leaf, n, t.filledSubtrees)
           event == [leaf |-> leaf, leafIndex |-> n, newRoot |-> path[TREE_DEPTH]]
<1>1. /\ u.nextIndex = n + 1
      /\ u.log = Append(t.log, event)
      /\ u.filledSubtrees = StoreLeft(t.filledSubtrees, n, path)
  BY DEF Inserted
<1>2. n \in Nat /\ Len(t.log) = n /\ MAX_LEAVES \in Nat /\ n \in 0 .. MAX_LEAVES - 1
  BY PowersPositive DEF RingOK, HasRoom, MAX_LEAVES
<1>3. PICK S : t.log \in Seq(S)
  BY DEF RingOK
<1> HIDE DEF path
<1>4. /\ \A i \in 1 .. n : u.log[i] = t.log[i]
      /\ u.log[n + 1] = event
  <2>1. t.log \in Seq(S \cup {event}) /\ event \in S \cup {event}
    BY <1>3
  <2> HIDE DEF event
  <2>2. QED
    BY <1>1, <1>2, <2>1
<1>5. /\ Len(leaves) = n /\ Len(more) = n + 1
      /\ \A i \in 1 .. n : more[i] = leaves[i]
      /\ more[n + 1] = leaf
  <2>1. Len(leaves) = n /\ \A i \in 1 .. n : leaves[i] = t.log[i].leaf
    BY <1>2, VersionLength
  <2>2. n + 1 \in Nat
    BY <1>2
  <2>3. Len(more) = n + 1 /\ \A i \in 1 .. n + 1 : more[i] = u.log[i].leaf
    BY <2>2, VersionLength
  <2> HIDE DEF leaves, more
  <2>4. \A i \in 1 .. n : i \in 1 .. n + 1
    BY <1>2
  <2>5. n + 1 \in 1 .. n + 1
    BY <1>2
  <2>6. more[n + 1] = u.log[n + 1].leaf
    BY <2>3, <2>5
  <2>7. more[n + 1] = leaf
    BY <1>4, <2>6
  <2>8. ASSUME NEW i \in 1 .. n PROVE more[i] = leaves[i]
    <3>1. more[i] = u.log[i].leaf /\ leaves[i] = t.log[i].leaf /\ u.log[i] = t.log[i]
      BY ONLY <1>4, <2>1, <2>3, <2>4, <2>8, Zenon
    <3>2. QED
      BY <3>1
  <2>9. QED
    BY <2>1, <2>3, <2>7, <2>8
<1>6. \A k \in 0 .. n : Version(u, k) = Version(t, k) /\ RootAfter(u, k) = RootAfter(t, k)
  <2> SUFFICES ASSUME NEW k \in 0 .. n
               PROVE  Version(u, k) = Version(t, k) /\ RootAfter(u, k) = RootAfter(t, k)
    OBVIOUS
  <2>1. \A i \in 1 .. k : u.log[i] = t.log[i]
    BY <1>2, <1>4
  <2>2. Version(u, k) = Version(t, k)
    BY <2>1 DEF Version
  <2>3. RootAfter(u, k) = RootAfter(t, k)
    BY <1>2, <2>1 DEF RootAfter
  <2>4. QED
    BY <2>2, <2>3
<1>7. ASSUME NEW L, WholeTree(L, leaves), NEW M, WholeTree(M, more)
      PROVE  Grown(L, leaves, M, more, n, leaf) /\ CacheOK(t.filledSubtrees, L, n)
  <2>1. Grown(L, leaves, M, more, n, leaf)
    <3> HIDE DEF leaves, more
    <3>1. QED
      BY <1>2, <1>5, <1>7 DEF Grown
  <2>2. CacheOK(t.filledSubtrees, L, n)
    BY <1>7 DEF HashOK
  <2>3. QED
    BY <2>1, <2>2
<1>8. PICK L : WholeTree(L, leaves)
  BY ReferenceTree
<1>9. RootAfter(u, n + 1) = ReferenceRoot(more)
  <2>1. PICK M : WholeTree(M, more) /\ ReferenceRoot(more) = M[TREE_DEPTH][0]
    BY ReferenceTree
  <2>2. Grown(L, leaves, M, more, n, leaf) /\ CacheOK(t.filledSubtrees, L, n)
    BY <1>7, <1>8, <2>1
  <2>3. path[TREE_DEPTH] = M[TREE_DEPTH][Ancestor(n, TREE_DEPTH)]
    <3> HIDE DEF leaves, more
    <3>1. path = PathHashes(leaf, n, t.filledSubtrees)
      BY DEF path
    <3>2. \A level \in 0 .. TREE_DEPTH : path[level] = M[level][Ancestor(n, level)]
      BY ONLY <2>2, <3>1, PathIsInTree
    <3>3. QED
      BY <3>2
  <2>4. Ancestor(n, TREE_DEPTH) = 0
    BY <1>2, TopAncestor
  <2>5. RootAfter(u, n + 1) = path[TREE_DEPTH]
    BY <1>2, <1>4 DEF RootAfter
  <2>6. QED
    BY <2>1, <2>3, <2>4, <2>5
<1>10. ASSUME NEW M, WholeTree(M, more) PROVE CacheOK(u.filledSubtrees, M, n + 1)
  <2>1. Grown(L, leaves, M, more, n, leaf) /\ CacheOK(t.filledSubtrees, L, n)
    BY <1>7, <1>8, <1>10
  <2> HIDE DEF leaves, more
  <2>2. CacheOK(StoreLeft(t.filledSubtrees, n, PathHashes(leaf, n, t.filledSubtrees)), M, n + 1)
    BY <2>1, CacheKept
  <2>3. QED
    BY <1>1, <2>2 DEF path
<1>11. \A i \in 1 .. n + 1 : u.log[i].leaf \in Leaves
  <2>1. \A i \in 1 .. n : t.log[i].leaf \in Leaves
    BY DEF HashOK
  <2>2. \A i \in 1 .. n + 1 : i \in 1 .. n \/ i = n + 1
    BY <1>2
  <2>3. QED
    BY <1>4, <2>1, <2>2
<1>12. \A k \in 0 .. n + 1 : RootAfter(u, k) = ReferenceRoot(Version(u, k))
  <2>1. \A k \in 0 .. n : RootAfter(t, k) = ReferenceRoot(Version(t, k))
    BY DEF HashOK
  <2>2. \A k \in 0 .. n + 1 : k \in 0 .. n \/ k = n + 1
    BY <1>2
  <2>3. QED
    BY <1>6, <1>9, <2>1, <2>2
<1>13. n + 1 <= MAX_LEAVES
  BY <1>2
<1>14. QED
  BY <1>1, <1>10, <1>11, <1>12, <1>13 DEF HashOK

\* The invariant of the hashing holds of every reachable state.
THEOREM HashInvariant == TreeSpec => [](RingInv /\ HashInv)
<1>1. TreeInit => RingInv /\ HashInv
  BY RingOKEmpty, HashOKEmpty DEF TreeInit, RingInv, HashInv
<1>2. RingInv /\ HashInv /\ [TreeNext]_tree => (RingInv /\ HashInv)'
  <2>1. ASSUME RingInv, HashInv, TreeNext PROVE (RingInv /\ HashInv)'
    <3>1. PICK leaf \in Leaves : Insert(leaf)
      BY <2>1 DEF TreeNext
    <3>2. RingOK(tree) /\ HashOK(tree) /\ HasRoom(tree, 1) /\ tree' = Inserted(tree, leaf)
      BY <2>1, <3>1 DEF RingInv, HashInv, Insert
    <3>3. RingOK(tree')
      BY <3>2, RingOKInserted
    <3>4. HashOK(tree')
      BY <3>2, HashOKInserted
    <3>5. QED
      BY <3>3, <3>4 DEF RingInv, HashInv
  <2>2. ASSUME RingInv, HashInv, UNCHANGED tree PROVE (RingInv /\ HashInv)'
    BY <2>2 DEF RingInv, HashInv
  <2>3. QED
    BY <2>1, <2>2
<1>3. QED
  BY <1>1, <1>2, PTL DEF TreeSpec

\* The ring's current slot holds the root of the newest version.
LEMMA LastRoot ==
  ASSUME RingInv
  PROVE  GetLastRoot(tree) = RootAfter(tree, tree.nextIndex)
<1>1. tree.nextIndex \in RecentVersions(tree)
  BY TreeAssumption DEF RingInv, RingOK, RecentVersions
<1>2. QED
  BY <1>1 DEF RingInv, RingOK, GetLastRoot

\* _insert hashes one path, with one cached hash a level; the root it yields is
\* that of the full tree built from all the leaves, at any depth.
THEOREM CachedRootIsReference == TreeSpec => []RootIsReference
<1>1. ASSUME RingInv, HashInv PROVE RootIsReference
  <2>1. GetLastRoot(tree) = RootAfter(tree, tree.nextIndex)
    BY <1>1, LastRoot
  <2>2. tree.nextIndex \in Nat /\ Len(tree.log) = tree.nextIndex
    BY <1>1 DEF RingInv, RingOK
  <2>3. RootAfter(tree, tree.nextIndex) = ReferenceRoot(Version(tree, tree.nextIndex))
    BY <1>1, <2>2 DEF HashInv, HashOK
  <2>4. LeavesOf(tree) = Version(tree, tree.nextIndex)
    BY <2>2 DEF LeavesOf, Version
  <2>5. QED
    BY <2>1, <2>3, <2>4 DEF RootIsReference
<1>2. QED
  BY <1>1, HashInvariant, PTL

\* Equal hashes are of equal pairs.
LEMMA HashInjective ==
  \A a, b, c, d : HashPair(a, b) = HashPair(c, d) => a = c /\ b = d
BY DEF HashPair

\* Trees with the same root have the same leaves: hashing is injective.
LEMMA SameRootSameLeaves ==
  ASSUME NEW L, NEW leaves, WholeTree(L, leaves), NEW M, NEW others, WholeTree(M, others),
         L[TREE_DEPTH][0] = M[TREE_DEPTH][0]
  PROVE  \A k \in 0 .. 2 ^ TREE_DEPTH - 1 : L[0][k] = M[0][k]
<1> USE TreeAssumption
<1> DEFINE T == { d \in Nat : d <= TREE_DEPTH =>
                    \A k \in 0 .. 2 ^ d - 1 : L[TREE_DEPTH - d][k] = M[TREE_DEPTH - d][k] }
<1>1. 0 \in T
  <2>1. ASSUME NEW k \in 0 .. 2 ^ 0 - 1 PROVE L[TREE_DEPTH - 0][k] = M[TREE_DEPTH - 0][k]
    <3>1. k = 0 /\ TREE_DEPTH - 0 = TREE_DEPTH
      BY PowersOfTwo
    <3>2. QED
      BY <3>1
  <2>2. QED
    BY <2>1
<1>2. ASSUME NEW d \in Nat, d \in T PROVE d + 1 \in T
  <2>1. SUFFICES ASSUME d + 1 <= TREE_DEPTH, NEW k \in 0 .. 2 ^ (d + 1) - 1
                 PROVE  L[TREE_DEPTH - (d + 1)][k] = M[TREE_DEPTH - (d + 1)][k]
    OBVIOUS
  <2> DEFINE l == TREE_DEPTH - (d + 1)
             m == k \div 2
             P == 2 ^ d
  <2>2. l \in Levels /\ l + 1 = TREE_DEPTH - d /\ TREE_DEPTH - (l + 1) = d /\ d \in 0 .. TREE_DEPTH - 1
    BY <2>1 DEF Levels
  <2>3. 2 ^ (d + 1) = 2 * P /\ P \in Nat \ {0}
    BY <2>2, PowersOfTwo, PowersPositive
  <2>4. m \in 0 .. P - 1 /\ (k = 2 * m \/ k = 2 * m + 1)
    <3> HIDE DEF P
    <3>1. k \in 0 .. 2 * P - 1
      BY <2>3
    <3>2. QED
      BY <2>3, <3>1
  <2>5. \A i \in 0 .. P - 1 : L[TREE_DEPTH - d][i] = M[TREE_DEPTH - d][i]
    BY <1>2, <2>1
  <2>6. L[l + 1][m] = M[l + 1][m]
    <3>1. L[TREE_DEPTH - d][m] = M[TREE_DEPTH - d][m]
      <4> HIDE DEF P, m, l
      <4>1. QED
        BY <2>4, <2>5
    <3>2. l + 1 = TREE_DEPTH - d
      BY <2>2
    <3> HIDE DEF P, m, l
    <3>3. QED
      BY <3>1, <3>2
  <2>7. /\ L[l + 1][m] = HashPair(L[l][2 * m], L[l][2 * m + 1])
        /\ M[l + 1][m] = HashPair(M[l][2 * m], M[l][2 * m + 1])
    <3>1. m \in 0 .. 2 ^ (TREE_DEPTH - (l + 1)) - 1
      BY <2>2, <2>4
    <3> HIDE DEF l, m
    <3>2. QED
      BY <2>2, <3>1 DEF WholeTree
  <2> HIDE DEF l, m, P
  <2>8. L[l][2 * m] = M[l][2 * m] /\ L[l][2 * m + 1] = M[l][2 * m + 1]
    <3>1. HashPair(L[l][2 * m], L[l][2 * m + 1]) = HashPair(M[l][2 * m], M[l][2 * m + 1])
      BY <2>6, <2>7
    <3> DEFINE a == L[l][2 * m]
               b == L[l][2 * m + 1]
               c == M[l][2 * m]
               e == M[l][2 * m + 1]
    <3> HIDE DEF a, b, c, e
    <3>2. HashPair(a, b) = HashPair(c, e)
      BY <3>1 DEF a, b, c, e
    <3>3. a = c /\ b = e
      BY ONLY <3>2, HashInjective
    <3>4. QED
      BY <3>3 DEF a, b, c, e
  <2>9. L[l][k] = M[l][k]
    BY <2>4, <2>8
  <2>10. QED
    BY <2>9 DEF l
<1>3. Nat \subseteq T
  <2> HIDE DEF T
  <2>1. QED
    BY <1>1, <1>2, SetInduction
<1>4. TREE_DEPTH \in T /\ TREE_DEPTH - TREE_DEPTH = 0
  BY <1>3
<1>5. \A k \in 0 .. 2 ^ TREE_DEPTH - 1 :
        L[TREE_DEPTH - TREE_DEPTH][k] = M[TREE_DEPTH - TREE_DEPTH][k]
  BY <1>4
<1>6. QED
  BY <1>4, <1>5

\* Trees with the same leaves have the same root.
LEMMA SameLeavesSameRoot ==
  ASSUME NEW L, NEW leaves, WholeTree(L, leaves), NEW M, NEW others, WholeTree(M, others),
         \A k \in 0 .. 2 ^ TREE_DEPTH - 1 : L[0][k] = M[0][k]
  PROVE  L[TREE_DEPTH][0] = M[TREE_DEPTH][0]
<1> USE TreeAssumption
<1> DEFINE T == { l \in Nat : l <= TREE_DEPTH =>
                    \A k \in 0 .. 2 ^ (TREE_DEPTH - l) - 1 : L[l][k] = M[l][k] }
<1>1. 0 \in T
  <2>1. TREE_DEPTH - 0 = TREE_DEPTH
    OBVIOUS
  <2>2. QED
    BY <2>1
<1>2. ASSUME NEW l \in Nat, l \in T PROVE l + 1 \in T
  <2>1. SUFFICES ASSUME l + 1 <= TREE_DEPTH, NEW k \in 0 .. 2 ^ (TREE_DEPTH - (l + 1)) - 1
                 PROVE  L[l + 1][k] = M[l + 1][k]
    OBVIOUS
  <2>2. l \in Levels
    BY <2>1 DEF Levels
  <2>3. 2 * k \in 0 .. 2 ^ (TREE_DEPTH - l) - 1 /\ 2 * k + 1 \in 0 .. 2 ^ (TREE_DEPTH - l) - 1
    BY <2>2, Children
  <2>4. \A m \in 0 .. 2 ^ (TREE_DEPTH - l) - 1 : L[l][m] = M[l][m]
    <3>1. l <= TREE_DEPTH
      BY <2>1
    <3>2. l \in T
      BY <1>2
    <3>3. QED
      BY ONLY <3>1, <3>2, Zenon
  <2>5. L[l][2 * k] = M[l][2 * k] /\ L[l][2 * k + 1] = M[l][2 * k + 1]
    BY ONLY <2>3, <2>4, Zenon
  <2>6. /\ L[l + 1][k] = HashPair(L[l][2 * k], L[l][2 * k + 1])
        /\ M[l + 1][k] = HashPair(M[l][2 * k], M[l][2 * k + 1])
    BY <2>2 DEF WholeTree
  <2>7. QED
    BY <2>5, <2>6
<1>3. Nat \subseteq T
  <2> HIDE DEF T
  <2>1. QED
    BY <1>1, <1>2, SetInduction
<1>4. TREE_DEPTH \in T
  BY <1>3
<1>5. \A k \in 0 .. 2 ^ (TREE_DEPTH - TREE_DEPTH) - 1 : L[TREE_DEPTH][k] = M[TREE_DEPTH][k]
  BY <1>4
<1>6. 0 \in 0 .. 2 ^ (TREE_DEPTH - TREE_DEPTH) - 1
  <2> DEFINE e == TREE_DEPTH - TREE_DEPTH
  <2>1. e = 0
    OBVIOUS
  <2> HIDE DEF e
  <2>2. 0 \in 0 .. 2 ^ e - 1
    BY <2>1, PowersOfTwo
  <2>3. QED
    BY <2>2 DEF e
<1>7. QED
  BY <1>5, <1>6, Zenon

\* The leaves a version's root commits to: those inserted, and zero.
LEMMA VersionTree ==
  ASSUME RingInv, HashInv, NEW k \in 0 .. tree.nextIndex
  PROVE  \E L : /\ WholeTree(L, Version(tree, k))
                /\ RootAfter(tree, k) = L[TREE_DEPTH][0]
                /\ \A i \in 0 .. 2 ^ TREE_DEPTH - 1 :
                     L[0][i] = IF i < k THEN tree.log[i + 1].leaf ELSE ZERO
<1> DEFINE s == Version(tree, k)
<1>1. tree.nextIndex \in Nat /\ k \in Nat /\ 2 ^ TREE_DEPTH \in Nat
  BY PowersPositive, TreeAssumption DEF RingInv, RingOK
<1>2. Len(s) = k /\ \A i \in 1 .. k : s[i] = tree.log[i].leaf
  BY <1>1, VersionLength
<1>3. RootAfter(tree, k) = ReferenceRoot(s)
  BY DEF HashInv, HashOK
<1> HIDE DEF s
<1>4. PICK L : WholeTree(L, s) /\ ReferenceRoot(s) = L[TREE_DEPTH][0]
  BY ReferenceTree
<1>5. ASSUME NEW i \in 0 .. 2 ^ TREE_DEPTH - 1
      PROVE  L[0][i] = IF i < k THEN tree.log[i + 1].leaf ELSE ZERO
  <2>1. L[0][i] = IF i < k THEN s[i + 1] ELSE ZERO
    BY <1>2, <1>4 DEF WholeTree
  <2>2. i < k => i + 1 \in 1 .. k
    BY <1>1
  <2>3. QED
    BY <1>2, <2>1, <2>2
<1>6. QED
  BY <1>3, <1>4, <1>5 DEF s

\* Versions with the same leaves have the same root, and only those.
LEMMA RootsTellLeaves ==
  ASSUME RingInv, HashInv, NEW j \in 0 .. tree.nextIndex, NEW k \in 0 .. tree.nextIndex
  PROVE  RootAfter(tree, j) = RootAfter(tree, k) <=> SameLeaves(tree, j, k)
<1> DEFINE n == tree.nextIndex
           P == 2 ^ TREE_DEPTH
           at(v, i) == IF i < v THEN tree.log[i + 1].leaf ELSE ZERO
<1>1. n \in Nat /\ n <= P /\ P \in Nat
  BY MaxLeavesNat DEF RingInv, RingOK, HashInv, HashOK, MAX_LEAVES
<1>2. PICK L : /\ WholeTree(L, Version(tree, j))
               /\ RootAfter(tree, j) = L[TREE_DEPTH][0]
               /\ \A i \in 0 .. P - 1 : L[0][i] = at(j, i)
  BY VersionTree
<1>3. PICK M : /\ WholeTree(M, Version(tree, k))
               /\ RootAfter(tree, k) = M[TREE_DEPTH][0]
               /\ \A i \in 0 .. P - 1 : M[0][i] = at(k, i)
  BY VersionTree
<1>4. RootAfter(tree, j) = RootAfter(tree, k) <=> \A i \in 0 .. P - 1 : L[0][i] = M[0][i]
  BY <1>2, <1>3, SameRootSameLeaves, SameLeavesSameRoot
<1>5. ASSUME \A i \in 0 .. P - 1 : at(j, i) = at(k, i) PROVE SameLeaves(tree, j, k)
  <2> SUFFICES ASSUME NEW i \in 1 .. n, (j < i /\ i <= k) \/ (k < i /\ i <= j)
               PROVE  tree.log[i].leaf = ZERO
    BY DEF SameLeaves
  <2>1. i - 1 \in 0 .. P - 1 /\ (i - 1) + 1 = i
    BY <1>1
  <2>2. (i - 1 < j /\ ~(i - 1 < k)) \/ (i - 1 < k /\ ~(i - 1 < j))
    BY <1>1
  <2>3. at(j, i - 1) = at(k, i - 1)
    BY <1>5, <2>1
  <2>4. QED
    BY <2>1, <2>2, <2>3
<1>6. ASSUME SameLeaves(tree, j, k), NEW i \in 0 .. P - 1 PROVE at(j, i) = at(k, i)
  <2>1. CASE i < j <=> i < k
    BY <2>1
  <2>2. CASE ~(i < j <=> i < k)
    <3>1. i + 1 \in 1 .. n /\ ((j < i + 1 /\ i + 1 <= k) \/ (k < i + 1 /\ i + 1 <= j))
      BY <1>1, <2>2
    <3>2. tree.log[i + 1].leaf = ZERO
      BY <1>6, <3>1 DEF SameLeaves
    <3>3. QED
      BY <3>2
  <2>3. QED
    BY <2>1, <2>2
<1>7. (\A i \in 0 .. P - 1 : L[0][i] = M[0][i]) <=> (\A i \in 0 .. P - 1 : at(j, i) = at(k, i))
  BY <1>2, <1>3
<1> HIDE DEF at, P
<1>8. QED
  BY <1>4, <1>5, <1>6, <1>7

\* The root of a whole tree is a pair.
LEMMA ReferenceRootIsNoZero == ASSUME NEW leaves PROVE ReferenceRoot(leaves) # ZERO
<1> USE TreeAssumption
<1>1. PICK L : WholeTree(L, leaves) /\ ReferenceRoot(leaves) = L[TREE_DEPTH][0]
  BY ReferenceTree
<1> DEFINE l == TREE_DEPTH - 1
<1>2. l \in Levels /\ l + 1 = TREE_DEPTH /\ TREE_DEPTH - (l + 1) = 0
  BY DEF Levels
<1>3. 0 \in 0 .. 2 ^ (TREE_DEPTH - (l + 1)) - 1
  <2> DEFINE e == TREE_DEPTH - (l + 1)
  <2>1. e = 0
    BY <1>2
  <2> HIDE DEF e
  <2>2. 0 \in 0 .. 2 ^ e - 1
    BY <2>1, PowersOfTwo
  <2>3. QED
    BY <2>2 DEF e
<1> HIDE DEF l
<1>4. L[l + 1][0] = HashPair(L[l][2 * 0], L[l][2 * 0 + 1])
  <2>1. \A level \in Levels : \A k \in 0 .. 2 ^ (TREE_DEPTH - (level + 1)) - 1 :
          L[level + 1][k] = HashPair(L[level][2 * k], L[level][2 * k + 1])
    BY <1>1 DEF WholeTree
  <2>2. QED
    BY ONLY <1>2, <1>3, <2>1, Zenon
<1>5. \E left, right : L[TREE_DEPTH][0] = HashPair(left, right)
  <2>1. L[TREE_DEPTH][0] = HashPair(L[l][2 * 0], L[l][2 * 0 + 1])
    BY <1>2, <1>4
  <2>2. QED
    BY <2>1, Zenon
<1>6. \A left, right : HashPair(left, right) # ZERO
  BY DEF HashPair, ZERO
<1>7. QED
  BY <1>1, <1>5, <1>6

LEMMA IdentifyingRoots == ASSUME RingInv, HashInv PROVE RootsIdentifyLeaves
<1>1. \A k \in 0 .. tree.nextIndex : RootAfter(tree, k) # ZERO
  <2>1. \A k \in 0 .. tree.nextIndex : RootAfter(tree, k) = ReferenceRoot(Version(tree, k))
    BY DEF HashInv, HashOK
  <2>2. QED
    BY <2>1, ReferenceRootIsNoZero
<1>2. \A j, k \in 0 .. tree.nextIndex :
        RootAfter(tree, j) = RootAfter(tree, k) <=> SameLeaves(tree, j, k)
  BY RootsTellLeaves
<1>3. QED
  BY <1>1, <1>2 DEF RootsIdentifyLeaves

\* Whatever is inserted, the same leaf twice and bytes32(0) included, two versions
\* of the tree share a root exactly when nothing but zero leaves was inserted
\* between them, so the root in a withdrawal names one set of notes
\* (MerkleTreeWithHistory.sol, _insert).
THEOREM RootsNameLeaves == TreeSpec => []RootsIdentifyLeaves
<1>1. RingInv /\ HashInv => RootsIdentifyLeaves
  BY IdentifyingRoots
<1>2. QED
  BY <1>1, HashInvariant, PTL

\* isKnownRoot accepts exactly the roots of the last ROOT_HISTORY_SIZE versions:
\* a proof expires after that many insertions (later only through zero leaves)
\* and never earlier, for any depth and any size of the ring.
THEOREM KnownExactlyWhileRecent == TreeSpec => []KnownIffRecent
<1>1. RingInv /\ HashInv => KnownIffRecent
  BY IdentifyingRoots, KnownIfIdentified
<1>2. QED
  BY <1>1, HashInvariant, PTL

-------------------------------------------------------------------------------
(* The refinement of RootWindow *)

\* What the events tell is the newest version, its beginnings the earlier ones.
LEMMA LeavesAreVersions ==
  ASSUME RingInv
  PROVE  /\ tree.nextIndex \in Nat /\ Len(tree.log) = tree.nextIndex
         /\ Len(LeavesOf(tree)) = tree.nextIndex
         /\ \A k \in 0 .. tree.nextIndex : SubSeq(LeavesOf(tree), 1, k) = Version(tree, k)
<1> DEFINE n == tree.nextIndex
           s == LeavesOf(tree)
<1>1. n \in Nat /\ Len(tree.log) = n
  BY DEF RingInv, RingOK
<1>2. s = Version(tree, n)
  BY <1>1 DEF LeavesOf, Version
<1>3. Len(s) = n /\ \A i \in 1 .. n : s[i] = tree.log[i].leaf
  BY <1>1, <1>2, VersionLength
<1> HIDE DEF s
<1>4. ASSUME NEW k \in 0 .. n PROVE SubSeq(s, 1, k) = Version(tree, k)
  <2>1. SubSeq(s, 1, k) = [i \in 1 .. k |-> s[i]]
    BY <1>1, <1>3
  <2>2. \A i \in 1 .. k : s[i] = tree.log[i].leaf
    BY <1>1, <1>3
  <2>3. QED
    BY <2>1, <2>2 DEF Version
<1>5. QED
  BY <1>1, <1>3, <1>4 DEF s

\* The versions whose root is accepted are the last ones.
WindowFollows == KnownVersions(tree) = Abstract!LastVersions(LeavesOf(tree))

LEMMA WindowIsRecent == RingInv /\ HashInv => WindowFollows
<1> SUFFICES ASSUME RingInv, HashInv
             PROVE  KnownVersions(tree) = Abstract!LastVersions(LeavesOf(tree))
  BY DEF WindowFollows
<1> DEFINE n == tree.nextIndex
           s == LeavesOf(tree)
           filled(k) == [i \in 1 .. MAX_LEAVES |-> IF i <= k THEN tree.log[i].leaf ELSE ZERO]
           known == { k \in 0 .. n : IsKnownRoot(tree, ReferenceRoot(SubSeq(s, 1, k))) }
           recent == { k \in 0 .. n : k > n - ROOT_HISTORY_SIZE }
<1>1. /\ n \in Nat /\ Len(tree.log) = n /\ Len(s) = n
      /\ \A k \in 0 .. n : SubSeq(s, 1, k) = Version(tree, k)
      /\ \A i \in 1 .. n : s[i] = tree.log[i].leaf
  BY LeavesAreVersions DEF LeavesOf
<1>2. KnownVersions(tree) = { filled(k) : k \in known }
  BY <1>1 DEF KnownVersions
<1>3. Abstract!LastVersions(s) = { filled(k) : k \in recent }
  <2>1. ASSUME NEW k \in 0 .. n PROVE Abstract!Version(s, k) = filled(k)
    <3>1. MAX_LEAVES \in Nat
      BY MaxLeavesNat
    <3>2. \A i \in 1 .. MAX_LEAVES : i <= k => i \in 1 .. n
      BY <1>1, <3>1
    <3>3. \A i \in 1 .. MAX_LEAVES : (IF i <= k THEN s[i] ELSE ZERO)
                                       = (IF i <= k THEN tree.log[i].leaf ELSE ZERO)
      BY <1>1, <3>2
    <3>4. QED
      BY <3>3 DEF Abstract!Version
  <2>2. Abstract!LastVersions(s) = { Abstract!Version(s, k) : k \in recent }
    BY <1>1 DEF Abstract!LastVersions
  <2> HIDE DEF s, filled
  <2>3. \A k \in recent : Abstract!Version(s, k) = filled(k)
    BY <2>1
  <2> HIDE DEF recent
  <2>4. QED
    BY <2>2, <2>3
<1>4. KnownIffRecent
  BY IdentifyingRoots, KnownIfIdentified
<1>5. ASSUME NEW k \in 0 .. n
      PROVE  k \in known <=> \E j \in recent : SameLeaves(tree, j, k)
  <2>1. ReferenceRoot(SubSeq(s, 1, k)) = RootAfter(tree, k)
    BY <1>1 DEF HashInv, HashOK
  <2>2. IsKnownRoot(tree, RootAfter(tree, k)) <=> \E j \in RecentVersions(tree) : SameLeaves(tree, j, k)
    BY <1>4 DEF KnownIffRecent
  <2>3. QED
    BY <2>1, <2>2 DEF RecentVersions
<1>6. ASSUME NEW j \in 0 .. n, NEW k \in 0 .. n, SameLeaves(tree, j, k) PROVE filled(j) = filled(k)
  <2>1. n <= MAX_LEAVES /\ MAX_LEAVES \in Nat
    BY MaxLeavesNat DEF HashInv, HashOK
  <2>2. ASSUME NEW i \in 1 .. MAX_LEAVES
        PROVE  (IF i <= j THEN tree.log[i].leaf ELSE ZERO) = (IF i <= k THEN tree.log[i].leaf ELSE ZERO)
    <3>1. CASE i <= j <=> i <= k
      BY <3>1
    <3>2. CASE ~(i <= j <=> i <= k)
      <4>1. i \in 1 .. n /\ ((j < i /\ i <= k) \/ (k < i /\ i <= j))
        BY <1>1, <2>1, <3>2
      <4>2. tree.log[i].leaf = ZERO
        BY <1>6, <4>1 DEF SameLeaves
      <4>3. QED
        BY <4>2
    <3>3. QED
      BY <3>1, <3>2
  <2>3. QED
    BY <2>2
<1>7. \A k \in 0 .. n : SameLeaves(tree, k, k)
  BY <1>1 DEF SameLeaves
<1>8. known \subseteq 0 .. n /\ recent \subseteq 0 .. n
  OBVIOUS
<1> HIDE DEF known, recent, filled, n
<1>9. \A k \in known : \E j \in recent : filled(k) = filled(j)
  BY <1>5, <1>6, <1>8
<1>10. recent \subseteq known
  BY <1>5, <1>7, <1>8
<1>11. { filled(k) : k \in known } = { filled(k) : k \in recent }
  BY <1>9, <1>10
<1>12. QED
  BY <1>2, <1>3, <1>11

\* An insertion appends to the leaves the events tell.
LEMMA LeavesAppended ==
  ASSUME RingInv, RingInv', NEW leaf, tree' = Inserted(tree, leaf)
  PROVE  LeavesOf(tree)' = Append(LeavesOf(tree), leaf)
<1> DEFINE n == tree.nextIndex
           event == [leaf |-> leaf, leafIndex |-> n,
                     newRoot |-> PathHashes(leaf, n, tree.filledSubtrees)[TREE_DEPTH]]
           s == LeavesOf(tree)
<1>1. n \in Nat /\ Len(tree.log) = n
  BY DEF RingInv, RingOK
<1>2. tree'.log = Append(tree.log, event)
  BY DEF Inserted
<1>3. PICK S : tree.log \in Seq(S)
  BY DEF RingInv, RingOK
<1>4. event.leaf = leaf
  OBVIOUS
<1> HIDE DEF event
<1>5. /\ Len(tree'.log) = n + 1
      /\ \A i \in 1 .. n : tree'.log[i] = tree.log[i]
      /\ tree'.log[n + 1] = event
  <2>1. tree.log \in Seq(S \cup {event}) /\ event \in S \cup {event}
    BY <1>3
  <2>2. QED
    BY <1>1, <1>2, <2>1
<1>6. LeavesOf(tree)' = [i \in 1 .. n + 1 |-> tree'.log[i].leaf]
  BY <1>5 DEF LeavesOf
<1>7. s = [i \in 1 .. n |-> tree.log[i].leaf]
  BY <1>1 DEF LeavesOf
<1>8. Len(s) = n
  BY LeavesAreVersions
<1>9. Append(s, leaf) = [i \in 1 .. n + 1 |-> IF i = n + 1 THEN leaf ELSE s[i]]
  <2>1. s \in Seq({ tree.log[i].leaf : i \in 1 .. n } \cup {leaf})
    BY <1>1, <1>7
  <2> DEFINE R == { tree.log[i].leaf : i \in 1 .. n } \cup {leaf}
  <2>2. s \in Seq(R) /\ leaf \in R
    BY <2>1
  <2> DEFINE a == Append(s, leaf)
  <2> HIDE DEF s, R
  <2>3. a \in Seq(R) /\ Len(a) = n + 1
    BY <1>1, <1>8, <2>2
  <2>4. (\A i \in 1 .. n : a[i] = s[i]) /\ a[n + 1] = leaf
    BY <1>1, <1>8, <2>2
  <2> HIDE DEF a
  <2>5. a = [i \in 1 .. n + 1 |-> a[i]]
    BY <2>3
  <2>6. \A i \in 1 .. n + 1 : a[i] = IF i = n + 1 THEN leaf ELSE s[i]
    BY <1>1, <2>4
  <2>7. a = [i \in 1 .. n + 1 |-> IF i = n + 1 THEN leaf ELSE s[i]]
    BY <2>5, <2>6
  <2>8. QED
    BY <2>7 DEF a
<1>10. \A i \in 1 .. n + 1 : tree'.log[i].leaf = IF i = n + 1 THEN leaf ELSE s[i]
  <2>1. \A i \in 1 .. n : tree'.log[i].leaf = s[i]
    BY <1>5, <1>7
  <2>2. tree'.log[n + 1].leaf = leaf
    BY <1>4, <1>5
  <2> HIDE DEF s
  <2>3. \A i \in 1 .. n + 1 : i \in 1 .. n \/ i = n + 1
    BY <1>1
  <2>4. n + 1 \notin 1 .. n
    BY <1>1
  <2>5. QED
    BY <2>1, <2>2, <2>3, <2>4
<1> HIDE DEF s
<1>11. QED
  BY <1>6, <1>9, <1>10 DEF s

\* The storage of one hash a level and a ring of roots is, to a caller, a growing
\* sequence of leaves and the window of its last versions: every insertion is a
\* step of RootWindow (MerkleTreeWithHistory.sol, _insert and isKnownRoot).
THEOREM TreeImplementsRootWindow == TreeSpec => ImplementsRootWindow
<1>1. TreeInit => Abstract!WInit
  <2> SUFFICES ASSUME TreeInit PROVE Abstract!WInit
    OBVIOUS
  <2>1. RingInv /\ HashInv
    BY RingOKEmpty, HashOKEmpty DEF TreeInit, RingInv, HashInv
  <2>2. KnownVersions(tree) = Abstract!LastVersions(LeavesOf(tree))
    BY <2>1, WindowIsRecent DEF WindowFollows
  <2>3. LeavesOf(tree) = << >>
    <3>1. tree.log = << >>
      BY DEF TreeInit, EmptyTree
    <3>2. QED
      BY <3>1 DEF LeavesOf
  <2>4. QED
    BY <2>2, <2>3 DEF Abstract!WInit
<1>2. RingInv' /\ HashInv' => WindowFollows'
  BY WindowIsRecent, PTL
<1>3. ASSUME RingInv, RingInv', HashInv', [TreeNext]_tree
      PROVE  [Abstract!WNext]_(Abstract!wvars)
  <2>1. CASE TreeNext
    <3>1. PICK leaf \in Leaves : HasRoom(tree, 1) /\ tree' = Inserted(tree, leaf)
      BY <2>1 DEF TreeNext, Insert
    <3>2. LeavesOf(tree)' = Append(LeavesOf(tree), leaf)
      BY <1>3, <3>1, LeavesAppended
    <3>3. Len(LeavesOf(tree)) < MAX_LEAVES
      <4>1. MAX_LEAVES \in Nat
        BY PowersPositive, TreeAssumption DEF MAX_LEAVES
      <4>2. tree.nextIndex \in Nat /\ Len(LeavesOf(tree)) = tree.nextIndex
        BY <1>3, LeavesAreVersions
      <4>3. QED
        BY <3>1, <4>1, <4>2 DEF HasRoom
    <3>4. KnownVersions(tree)' = Abstract!LastVersions(LeavesOf(tree)')
      <4>1. KnownVersions(tree)' = Abstract!LastVersions(LeavesOf(tree))'
        BY <1>2, <1>3 DEF WindowFollows
      <4>2. QED
        BY <4>1 DEF Abstract!LastVersions
    <3>5. Abstract!WInsert(leaf)
      BY <3>2, <3>3, <3>4 DEF Abstract!WInsert
    <3>6. QED
      BY <3>5 DEF Abstract!WNext
  <2>2. CASE UNCHANGED tree
    BY <2>2 DEF Abstract!wvars, LeavesOf, KnownVersions, IsKnownRoot, SlotBack
  <2>3. QED
    BY <1>3, <2>1, <2>2
<1>4. QED
  BY <1>1, <1>3, HashInvariant, PTL DEF TreeSpec, ImplementsRootWindow, Abstract!WSpec

-------------------------------------------------------------------------------
(* deplob-core's copy *)

\* The fold of TreeOf.
Rebuilding == INSTANCE LeftFolds WITH Op <- TreeInsert

-------------------------------------------------------------------------------
(* The insertion of deplob-core *)

\* One round of the loop of insert, on one level.
Round(before, level) ==
  IF before.index % 2 = 0
  THEN [hash   |-> HashPair(before.hash, Zeros[level]),
        index  |-> before.index \div 2,
        filled |-> [before.filled EXCEPT ![level] = before.hash]]
  ELSE [hash   |-> HashPair(before.filled[level], before.hash),
        index  |-> before.index \div 2,
        filled |-> before.filled]

Rounds(after, leaf, index, filled) ==
  /\ InsertLoop(leaf, index, filled) = after[TREE_DEPTH]
  /\ after[0] = [hash |-> leaf, index |-> index, filled |-> filled]
  /\ \A level \in Levels : after[level + 1] = Round(after[level], level)

\* The loop of insert, one level after the other.
LEMMA LoopSteps == \A leaf, index, filled : \E after : Rounds(after, leaf, index, filled)
<1> SUFFICES ASSUME NEW leaf, NEW index, NEW filled PROVE \E after : Rounds(after, leaf, index, filled)
  OBVIOUS
<1> USE TreeAssumption
<1> DEFINE base == [hash |-> leaf, index |-> index, filled |-> filled]
           Step(before, l) == Round(before, l)
           Next(h) == [level \in 0 .. TREE_DEPTH |->
                         IF level = 0 THEN base ELSE Step(h[level - 1], level - 1)]
           T == { n \in Nat : \E h : \A level \in 0 .. TREE_DEPTH : level <= n => h[level] = Next(h)[level] }
<1>1. 0 \in T
  <2> DEFINE h == [level \in 0 .. TREE_DEPTH |-> base]
  <2>1. ASSUME NEW level \in 0 .. TREE_DEPTH, level <= 0 PROVE h[level] = Next(h)[level]
    <3>1. level = 0
      BY <2>1
    <3> HIDE DEF base, Step
    <3>2. QED
      BY <3>1
  <2> HIDE DEF h, Next
  <2>2. QED
    BY <2>1
<1>2. ASSUME NEW n \in Nat, n \in T PROVE n + 1 \in T
  <2>1. PICK h : \A level \in 0 .. TREE_DEPTH : level <= n => h[level] = Next(h)[level]
    BY <1>2
  <2> DEFINE g == Next(h)
  <2>2. ASSUME NEW level \in 0 .. TREE_DEPTH, level <= n + 1 PROVE g[level] = Next(g)[level]
    <3> HIDE DEF base, Step
    <3>1. CASE level = 0
      BY <3>1
    <3>2. CASE level # 0
      <4>1. level - 1 \in 0 .. TREE_DEPTH /\ level - 1 <= n
        BY <2>2, <3>2
      <4>2. h[level - 1] = g[level - 1]
        BY <2>1, <4>1
      <4>3. QED
        BY <3>2, <4>2
    <3>3. QED
      BY <3>1, <3>2
  <2> HIDE DEF g, Next
  <2>3. QED
    BY <2>2
<1>3. TREE_DEPTH \in T
  <2> HIDE DEF T
  <2>1. Nat \subseteq T
    BY <1>1, <1>2, SetInduction
  <2>2. QED
    BY <2>1
<1>4. PICK h : \A level \in 0 .. TREE_DEPTH : level <= TREE_DEPTH => h[level] = Next(h)[level]
  BY <1>3
<1>5. \E g : g = Next(g)
  <2> DEFINE g == [level \in 0 .. TREE_DEPTH |-> h[level]]
  <2>1. ASSUME NEW level \in 0 .. TREE_DEPTH PROVE g[level] = Next(g)[level]
    <3>1. level <= TREE_DEPTH
      OBVIOUS
    <3>2. h[level] = Next(h)[level]
      <4> HIDE DEF Next
      <4>1. QED
        BY <1>4, <3>1
    <3> HIDE DEF base, Step
    <3>3. CASE level = 0
      BY <3>2, <3>3
    <3>4. CASE level # 0
      <4>1. level - 1 \in 0 .. TREE_DEPTH
        BY <3>4
      <4>2. g[level - 1] = h[level - 1]
        BY <4>1
      <4>3. QED
        BY <3>2, <3>4, <4>2
    <3>5. QED
      BY <3>3, <3>4
  <2>2. Next(g) = [level \in 0 .. TREE_DEPTH |-> Next(g)[level]]
    OBVIOUS
  <2> HIDE DEF Next
  <2>3. g = Next(g)
    BY <2>1, <2>2
  <2> HIDE DEF g
  <2>4. QED
    BY <2>3
<1> DEFINE after == CHOOSE g : g = Next(g)
<1>6. after = Next(after)
  <2> HIDE DEF Next
  <2>1. QED
    BY <1>5
<1>7. InsertLoop(leaf, index, filled) = after[TREE_DEPTH]
  BY DEF InsertLoop, Round
<1> HIDE DEF after
<1>8. ASSUME NEW level \in 0 .. TREE_DEPTH
      PROVE  after[level] = IF level = 0 THEN base ELSE Step(after[level - 1], level - 1)
  <2> HIDE DEF base, Step
  <2>1. after[level] = Next(after)[level]
    <3> HIDE DEF Next
    <3>1. QED
      BY <1>6
  <2>2. QED
    BY <2>1
<1>9. after[0] = base
  <2> HIDE DEF base, Step
  <2>1. 0 \in 0 .. TREE_DEPTH
    OBVIOUS
  <2>2. QED
    BY <1>8, <2>1
<1>10. ASSUME NEW level \in Levels PROVE after[level + 1] = Step(after[level], level)
  <2> HIDE DEF base, Step
  <2>1. level + 1 \in 0 .. TREE_DEPTH /\ level + 1 # 0 /\ (level + 1) - 1 = level
    BY DEF Levels
  <2>2. QED
    BY <1>8, <2>1
<1>11. Rounds(after, leaf, index, filled)
  BY <1>7, <1>9, <1>10 DEF Rounds
<1>12. QED
  BY <1>11

\* The library's insertion walks up as the contract's: the same root, the same
\* hashes cached (merkle.rs, insert; MerkleTreeWithHistory.sol, _insert).
LEMMA LoopIsPath ==
  ASSUME NEW leaf, NEW index \in Nat, NEW filled, filled = [level \in Levels |-> filled[level]],
         NEW path, path = PathHashes(leaf, index, filled)
  PROVE  /\ InsertLoop(leaf, index, filled).hash = path[TREE_DEPTH]
         /\ InsertLoop(leaf, index, filled).filled = StoreLeft(filled, index, path)
<1> USE TreeAssumption
<1> DEFINE Stored(l) == [k \in Levels |-> IF k < l /\ IsLeftChild(index, k) THEN path[k] ELSE filled[k]]
<1>0. PICK after : Rounds(after, leaf, index, filled)
  BY ONLY LoopSteps, Zenon
<1>1. /\ InsertLoop(leaf, index, filled) = after[TREE_DEPTH]
      /\ after[0] = [hash |-> leaf, index |-> index, filled |-> filled]
      /\ \A level \in Levels :
           after[level + 1] =
             IF after[level].index % 2 = 0
             THEN [hash   |-> HashPair(after[level].hash, Zeros[level]),
                   index  |-> after[level].index \div 2,
                   filled |-> [after[level].filled EXCEPT ![level] = after[level].hash]]
             ELSE [hash   |-> HashPair(after[level].filled[level], after[level].hash),
                   index  |-> after[level].index \div 2,
                   filled |-> after[level].filled]
  BY <1>0 DEF Rounds, Round
<1>2. /\ path[0] = leaf
      /\ \A level \in Levels :
           path[level + 1] = IF IsLeftChild(index, level)
                             THEN HashPair(path[level], Zeros[level])
                             ELSE HashPair(filled[level], path[level])
  BY PathSteps
<1>3. /\ Ancestor(index, 0) = index
      /\ \A level \in Levels : Ancestor(index, level + 1) = Ancestor(index, level) \div 2
  <2>1. Ancestor(index, 0) = index
    BY PowersOfTwo DEF Ancestor
  <2>2. ASSUME NEW level \in Levels PROVE Ancestor(index, level + 1) = Ancestor(index, level) \div 2
    <3>1. 2 ^ level \in Nat \ {0} /\ 2 ^ (level + 1) = 2 * 2 ^ level
      BY PowersPositive, PowersOfTwo DEF Levels
    <3>2. index \div (2 * 2 ^ level) = (index \div 2 ^ level) \div 2
      BY <3>1, HalvedQuotient
    <3>3. QED
      BY <3>1, <3>2 DEF Ancestor
  <2>3. QED
    BY <2>1, <2>2
<1> DEFINE Good(l) == /\ after[l].hash = path[l]
                      /\ after[l].index = Ancestor(index, l)
                      /\ after[l].filled = Stored(l)
           T == { l \in Nat : l <= TREE_DEPTH => Good(l) }
<1>4. 0 \in T
  <2>1. Stored(0) = filled
    <3>1. \A k \in Levels : ~(k < 0)
      BY DEF Levels
    <3>2. Stored(0) = [k \in Levels |-> filled[k]]
      BY <3>1
    <3> HIDE DEF Stored
    <3>3. QED
      BY <3>2
  <2> HIDE DEF Stored
  <2>2. Good(0)
    BY <1>1, <1>2, <1>3, <2>1
  <2>3. QED
    BY <2>2
<1>5. ASSUME NEW l \in Nat, l \in T PROVE l + 1 \in T
  <2>1. SUFFICES ASSUME l + 1 <= TREE_DEPTH PROVE Good(l + 1)
    OBVIOUS
  <2>2. l \in Levels
    BY <2>1 DEF Levels
  <2>3. Good(l)
    BY <1>5, <2>1
  <2>4. IsLeftChild(index, l) <=> after[l].index % 2 = 0
    BY <2>3 DEF IsLeftChild, Ancestor
  <2>5. after[l + 1] =
          IF after[l].index % 2 = 0
          THEN [hash   |-> HashPair(after[l].hash, Zeros[l]),
                index  |-> after[l].index \div 2,
                filled |-> [after[l].filled EXCEPT ![l] = after[l].hash]]
          ELSE [hash   |-> HashPair(after[l].filled[l], after[l].hash),
                index  |-> after[l].index \div 2,
                filled |-> after[l].filled]
    BY <1>1, <2>2
  <2>6. after[l + 1].index = Ancestor(index, l + 1)
    <3>1. after[l + 1].index = after[l].index \div 2
      BY <2>5
    <3>2. QED
      BY <1>3, <2>2, <2>3, <3>1
  <2>7. Stored(l)[l] = filled[l]
    BY <2>2 DEF Levels
  <2>8. CASE IsLeftChild(index, l)
    <3>1. after[l + 1].hash = HashPair(after[l].hash, Zeros[l])
      BY <2>4, <2>5, <2>8
    <3>2. after[l + 1].filled = [after[l].filled EXCEPT ![l] = after[l].hash]
      BY <2>4, <2>5, <2>8
    <3>3. after[l + 1].hash = path[l + 1]
      BY <1>2, <2>2, <2>3, <2>8, <3>1
    <3>4. Stored(l + 1) = [Stored(l) EXCEPT ![l] = path[l]]
      <4>1. \A k \in Levels : k < l + 1 <=> (k < l \/ k = l)
        BY DEF Levels
      <4>2. [Stored(l) EXCEPT ![l] = path[l]]
              = [k \in Levels |-> IF k = l THEN path[l] ELSE Stored(l)[k]]
        OBVIOUS
      <4>3. ASSUME NEW k \in Levels
            PROVE  (IF k = l THEN path[l] ELSE Stored(l)[k]) =
                     IF k < l + 1 /\ IsLeftChild(index, k) THEN path[k] ELSE filled[k]
        BY <2>8, <4>1
      <4>4. Stored(l + 1) = [k \in Levels |-> IF k = l THEN path[l] ELSE Stored(l)[k]]
        <5>1. [k \in Levels |-> IF k = l THEN path[l] ELSE Stored(l)[k]]
                = [k \in Levels |-> IF k < l + 1 /\ IsLeftChild(index, k) THEN path[k] ELSE filled[k]]
          BY <4>3, Zenon
        <5>2. QED
          BY <5>1
      <4>5. QED
        BY <4>2, <4>4
    <3>5. QED
      <4> HIDE DEF Stored
      <4>1. after[l + 1].filled = Stored(l + 1)
        BY <2>3, <3>2, <3>4
      <4>2. QED
        BY <2>6, <3>3, <4>1
  <2>9. CASE ~IsLeftChild(index, l)
    <3>1. after[l + 1].hash = HashPair(after[l].filled[l], after[l].hash)
      BY <2>4, <2>5, <2>9
    <3>2. after[l + 1].filled = after[l].filled
      BY <2>4, <2>5, <2>9
    <3>3. after[l + 1].hash = path[l + 1]
      <4> HIDE DEF Stored
      <4>1. QED
        BY <1>2, <2>2, <2>3, <2>7, <2>9, <3>1
    <3>4. Stored(l + 1) = Stored(l)
      <4>1. \A k \in Levels : k < l + 1 <=> (k < l \/ k = l)
        BY DEF Levels
      <4>2. ASSUME NEW k \in Levels
            PROVE  k < l + 1 /\ IsLeftChild(index, k) <=> k < l /\ IsLeftChild(index, k)
        BY <2>9, <4>1
      <4>3. QED
        BY <4>2
    <3>5. QED
      <4> HIDE DEF Stored
      <4>1. after[l + 1].filled = Stored(l + 1)
        BY <2>3, <3>2, <3>4
      <4>2. QED
        BY <2>6, <3>3, <4>1
  <2>10. QED
    BY <2>8, <2>9
<1>6. Good(TREE_DEPTH)
  <2> HIDE DEF Good
  <2>1. Nat \subseteq T
    <3> HIDE DEF T
    <3>1. QED
      BY <1>4, <1>5, SetInduction
  <2>2. QED
    BY <2>1
<1>7. Stored(TREE_DEPTH) = StoreLeft(filled, index, path)
  <2>1. \A k \in Levels : k < TREE_DEPTH
    BY DEF Levels
  <2>2. \A k \in Levels : k < TREE_DEPTH /\ IsLeftChild(index, k) <=> IsLeftChild(index, k)
    BY <2>1
  <2>3. Stored(TREE_DEPTH) = [k \in Levels |-> IF IsLeftChild(index, k) THEN path[k] ELSE filled[k]]
    BY <2>2
  <2>4. QED
    BY <2>3 DEF StoreLeft
<1> HIDE DEF Stored
<1>8. QED
  BY <1>1, <1>6, <1>7

\* What a copy over some leaves is: the whole tree's root, with the cache that
\* the contract has with as many leaves.
CopyOK(t, leaves) ==
  /\ t.leaves = leaves
  /\ t.filledSubtrees = [level \in Levels |-> t.filledSubtrees[level]]
  /\ t.root = ReferenceRoot(leaves)
  /\ \A L : WholeTree(L, leaves) => CacheOK(t.filledSubtrees, L, Len(leaves))

\* MerkleTree::new.
LEMMA CopyOfNone == CopyOK(NewTree, << >>)
<1> USE TreeAssumption
<1> DEFINE t == EmptyTree
<1>1. t.nextIndex = 0 /\ t.filledSubtrees = NewTree.filledSubtrees
  BY DEF EmptyTree, NewTree
<1>2. Version(t, 0) = << >>
  BY DEF Version
<1>3. HashOK(t)
  BY HashOKEmpty
<1> HIDE DEF t
<1>4. RootAfter(t, 0) = ReferenceRoot(<< >>)
  BY <1>1, <1>2, <1>3 DEF HashOK
<1>5. RootAfter(t, 0) = Zeros[TREE_DEPTH]
  BY DEF RootAfter
<1>6. NewTree.root = Zeros[TREE_DEPTH]
  <2>1. TREE_DEPTH - 1 \in Levels /\ (TREE_DEPTH - 1) + 1 = TREE_DEPTH
    BY DEF Levels
  <2>2. Zeros[(TREE_DEPTH - 1) + 1] = HashPair(Zeros[TREE_DEPTH - 1], Zeros[TREE_DEPTH - 1])
    BY ONLY <2>1, ZerosSteps
  <2>3. QED
    BY <2>1, <2>2 DEF NewTree
<1>7. \A L : WholeTree(L, << >>) => CacheOK(NewTree.filledSubtrees, L, 0)
  BY <1>1, <1>2, <1>3 DEF HashOK
<1>8. Len(<< >>) = 0 /\ NewTree.leaves = << >>
  BY DEF NewTree
<1>9. NewTree.filledSubtrees = [level \in Levels |-> NewTree.filledSubtrees[level]]
  BY DEF NewTree
<1>10. QED
  BY <1>4, <1>5, <1>6, <1>7, <1>8, <1>9 DEF CopyOK

\* MerkleTree::insert.
LEMMA CopyGrown ==
  ASSUME NEW S, NEW leaves \in Seq(S), NEW leaf \in S, NEW t, CopyOK(t, leaves),
         Len(leaves) < MAX_LEAVES
  PROVE  CopyOK(TreeInsert(t, leaf), Append(leaves, leaf))
<1> USE TreeAssumption
<1> DEFINE n == Len(leaves)
           more == Append(leaves, leaf)
           filled == t.filledSubtrees
           path == PathHashes(leaf, n, filled)
           end == InsertLoop(leaf, n, filled)
           u == TreeInsert(t, leaf)
<1>1. n \in Nat /\ MAX_LEAVES \in Nat /\ n \in 0 .. MAX_LEAVES - 1
  BY MaxLeavesNat
<1>2. /\ Len(more) = n + 1 /\ more[n + 1] = leaf
      /\ \A i \in 1 .. n : more[i] = leaves[i]
  OBVIOUS
<1>3. t.leaves = leaves /\ filled = [level \in Levels |-> filled[level]]
  BY DEF CopyOK
<1>4. u.leaves = more /\ u.filledSubtrees = end.filled /\ u.root = end.hash
  BY <1>3 DEF TreeInsert
<1> HIDE DEF u, more
<1>5. end.hash = path[TREE_DEPTH] /\ end.filled = StoreLeft(filled, n, path)
  <2> DEFINE m == n
             f == filled
  <2>1. m \in Nat /\ f = [level \in Levels |-> f[level]]
    BY <1>1, <1>3
  <2> HIDE DEF m, f
  <2> DEFINE p == PathHashes(leaf, m, f)
  <2>2. p = PathHashes(leaf, m, f)
    OBVIOUS
  <2> HIDE DEF p
  <2>3. InsertLoop(leaf, m, f).hash = p[TREE_DEPTH] /\ InsertLoop(leaf, m, f).filled = StoreLeft(f, m, p)
    BY ONLY <2>1, <2>2, LoopIsPath
  <2>4. QED
    BY <2>3 DEF m, f, p
<1> HIDE DEF end
<1>6. PICK L : WholeTree(L, leaves)
  BY ReferenceTree
<1>7. ASSUME NEW M, WholeTree(M, more)
      PROVE  Grown(L, leaves, M, more, n, leaf) /\ CacheOK(filled, L, n)
  BY <1>1, <1>2, <1>6, <1>7 DEF Grown, CopyOK
<1>8. u.root = ReferenceRoot(more)
  <2>1. PICK M : WholeTree(M, more) /\ ReferenceRoot(more) = M[TREE_DEPTH][0]
    BY ReferenceTree
  <2>2. Grown(L, leaves, M, more, n, leaf) /\ CacheOK(filled, L, n)
    BY <1>7, <2>1
  <2>3. path[TREE_DEPTH] = M[TREE_DEPTH][Ancestor(n, TREE_DEPTH)]
    <3>1. path = PathHashes(leaf, n, filled)
      OBVIOUS
    <3> HIDE DEF path, n, filled
    <3>2. \A level \in 0 .. TREE_DEPTH : path[level] = M[level][Ancestor(n, level)]
      BY ONLY <2>2, <3>1, PathIsInTree
    <3>3. QED
      BY <3>2
  <2>4. Ancestor(n, TREE_DEPTH) = 0
    BY <1>1, TopAncestor
  <2>5. QED
    BY <1>4, <1>5, <2>1, <2>3, <2>4
<1>9. ASSUME NEW M, WholeTree(M, more) PROVE CacheOK(u.filledSubtrees, M, n + 1)
  <2>1. Grown(L, leaves, M, more, n, leaf) /\ CacheOK(filled, L, n)
    BY <1>7, <1>9
  <2> HIDE DEF n, filled
  <2>2. CacheOK(StoreLeft(filled, n, PathHashes(leaf, n, filled)), M, n + 1)
    BY <2>1, CacheKept
  <2>3. QED
    BY <1>4, <1>5, <2>2
<1>10. u.filledSubtrees = [level \in Levels |-> u.filledSubtrees[level]]
  BY <1>4, <1>5 DEF StoreLeft
<1>11. CopyOK(u, more)
  BY <1>2, <1>4, <1>8, <1>9, <1>10 DEF CopyOK
<1>12. QED
  BY <1>11 DEF u, more

LEMMA TreeOfIsFolded == \A leaves : TreeOf(leaves) = Rebuilding!Folded(NewTree, leaves)
BY DEF TreeOf, FoldLeft, MapThenFoldSet, Max,
       Rebuilding!Folded, Rebuilding!FoldLeft, Rebuilding!MapThenFoldSet, Rebuilding!Max

\* A copy rebuilt from leaves, as many as fit, is the whole tree over them.
LEMMA CopyRebuilt ==
  ASSUME NEW S, NEW leaves \in Seq(S), Len(leaves) <= MAX_LEAVES
  PROVE  CopyOK(TreeOf(leaves), leaves)
<1> DEFINE Prefix(k) == [i \in 1 .. k |-> leaves[i]]
           T == { k \in Nat : k <= Len(leaves) => CopyOK(TreeOf(Prefix(k)), Prefix(k)) }
<1>1. \A k \in 0 .. Len(leaves) :
        /\ Prefix(k) \in Seq(S) /\ Len(Prefix(k)) = k /\ DOMAIN Prefix(k) = 1 .. k
        /\ \A i \in 1 .. k : Prefix(k)[i] = leaves[i]
  <2> SUFFICES ASSUME NEW k \in 0 .. Len(leaves)
               PROVE  /\ Prefix(k) \in Seq(S) /\ Len(Prefix(k)) = k /\ DOMAIN Prefix(k) = 1 .. k
                      /\ \A i \in 1 .. k : Prefix(k)[i] = leaves[i]
    OBVIOUS
  <2>1. Prefix(k) \in [1 .. k -> S]
    OBVIOUS
  <2>2. QED
    BY <2>1
<1>2. 0 \in T
  <2>1. Prefix(0) = << >>
    BY <1>1
  <2>2. TreeOf(<< >>) = NewTree
    <3>1. DOMAIN << >> = {}
      OBVIOUS
    <3>2. Rebuilding!Folded(NewTree, << >>) = NewTree
      BY <3>1, Rebuilding!FoldOfEmpty
    <3>3. QED
      BY <3>2, TreeOfIsFolded
  <2>3. QED
    BY <2>1, <2>2, CopyOfNone
<1>3. ASSUME NEW k \in Nat, k \in T PROVE k + 1 \in T
  <2>1. SUFFICES ASSUME k + 1 <= Len(leaves)
                 PROVE  CopyOK(TreeOf(Prefix(k + 1)), Prefix(k + 1))
    OBVIOUS
  <2> DEFINE before == Prefix(k)
             after == Prefix(k + 1)
             leaf == leaves[k + 1]
  <2>2. k \in 0 .. Len(leaves) /\ k + 1 \in 0 .. Len(leaves) /\ k + 1 \in 1 .. Len(leaves)
    BY <2>1
  <2>3. /\ before \in Seq(S) /\ Len(before) = k /\ DOMAIN before = 1 .. k
        /\ after \in Seq(S) /\ Len(after) = k + 1 /\ DOMAIN after = 1 .. k + 1
        /\ \A i \in 1 .. k : after[i] = before[i]
        /\ after[k + 1] = leaf /\ leaf \in S
    BY <1>1, <2>2
  <2>4. CopyOK(TreeOf(before), before)
    BY <1>3, <2>2
  <2> HIDE DEF before, after, leaf
  <2>5. after = Append(before, leaf)
    BY <2>3
  <2>6. TreeOf(after) = TreeInsert(TreeOf(before), leaf)
    <3>1. Rebuilding!Folded(NewTree, after) = TreeInsert(Rebuilding!Folded(NewTree, before), after[k + 1])
      BY <2>3, Rebuilding!FoldOfLonger
    <3>2. QED
      BY <2>3, <3>1, TreeOfIsFolded
  <2>7. Len(before) < MAX_LEAVES
    BY <2>2, <2>3, MaxLeavesNat
  <2>8. CopyOK(TreeInsert(TreeOf(before), leaf), Append(before, leaf))
    BY ONLY <2>3, <2>4, <2>7, CopyGrown
  <2>9. QED
    BY <2>5, <2>6, <2>8 DEF after
<1>4. Len(leaves) \in T
  <2> HIDE DEF T
  <2>1. Nat \subseteq T
    BY <1>2, <1>3, SetInduction
  <2>2. QED
    BY <2>1
<1>5. Prefix(Len(leaves)) = leaves
  BY <1>1
<1>6. QED
  BY <1>4, <1>5

\* A copy rebuilt from the events of any reachable tree is that tree.
LEMMA CopyOfTree ==
  ASSUME RingInv, HashInv
  PROVE  /\ CopyOK(Copy, LeavesOf(tree))
         /\ Copy.leaves = LeavesOf(tree)
         /\ LeavesOf(tree) \in Seq(Leaves)
         /\ Len(LeavesOf(tree)) = tree.nextIndex /\ tree.nextIndex <= MAX_LEAVES
         /\ Copy.root = ReferenceRoot(LeavesOf(tree))
         /\ GetLastRoot(tree) = ReferenceRoot(LeavesOf(tree))
<1> DEFINE leaves == LeavesOf(tree)
           n == tree.nextIndex
<1>1. n \in Nat /\ Len(tree.log) = n
  BY DEF RingInv, RingOK
<1>2. n <= MAX_LEAVES /\ \A i \in 1 .. n : tree.log[i].leaf \in Leaves
  BY DEF HashInv, HashOK
<1>3. leaves \in [1 .. n -> Leaves]
  BY <1>1, <1>2 DEF LeavesOf
<1>4. leaves \in Seq(Leaves) /\ Len(leaves) = n
  BY <1>1, <1>3
<1>5. leaves = Version(tree, n)
  BY <1>1 DEF LeavesOf, Version
<1>6. GetLastRoot(tree) = ReferenceRoot(leaves)
  <2>1. GetLastRoot(tree) = RootAfter(tree, n)
    BY LastRoot
  <2>2. RootAfter(tree, n) = ReferenceRoot(Version(tree, n))
    BY <1>1 DEF HashInv, HashOK
  <2>3. QED
    BY <1>5, <2>1, <2>2
<1> HIDE DEF leaves
<1>7. CopyOK(TreeOf(leaves), leaves)
  BY <1>2, <1>4, CopyRebuilt
<1>8. Copy = TreeOf(leaves)
  BY DEF Copy, leaves
<1>9. QED
  BY <1>2, <1>4, <1>6, <1>7, <1>8 DEF CopyOK, leaves

\* Rebuilding the tree from the events yields the contract's root, at any depth:
\* the Rust and the Solidity implementation of the incremental tree agree.
THEOREM CopiesAgree == TreeSpec => []CopyHasContractRoot
<1>1. RingInv /\ HashInv => CopyHasContractRoot
  BY CopyOfTree DEF CopyHasContractRoot
<1>2. QED
  BY <1>1, HashInvariant, PTL

-------------------------------------------------------------------------------
(* Merkle proofs *)

\* The sequences of nodes that proof builds level by level.
NodeLevels(nodes, leaves) ==
  /\ nodes[0] = leaves
  /\ \A level \in Levels :
       nodes[level + 1] =
         [k \in 1 .. (Len(nodes[level]) + 1) \div 2 |->
            HashPair(nodes[level][2 * k - 1], NodeOrZero(nodes[level], 2 * k - 1, level))]

ProofFrom(nodes, index) ==
  [siblings    |-> [level \in Levels |->
                      NodeOrZero(nodes[level], SiblingIndex(index \div 2 ^ level), level)],
   pathIndices |-> [level \in Levels |-> (index \div 2 ^ level) % 2]]

Above(below, level) ==
  [k \in 1 .. (Len(below) + 1) \div 2 |-> HashPair(below[2 * k - 1], NodeOrZero(below, 2 * k - 1, level))]

LEMMA ProofSteps ==
  \A t, index : \E nodes : NodeLevels(nodes, t.leaves) /\ ProofOf(t, index) = ProofFrom(nodes, index)
<1> SUFFICES ASSUME NEW t, NEW index
             PROVE  \E nodes : NodeLevels(nodes, t.leaves) /\ ProofOf(t, index) = ProofFrom(nodes, index)
  OBVIOUS
<1> USE TreeAssumption
<1> DEFINE base == t.leaves
           Step(before, l) == Above(before, l)
           Next(h) == [level \in 0 .. TREE_DEPTH |->
                         IF level = 0 THEN base ELSE Step(h[level - 1], level - 1)]
           T == { n \in Nat : \E h : \A level \in 0 .. TREE_DEPTH : level <= n => h[level] = Next(h)[level] }
<1>1. 0 \in T
  <2> DEFINE h == [level \in 0 .. TREE_DEPTH |-> base]
  <2>1. ASSUME NEW level \in 0 .. TREE_DEPTH, level <= 0 PROVE h[level] = Next(h)[level]
    <3>1. level = 0
      BY <2>1
    <3> HIDE DEF base, Step
    <3>2. QED
      BY <3>1
  <2> HIDE DEF h, Next
  <2>2. QED
    BY <2>1
<1>2. ASSUME NEW n \in Nat, n \in T PROVE n + 1 \in T
  <2>1. PICK h : \A level \in 0 .. TREE_DEPTH : level <= n => h[level] = Next(h)[level]
    BY <1>2
  <2> DEFINE g == Next(h)
  <2>2. ASSUME NEW level \in 0 .. TREE_DEPTH, level <= n + 1 PROVE g[level] = Next(g)[level]
    <3> HIDE DEF base, Step
    <3>1. CASE level = 0
      BY <3>1
    <3>2. CASE level # 0
      <4>1. level - 1 \in 0 .. TREE_DEPTH /\ level - 1 <= n
        BY <2>2, <3>2
      <4>2. h[level - 1] = g[level - 1]
        BY <2>1, <4>1
      <4>3. QED
        BY <3>2, <4>2
    <3>3. QED
      BY <3>1, <3>2
  <2> HIDE DEF g, Next
  <2>3. QED
    BY <2>2
<1>3. TREE_DEPTH \in T
  <2> HIDE DEF T
  <2>1. Nat \subseteq T
    BY <1>1, <1>2, SetInduction
  <2>2. QED
    BY <2>1
<1>4. PICK h : \A level \in 0 .. TREE_DEPTH : level <= TREE_DEPTH => h[level] = Next(h)[level]
  BY <1>3
<1>5. \E g : g = Next(g)
  <2> DEFINE g == [level \in 0 .. TREE_DEPTH |-> h[level]]
  <2>1. ASSUME NEW level \in 0 .. TREE_DEPTH PROVE g[level] = Next(g)[level]
    <3>1. level <= TREE_DEPTH
      OBVIOUS
    <3>2. h[level] = Next(h)[level]
      <4> HIDE DEF Next
      <4>1. QED
        BY <1>4, <3>1
    <3> HIDE DEF base, Step
    <3>3. CASE level = 0
      BY <3>2, <3>3
    <3>4. CASE level # 0
      <4>1. level - 1 \in 0 .. TREE_DEPTH
        BY <3>4
      <4>2. g[level - 1] = h[level - 1]
        BY <4>1
      <4>3. QED
        BY <3>2, <3>4, <4>2
    <3>5. QED
      BY <3>3, <3>4
  <2>2. Next(g) = [level \in 0 .. TREE_DEPTH |-> Next(g)[level]]
    OBVIOUS
  <2> HIDE DEF Next
  <2>3. g = Next(g)
    BY <2>1, <2>2
  <2> HIDE DEF g
  <2>4. QED
    BY <2>3
<1> DEFINE nodes == CHOOSE g : g = Next(g)
<1>6. nodes = Next(nodes)
  <2> HIDE DEF Next
  <2>1. QED
    BY <1>5
<1>7. ProofOf(t, index) = ProofFrom(nodes, index)
  BY DEF ProofOf, ProofFrom, Above
<1> HIDE DEF nodes
<1>8. ASSUME NEW level \in 0 .. TREE_DEPTH
      PROVE  nodes[level] = IF level = 0 THEN base ELSE Step(nodes[level - 1], level - 1)
  <2> HIDE DEF base, Step
  <2>1. nodes[level] = Next(nodes)[level]
    <3> HIDE DEF Next
    <3>1. QED
      BY <1>6
  <2>2. QED
    BY <2>1
<1>9. nodes[0] = base
  <2> HIDE DEF base, Step
  <2>1. 0 \in 0 .. TREE_DEPTH
    OBVIOUS
  <2>2. QED
    BY <1>8, <2>1
<1>10. ASSUME NEW level \in Levels PROVE nodes[level + 1] = Step(nodes[level], level)
  <2> HIDE DEF base, Step
  <2>1. level + 1 \in 0 .. TREE_DEPTH /\ level + 1 # 0 /\ (level + 1) - 1 = level
    BY DEF Levels
  <2>2. QED
    BY <1>8, <2>1
<1>11. NodeLevels(nodes, base)
  BY <1>9, <1>10 DEF NodeLevels, Above
<1>12. QED
  BY <1>7, <1>11

\* One step of compute_root.
Joined(proof, hash, level) ==
  IF proof.pathIndices[level] = 0 THEN HashPair(hash, proof.siblings[level])
  ELSE HashPair(proof.siblings[level], hash)

Walk(h, proof, leaf) ==
  /\ ComputeRoot(proof, leaf) = h[TREE_DEPTH]
  /\ h[0] = leaf
  /\ \A level \in Levels : h[level + 1] = Joined(proof, h[level], level)

\* compute_root goes up one level after the other.
LEMMA WalkSteps == \A proof, leaf : \E h : Walk(h, proof, leaf)
<1> SUFFICES ASSUME NEW proof, NEW leaf PROVE \E h : Walk(h, proof, leaf)
  OBVIOUS
<1> USE TreeAssumption
<1> DEFINE base == leaf
           Step(before, l) == Joined(proof, before, l)
           Next(h) == [level \in 0 .. TREE_DEPTH |->
                         IF level = 0 THEN base ELSE Step(h[level - 1], level - 1)]
           Coded(h) == [level \in 0 .. TREE_DEPTH |->
                          CASE level = 0 -> leaf
                            [] level > 0 /\ proof.pathIndices[level - 1] = 0 ->
                                 HashPair(h[level - 1], proof.siblings[level - 1])
                            [] OTHER -> HashPair(proof.siblings[level - 1], h[level - 1])]
           T == { n \in Nat : \E h : \A level \in 0 .. TREE_DEPTH : level <= n => h[level] = Next(h)[level] }
<1>1. 0 \in T
  <2> DEFINE h == [level \in 0 .. TREE_DEPTH |-> base]
  <2>1. ASSUME NEW level \in 0 .. TREE_DEPTH, level <= 0 PROVE h[level] = Next(h)[level]
    <3>1. level = 0
      BY <2>1
    <3> HIDE DEF base, Step
    <3>2. QED
      BY <3>1
  <2> HIDE DEF h, Next
  <2>2. QED
    BY <2>1
<1>2. ASSUME NEW n \in Nat, n \in T PROVE n + 1 \in T
  <2>1. PICK h : \A level \in 0 .. TREE_DEPTH : level <= n => h[level] = Next(h)[level]
    BY <1>2
  <2> DEFINE g == Next(h)
  <2>2. ASSUME NEW level \in 0 .. TREE_DEPTH, level <= n + 1 PROVE g[level] = Next(g)[level]
    <3> HIDE DEF base, Step
    <3>1. CASE level = 0
      BY <3>1
    <3>2. CASE level # 0
      <4>1. level - 1 \in 0 .. TREE_DEPTH /\ level - 1 <= n
        BY <2>2, <3>2
      <4>2. h[level - 1] = g[level - 1]
        BY <2>1, <4>1
      <4>3. QED
        BY <3>2, <4>2
    <3>3. QED
      BY <3>1, <3>2
  <2> HIDE DEF g, Next
  <2>3. QED
    BY <2>2
<1>3. TREE_DEPTH \in T
  <2> HIDE DEF T
  <2>1. Nat \subseteq T
    BY <1>1, <1>2, SetInduction
  <2>2. QED
    BY <2>1
<1>4. PICK h : \A level \in 0 .. TREE_DEPTH : level <= TREE_DEPTH => h[level] = Next(h)[level]
  BY <1>3
<1>5. \E g : g = Next(g)
  <2> DEFINE g == [level \in 0 .. TREE_DEPTH |-> h[level]]
  <2>1. ASSUME NEW level \in 0 .. TREE_DEPTH PROVE g[level] = Next(g)[level]
    <3>1. level <= TREE_DEPTH
      OBVIOUS
    <3>2. h[level] = Next(h)[level]
      <4> HIDE DEF Next
      <4>1. QED
        BY <1>4, <3>1
    <3> HIDE DEF base, Step
    <3>3. CASE level = 0
      BY <3>2, <3>3
    <3>4. CASE level # 0
      <4>1. level - 1 \in 0 .. TREE_DEPTH
        BY <3>4
      <4>2. g[level - 1] = h[level - 1]
        BY <4>1
      <4>3. QED
        BY <3>2, <3>4, <4>2
    <3>5. QED
      BY <3>3, <3>4
  <2>2. Next(g) = [level \in 0 .. TREE_DEPTH |-> Next(g)[level]]
    OBVIOUS
  <2> HIDE DEF Next
  <2>3. g = Next(g)
    BY <2>1, <2>2
  <2> HIDE DEF g
  <2>4. QED
    BY <2>3
<1>6. ASSUME NEW f PROVE Coded(f) = Next(f)
  <2>1. ASSUME NEW level \in 0 .. TREE_DEPTH PROVE Coded(f)[level] = Next(f)[level]
    <3>1. CASE level = 0
      BY <3>1
    <3>2. CASE level # 0
      <4>1. level > 0
        BY <3>2
      <4>2. CASE proof.pathIndices[level - 1] = 0
        BY <4>1, <4>2 DEF Joined
      <4>3. CASE proof.pathIndices[level - 1] # 0
        BY <4>1, <4>3 DEF Joined
      <4>4. QED
        BY <4>2, <4>3
    <3>3. QED
      BY <3>1, <3>2
  <2>2. Coded(f) = [level \in 0 .. TREE_DEPTH |-> Coded(f)[level]]
    OBVIOUS
  <2>3. Next(f) = [level \in 0 .. TREE_DEPTH |-> Next(f)[level]]
    OBVIOUS
  <2> HIDE DEF Coded, Next
  <2>4. QED
    BY <2>1, <2>2, <2>3
<1> DEFINE walk == CHOOSE g : g = Coded(g)
<1>7. walk = Next(walk)
  <2> HIDE DEF Next, Coded
  <2>1. \E g : g = Coded(g)
    BY <1>5, <1>6
  <2>2. walk = Coded(walk)
    BY <2>1
  <2>3. QED
    BY <1>6, <2>2
<1>8. ComputeRoot(proof, leaf) = walk[TREE_DEPTH]
  BY DEF ComputeRoot
<1> HIDE DEF walk
<1>9. ASSUME NEW level \in 0 .. TREE_DEPTH
      PROVE  walk[level] = IF level = 0 THEN base ELSE Step(walk[level - 1], level - 1)
  <2> HIDE DEF base, Step
  <2>1. walk[level] = Next(walk)[level]
    <3> HIDE DEF Next
    <3>1. QED
      BY <1>7
  <2>2. QED
    BY <2>1
<1>10. walk[0] = base
  <2> HIDE DEF base, Step
  <2>1. 0 \in 0 .. TREE_DEPTH
    OBVIOUS
  <2>2. QED
    BY <1>9, <2>1
<1>11. ASSUME NEW level \in Levels PROVE walk[level + 1] = Step(walk[level], level)
  <2> HIDE DEF base, Step
  <2>1. level + 1 \in 0 .. TREE_DEPTH /\ level + 1 # 0 /\ (level + 1) - 1 = level
    BY DEF Levels
  <2>2. QED
    BY <1>9, <2>1
<1>12. Walk(walk, proof, leaf)
  BY <1>8, <1>10, <1>11 DEF Walk
<1>13. QED
  BY <1>12

\* The nodes proof builds are those of the whole tree, and where it has none
\* there are only empty subtrees.
LEMMA NodesAreTree ==
  ASSUME NEW leaves, Len(leaves) \in Nat, DOMAIN leaves = 1 .. Len(leaves), Len(leaves) <= MAX_LEAVES,
         NEW L, WholeTree(L, leaves), NEW nodes, NodeLevels(nodes, leaves)
  PROVE  \A level \in 0 .. TREE_DEPTH : \A k \in 0 .. 2 ^ (TREE_DEPTH - level) - 1 :
           NodeOrZero(nodes[level], k, level) = L[level][k]
<1> USE TreeAssumption
<1> DEFINE Size(l) == 2 ^ (TREE_DEPTH - l)
           Good(l) ==
             /\ Len(nodes[l]) \in Nat /\ Len(nodes[l]) <= Size(l)
             /\ \A k \in 0 .. Size(l) - 1 : NodeOrZero(nodes[l], k, l) = L[l][k]
             /\ \A k \in 0 .. Size(l) - 1 : k >= Len(nodes[l]) => L[l][k] = Zeros[l]
           T == { l \in Nat : l <= TREE_DEPTH => Good(l) }
<1>1. 0 \in T
  <2>1. nodes[0] = leaves /\ Zeros[0] = ZERO
    BY ZerosSteps DEF NodeLevels
  <2>2. Size(0) = MAX_LEAVES
    BY DEF MAX_LEAVES
  <2>3. \A k \in 0 .. Size(0) - 1 : L[0][k] = IF k < Len(leaves) THEN leaves[k + 1] ELSE ZERO
    BY DEF WholeTree
  <2>4. MAX_LEAVES \in Nat
    BY MaxLeavesNat
  <2> HIDE DEF Size
  <2>5. QED
    BY <2>1, <2>2, <2>3, <2>4 DEF NodeOrZero
<1>2. ASSUME NEW l \in Nat, l \in T PROVE l + 1 \in T
  <2>1. SUFFICES ASSUME l + 1 <= TREE_DEPTH PROVE Good(l + 1)
    OBVIOUS
  <2>2. l \in Levels
    BY <2>1 DEF Levels
  <2>3. Good(l)
    BY <1>2, <2>1
  <2> DEFINE P == Size(l + 1)
             below == nodes[l]
             above == nodes[l + 1]
             m == Len(below)
             c == (m + 1) \div 2
  <2>4. P \in Nat \ {0} /\ Size(l) = 2 * P
    <3> DEFINE d == TREE_DEPTH - (l + 1)
    <3>1. d \in 0 .. TREE_DEPTH - 1 /\ TREE_DEPTH - l = d + 1
      BY <2>1
    <3>2. 2 ^ (d + 1) = 2 * 2 ^ d /\ 2 ^ d \in Nat \ {0}
      BY <3>1, PowersOfTwo, PowersPositive
    <3>3. QED
      BY <3>1, <3>2
  <2>5. above = [k \in 1 .. c |-> HashPair(below[2 * k - 1], NodeOrZero(below, 2 * k - 1, l))]
    BY <2>2 DEF NodeLevels
  <2>6. \A k \in 0 .. P - 1 : L[l + 1][k] = HashPair(L[l][2 * k], L[l][2 * k + 1])
    BY <2>2 DEF WholeTree
  <2>7. Zeros[l + 1] = HashPair(Zeros[l], Zeros[l])
    BY <2>2, ZerosSteps
  <2>8. /\ m \in Nat /\ m <= 2 * P
        /\ \A k \in 0 .. 2 * P - 1 : NodeOrZero(below, k, l) = L[l][k]
        /\ \A k \in 0 .. 2 * P - 1 : k >= m => L[l][k] = Zeros[l]
    BY <2>3, <2>4
  <2> HIDE DEF P, Size, below, m
  <2>9. c \in Nat /\ c <= P /\ 2 * c <= m + 1 /\ m <= 2 * c
    BY <2>4, <2>8
  <2> HIDE DEF c
  <2>10. Len(above) = c
    <3> DEFINE e(k) == HashPair(below[2 * k - 1], NodeOrZero(below, 2 * k - 1, l))
    <3>1. above \in [1 .. c -> { e(k) : k \in 1 .. c }]
      BY <2>5
    <3> HIDE DEF e, above
    <3>2. QED
      BY <2>9, <3>1
  <2> HIDE DEF above
  <2>11. ASSUME NEW k \in 0 .. P - 1, k < c PROVE above[k + 1] = L[l + 1][k]
    <3>1. k + 1 \in 1 .. c /\ 2 * k \in 0 .. 2 * P - 1 /\ 2 * k + 1 \in 0 .. 2 * P - 1 /\ 2 * k < m
      BY <2>4, <2>8, <2>9, <2>11
    <3>2. /\ 2 * (k + 1) - 1 = 2 * k + 1
          /\ above[k + 1] = HashPair(below[2 * (k + 1) - 1], NodeOrZero(below, 2 * (k + 1) - 1, l))
      BY <2>5, <3>1
    <3>3. above[k + 1] = HashPair(below[2 * k + 1], NodeOrZero(below, 2 * k + 1, l))
      BY <3>2
    <3>4. NodeOrZero(below, 2 * k, l) = below[2 * k + 1]
      BY <3>1 DEF NodeOrZero, m
    <3>5. NodeOrZero(below, 2 * k, l) = L[l][2 * k] /\ NodeOrZero(below, 2 * k + 1, l) = L[l][2 * k + 1]
      BY <2>8, <3>1
    <3>6. QED
      BY <2>6, <3>3, <3>4, <3>5
  <2>12. ASSUME NEW k \in 0 .. P - 1, k >= c PROVE L[l + 1][k] = Zeros[l + 1]
    <3>1. 2 * k \in 0 .. 2 * P - 1 /\ 2 * k + 1 \in 0 .. 2 * P - 1 /\ 2 * k >= m /\ 2 * k + 1 >= m
      BY <2>4, <2>8, <2>9, <2>12
    <3>2. L[l][2 * k] = Zeros[l] /\ L[l][2 * k + 1] = Zeros[l]
      BY <2>8, <3>1
    <3>3. QED
      BY <2>6, <2>7, <3>2
  <2>13. ASSUME NEW k \in 0 .. P - 1 PROVE NodeOrZero(above, k, l + 1) = L[l + 1][k]
    <3>1. CASE k < c
      BY <2>10, <2>11, <3>1 DEF NodeOrZero
    <3>2. CASE ~(k < c)
      <4>1. k >= c
        BY <2>4, <2>9, <3>2
      <4>2. QED
        BY <2>10, <2>12, <3>2, <4>1 DEF NodeOrZero
    <3>3. QED
      BY <3>1, <3>2
  <2>14. QED
    BY <2>9, <2>10, <2>12, <2>13 DEF P, above
<1>3. Nat \subseteq T
  <2> HIDE DEF T
  <2>1. QED
    BY <1>1, <1>2, SetInduction
<1>4. QED
  BY <1>3

\* The proof of a position leads from the leaf there to the root.
LEMMA ProofVerifies ==
  ASSUME NEW leaves, Len(leaves) \in Nat, DOMAIN leaves = 1 .. Len(leaves), Len(leaves) <= MAX_LEAVES,
         NEW t, t.leaves = leaves, NEW index \in 0 .. Len(leaves) - 1
  PROVE  ComputeRoot(ProofOf(t, index), leaves[index + 1]) = ReferenceRoot(leaves)
<1> USE TreeAssumption
<1> DEFINE leaf == leaves[index + 1]
<1>1. PICK L : WholeTree(L, leaves) /\ ReferenceRoot(leaves) = L[TREE_DEPTH][0]
  BY ReferenceTree
<1>2. PICK nodes : NodeLevels(nodes, leaves) /\ ProofOf(t, index) = ProofFrom(nodes, index)
  <2>1. \E nodes : NodeLevels(nodes, t.leaves) /\ ProofOf(t, index) = ProofFrom(nodes, index)
    BY ONLY ProofSteps, Zenon
  <2>2. QED
    BY <2>1
<1> DEFINE proof == ProofFrom(nodes, index)
<1>3. PICK h : Walk(h, proof, leaf)
  <2>1. \E h : Walk(h, proof, leaf)
    BY ONLY WalkSteps, Zenon
  <2>2. QED
    BY <2>1
<1>4. \A level \in 0 .. TREE_DEPTH : \A k \in 0 .. 2 ^ (TREE_DEPTH - level) - 1 :
        NodeOrZero(nodes[level], k, level) = L[level][k]
  BY <1>1, <1>2, NodesAreTree
<1>5. index \in 0 .. MAX_LEAVES - 1
  BY MaxLeavesNat
<1>6. /\ Ancestor(index, 0) = index
      /\ \A level \in 0 .. TREE_DEPTH - 1 : Ancestor(index, level + 1) = Ancestor(index, level) \div 2
      /\ \A level \in 0 .. TREE_DEPTH : Ancestor(index, level) \in 0 .. 2 ^ (TREE_DEPTH - level) - 1
  BY <1>5, Ancestors
<1> DEFINE T == { l \in Nat : l <= TREE_DEPTH => h[l] = L[l][Ancestor(index, l)] }
<1>7. 0 \in T
  <2>1. h[0] = leaf
    BY <1>3 DEF Walk
  <2>2. L[0][index] = leaf
    BY <1>1, <1>5 DEF WholeTree, MAX_LEAVES
  <2>3. QED
    BY <1>6, <2>1, <2>2
<1>8. ASSUME NEW l \in Nat, l \in T PROVE l + 1 \in T
  <2>1. SUFFICES ASSUME l + 1 <= TREE_DEPTH PROVE h[l + 1] = L[l + 1][Ancestor(index, l + 1)]
    OBVIOUS
  <2>2. l \in Levels /\ l \in 0 .. TREE_DEPTH - 1 /\ l \in 0 .. TREE_DEPTH /\ l + 1 \in 0 .. TREE_DEPTH
    BY <2>1 DEF Levels
  <2> DEFINE q == Ancestor(index, l)
             p == Ancestor(index, l + 1)
             d == TREE_DEPTH - (l + 1)
             P == 2 ^ d
  <2>3. h[l] = L[l][q]
    BY <1>8, <2>2
  <2>4. P \in Nat \ {0} /\ 2 ^ (TREE_DEPTH - l) = 2 * P
    <3>1. d \in 0 .. TREE_DEPTH - 1 /\ TREE_DEPTH - l = d + 1
      BY <2>1
    <3>2. 2 ^ (d + 1) = 2 * 2 ^ d /\ 2 ^ d \in Nat \ {0}
      BY <3>1, PowersOfTwo, PowersPositive
    <3>3. QED
      BY <3>1, <3>2
  <2>5. p = q \div 2 /\ q \in 0 .. 2 * P - 1 /\ p \in 0 .. P - 1
    BY <1>6, <2>2, <2>4
  <2>6. h[l + 1] = Joined(proof, h[l], l)
    BY <1>3, <2>2 DEF Walk
  <2>7. /\ proof.siblings[l] = NodeOrZero(nodes[l], SiblingIndex(q), l)
        /\ proof.pathIndices[l] = q % 2
    BY <2>2 DEF ProofFrom, Ancestor
  <2>8. L[l + 1][p] = HashPair(L[l][2 * p], L[l][2 * p + 1])
    BY <1>1, <2>2, <2>5 DEF WholeTree
  <2>9. \A k \in 0 .. 2 * P - 1 : NodeOrZero(nodes[l], k, l) = L[l][k]
    BY <1>4, <2>2, <2>4
  <2> HIDE DEF q, p, P, proof
  <2>10. CASE q % 2 = 0
    <3>1. q = 2 * p /\ SiblingIndex(q) = 2 * p + 1 /\ 2 * p + 1 \in 0 .. 2 * P - 1
      BY <2>4, <2>5, <2>10 DEF SiblingIndex
    <3>2. h[l + 1] = HashPair(h[l], proof.siblings[l])
      BY <2>6, <2>7, <2>10 DEF Joined
    <3>3. proof.siblings[l] = L[l][2 * p + 1]
      BY <2>7, <2>9, <3>1
    <3>4. QED
      BY <2>3, <2>8, <3>1, <3>2, <3>3 DEF p
  <2>11. CASE q % 2 # 0
    <3>1. q = 2 * p + 1 /\ SiblingIndex(q) = 2 * p /\ 2 * p \in 0 .. 2 * P - 1
      BY <2>4, <2>5, <2>11 DEF SiblingIndex
    <3>2. h[l + 1] = HashPair(proof.siblings[l], h[l])
      BY <2>6, <2>7, <2>11 DEF Joined
    <3>3. proof.siblings[l] = L[l][2 * p]
      BY <2>7, <2>9, <3>1
    <3>4. QED
      BY <2>3, <2>8, <3>1, <3>2, <3>3 DEF p
  <2>12. QED
    BY <2>10, <2>11
<1>9. h[TREE_DEPTH] = L[TREE_DEPTH][Ancestor(index, TREE_DEPTH)]
  <2>1. Nat \subseteq T
    <3> HIDE DEF T
    <3>1. QED
      BY <1>7, <1>8, SetInduction
  <2>2. QED
    BY <2>1
<1>10. Ancestor(index, TREE_DEPTH) = 0
  BY <1>5, TopAncestor
<1>11. ComputeRoot(proof, leaf) = h[TREE_DEPTH]
  BY <1>3 DEF Walk
<1>12. QED
  BY <1>1, <1>2, <1>9, <1>10, <1>11

\* The same proof leads from no two leaves to the same root.
LEMMA ProofDecides ==
  ASSUME NEW proof, NEW x, NEW y, ComputeRoot(proof, x) = ComputeRoot(proof, y)
  PROVE  x = y
<1> USE TreeAssumption
<1>1. PICK h : Walk(h, proof, x)
  BY ONLY WalkSteps, Zenon
<1>2. PICK g : Walk(g, proof, y)
  BY ONLY WalkSteps, Zenon
<1> DEFINE T == { n \in Nat : n <= TREE_DEPTH => h[TREE_DEPTH - n] = g[TREE_DEPTH - n] }
<1>3. 0 \in T
  <2>1. TREE_DEPTH - 0 = TREE_DEPTH
    OBVIOUS
  <2>2. QED
    BY <1>1, <1>2, <2>1 DEF Walk
<1>4. ASSUME NEW n \in Nat, n \in T PROVE n + 1 \in T
  <2>1. SUFFICES ASSUME n + 1 <= TREE_DEPTH PROVE h[TREE_DEPTH - (n + 1)] = g[TREE_DEPTH - (n + 1)]
    OBVIOUS
  <2> DEFINE l == TREE_DEPTH - (n + 1)
  <2>2. l \in Levels /\ l + 1 = TREE_DEPTH - n
    BY <2>1 DEF Levels
  <2>3. h[l + 1] = g[l + 1]
    BY <1>4, <2>1, <2>2
  <2>4. h[l + 1] = Joined(proof, h[l], l) /\ g[l + 1] = Joined(proof, g[l], l)
    BY <1>1, <1>2, <2>2 DEF Walk
  <2> DEFINE a == h[l]
             b == g[l]
             c == proof.siblings[l]
  <2>5. Joined(proof, a, l) = Joined(proof, b, l)
    BY <2>3, <2>4
  <2> HIDE DEF a, b, c
  <2>6. CASE proof.pathIndices[l] = 0
    <3>1. HashPair(a, c) = HashPair(b, c)
      BY <2>5, <2>6 DEF Joined, c
    <3>2. QED
      BY <3>1, HashInjective DEF a, b
  <2>7. CASE proof.pathIndices[l] # 0
    <3>1. HashPair(c, a) = HashPair(c, b)
      BY <2>5, <2>7 DEF Joined, c
    <3>2. QED
      BY <3>1, HashInjective DEF a, b
  <2>8. QED
    BY <2>6, <2>7
<1>5. h[0] = g[0]
  <2>1. Nat \subseteq T
    <3> HIDE DEF T
    <3>1. QED
      BY <1>3, <1>4, SetInduction
  <2>2. TREE_DEPTH \in T /\ TREE_DEPTH - TREE_DEPTH = 0
    BY <2>1
  <2>3. QED
    BY <2>2
<1>6. QED
  BY <1>1, <1>2, <1>5 DEF Walk

\* The proof a client makes for a position of its copy verifies against the
\* contract's root for the leaf there, and for no other leaf.
THEOREM ProofsIdentify == TreeSpec => []ProofsIdentifyLeaves
<1>1. ASSUME RingInv, HashInv PROVE ProofsIdentifyLeaves
  <2> DEFINE leaves == LeavesOf(tree)
             root == GetLastRoot(tree)
  <2>1. /\ Copy.leaves = leaves /\ leaves \in Seq(Leaves) /\ Len(leaves) <= MAX_LEAVES
        /\ root = ReferenceRoot(leaves)
    BY <1>1, CopyOfTree
  <2> HIDE DEF leaves, root
  <2>2. SUFFICES ASSUME NEW index \in 0 .. Len(Copy.leaves) - 1, NEW leaf \in Leaves
                 PROVE  ComputeRoot(ProofOf(Copy, index), leaf) = root <=> leaf = Copy.leaves[index + 1]
    BY DEF ProofsIdentifyLeaves, Verify, root
  <2> DEFINE t == Copy
             right == leaves[index + 1]
  <2>3. /\ Len(leaves) \in Nat /\ DOMAIN leaves = 1 .. Len(leaves) /\ Len(leaves) <= MAX_LEAVES
        /\ t.leaves = leaves /\ index \in 0 .. Len(leaves) - 1
    BY <2>1, <2>2
  <2> HIDE DEF t
  <2>4. ComputeRoot(ProofOf(t, index), leaves[index + 1]) = ReferenceRoot(leaves)
    BY ONLY <2>3, ProofVerifies
  <2> HIDE DEF right
  <2>5. ComputeRoot(ProofOf(t, index), right) = root
    BY <2>1, <2>4 DEF right
  <2> DEFINE proof == ProofOf(t, index)
  <2> HIDE DEF proof
  <2>6. ComputeRoot(proof, leaf) = root => leaf = right
    <3>1. ComputeRoot(proof, leaf) = ComputeRoot(proof, right) => leaf = right
      BY ONLY ProofDecides
    <3>2. QED
      BY <2>5, <3>1 DEF proof
  <2>7. Copy.leaves[index + 1] = right
    BY <2>1 DEF right
  <2>8. QED
    BY <2>5, <2>6, <2>7 DEF proof, t
<1>2. RingInv /\ HashInv => ProofsIdentifyLeaves
  BY <1>1
<1>3. QED
  BY <1>2, HashInvariant, PTL

\* The position of a path, as a sum of weights.
LEMMA PositionIsSum ==
  ASSUME NEW path, NEW w, \A level \in Levels : w[level] = path[level] * 2 ^ level
  PROVE  PositionOf(path) = Sum(w, Levels)
<1> DEFINE S == Levels
           PlaceSums(f) ==
             f = [s \in SUBSET S |->
                    IF s = {} THEN 0
                    ELSE LET x == CHOOSE x \in s : TRUE IN f[s \ {x}] + path[x] * 2 ^ x]
           g == CHOOSE f : PlaceSums(f)
<1>1. PositionOf(path) = g[S]
  BY DEF PositionOf, FoldSet, MapThenFoldSet
<1>2. ASSUME NEW s \in SUBSET S, s # {}
      PROVE  w[CHOOSE x \in s : TRUE] = path[CHOOSE x \in s : TRUE] * 2 ^ (CHOOSE x \in s : TRUE)
  BY <1>2
<1>3. \A f : PartialSums(f, S, w) <=> PlaceSums(f)
  <2> HIDE DEF S
  <2>1. QED
    BY <1>2 DEF PartialSums
<1>4. IsFiniteSet(S)
  BY TreeAssumption, FS_Interval DEF Levels
<1> HIDE DEF S
<1>5. PICK h : PartialSums(h, S, w) /\ Sum(w, S) = h[S]
  BY <1>4, SumIsPartialSum
<1>6. PartialSums(g, S, w)
  <2> HIDE DEF PlaceSums
  <2>1. PlaceSums(g)
    BY <1>3, <1>5
  <2>2. QED
    BY <1>3, <2>1
<1> HIDE DEF g
<1>7. g[S] = h[S]
  BY <1>4, <1>5, <1>6, PartialSumsAgree
<1>8. QED
  BY <1>1, <1>5, <1>7 DEF S

\* Whatever siblings are put together, the walk they make from a leaf to the
\* root passes through the nodes of the tree, down to the position of the path.
LEMMA WalkIsInTree ==
  ASSUME NEW L, NEW leaves, WholeTree(L, leaves),
         NEW proof, proof.pathIndices \in [Levels -> {0, 1}],
         NEW h, NEW leaf, Walk(h, proof, leaf), h[TREE_DEPTH] = L[TREE_DEPTH][0]
  PROVE  /\ PositionOf(proof.pathIndices) \in 0 .. MAX_LEAVES - 1
         /\ leaf = L[0][PositionOf(proof.pathIndices)]
<1> USE TreeAssumption
<1> DEFINE path == proof.pathIndices
           w == [level \in Levels |-> path[level] * 2 ^ level]
           Upper(l) == l .. TREE_DEPTH - 1
           Good(n) == \E a \in 0 .. 2 ^ n - 1 :
                        /\ h[TREE_DEPTH - n] = L[TREE_DEPTH - n][a]
                        /\ Sum(w, Upper(TREE_DEPTH - n)) = a * 2 ^ (TREE_DEPTH - n)
           T == { n \in Nat : n <= TREE_DEPTH => Good(n) }
<1>1. \A l \in Levels : path[l] \in {0, 1}
  OBVIOUS
<1> HIDE DEF path
<1>2. \A l \in Levels : w[l] = path[l] * 2 ^ l /\ w[l] \in Nat
  <2> SUFFICES ASSUME NEW l \in Levels PROVE w[l] = path[l] * 2 ^ l /\ w[l] \in Nat
    OBVIOUS
  <2>1. 2 ^ l \in Nat
    BY PowersPositive DEF Levels
  <2>2. QED
    BY <1>1, <2>1
<1> HIDE DEF w
<1>3. 0 \in T
  <2>1. TREE_DEPTH - 0 = TREE_DEPTH /\ Upper(TREE_DEPTH) = {} /\ 2 ^ 0 = 1
    BY PowersOfTwo
  <2>2. 2 ^ TREE_DEPTH \in Nat
    BY MaxLeavesNat DEF MAX_LEAVES
  <2>3. Sum(w, Upper(TREE_DEPTH)) = 0 * 2 ^ TREE_DEPTH
    BY <2>1, <2>2, SumOfEmpty
  <2> HIDE DEF Upper
  <2>4. 0 \in 0 .. 2 ^ 0 - 1
    BY <2>1
  <2>5. /\ h[TREE_DEPTH - 0] = L[TREE_DEPTH - 0][0]
        /\ Sum(w, Upper(TREE_DEPTH - 0)) = 0 * 2 ^ (TREE_DEPTH - 0)
    BY <2>1, <2>3
  <2>6. Good(0)
    BY ONLY <2>4, <2>5, Zenon
  <2> HIDE DEF Good
  <2>7. QED
    BY <2>6
<1>4. ASSUME NEW n \in Nat, n \in T PROVE n + 1 \in T
  <2>1. SUFFICES ASSUME n + 1 <= TREE_DEPTH PROVE Good(n + 1)
    OBVIOUS
  <2> DEFINE l == TREE_DEPTH - (n + 1)
             m == TREE_DEPTH - n
  <2>2. /\ l \in Levels /\ l \in 0 .. TREE_DEPTH - 1 /\ m = l + 1
        /\ n \in 0 .. TREE_DEPTH - 1 /\ n = TREE_DEPTH - (l + 1)
    BY <2>1 DEF Levels
  <2>3. PICK a \in 0 .. 2 ^ n - 1 : h[m] = L[m][a] /\ Sum(w, Upper(m)) = a * 2 ^ m
    BY <1>4, <2>1
  <2>4. Sum(w, Upper(l)) = Sum(w, Upper(m)) + w[l]
    <3>1. IsFiniteSet(Upper(m))
      <4>1. m \in Int /\ TREE_DEPTH - 1 \in Int
        OBVIOUS
      <4> HIDE DEF m
      <4>2. IsFiniteSet(m .. TREE_DEPTH - 1)
        BY <4>1, FS_Interval
      <4>3. QED
        BY <4>2
    <3>2. l \notin Upper(m) /\ Upper(l) = Upper(m) \cup {l} /\ \A y \in Upper(m) : y \in Levels
      BY <2>2 DEF Levels
    <3> DEFINE S == Upper(m)
    <3> HIDE DEF l, S
    <3>3. \A y \in S : w[y] \in Nat
      BY <1>2, <3>2 DEF S
    <3>4. w[l] \in Nat
      BY <1>2, <2>2
    <3>5. IsFiniteSet(S) /\ l \notin S
      BY <3>1, <3>2 DEF S
    <3>6. Sum(w, S \cup {l}) = Sum(w, S) + w[l]
      BY ONLY <3>3, <3>4, <3>5, SumAdded
    <3>7. QED
      BY <3>2, <3>6 DEF S
  <2> DEFINE H == 2 ^ l
             P == 2 ^ n
             c == path[l]
             b == 2 * a + c
  <2>5. /\ H \in Nat \ {0} /\ 2 ^ (l + 1) = 2 * H
        /\ P \in Nat \ {0} /\ 2 ^ (n + 1) = 2 * P
    BY <2>2, PowersOfTwo, PowersPositive
  <2>6. w[l] = c * H /\ c \in {0, 1}
    BY <1>1, <1>2, <2>2
  <2>7. L[l + 1][a] = HashPair(L[l][2 * a], L[l][2 * a + 1])
    BY <2>2, <2>3 DEF WholeTree
  <2>8. h[l + 1] = Joined(proof, h[l], l)
    BY <2>2 DEF Walk
  <2>9. h[l + 1] = L[l + 1][a] /\ Sum(w, Upper(l)) = a * 2 ^ (l + 1) + w[l]
    BY <2>2, <2>3, <2>4
  <2>10. a \in 0 .. P - 1
    BY <2>3
  <2> HIDE DEF H, P, l, m, Upper
  <2>11. h[l] = L[l][b]
    <3> DEFINE x == h[l]
               y == proof.siblings[l]
               u == L[l][2 * a]
               v == L[l][2 * a + 1]
    <3>1. Joined(proof, x, l) = HashPair(u, v)
      BY <2>7, <2>8, <2>9
    <3> HIDE DEF x, y, u, v
    <3>2. CASE c = 0
      <4>1. HashPair(x, y) = HashPair(u, v)
        BY <3>1, <3>2 DEF Joined, path, y
      <4>2. x = u
        BY <4>1, HashInjective
      <4>3. b = 2 * a
        BY <2>10, <3>2
      <4>4. QED
        BY <4>2, <4>3 DEF x, u
    <3>3. CASE c = 1
      <4>1. HashPair(y, x) = HashPair(u, v)
        BY <3>1, <3>3 DEF Joined, path, y
      <4>2. x = v
        BY <4>1, HashInjective
      <4>3. b = 2 * a + 1
        BY <2>10, <3>3
      <4>4. QED
        BY <4>2, <4>3 DEF x, v
    <3>4. QED
      BY <2>6, <3>2, <3>3
  <2> HIDE DEF c
  <2>12. b \in 0 .. 2 * P - 1
    BY <2>5, <2>6, <2>10
  <2>13. Sum(w, Upper(l)) = b * H
    <3>1. a \in Nat /\ a * H \in Nat /\ a * (2 * H) = 2 * (a * H) /\ (2 * a) * H = 2 * (a * H)
      BY <2>5, <2>10
    <3>2. b * H = (2 * a) * H + c * H
      BY <2>5, <2>6, <2>10
    <3>3. QED
      BY <2>5, <2>6, <2>9, <3>1, <3>2
  <2> HIDE DEF b
  <2>14. Good(n + 1)
    <3>1. b \in 0 .. 2 ^ (n + 1) - 1
      BY <2>5, <2>12
    <3>2. h[TREE_DEPTH - (n + 1)] = L[TREE_DEPTH - (n + 1)][b]
      BY <2>11 DEF l
    <3>3. Sum(w, Upper(TREE_DEPTH - (n + 1))) = b * 2 ^ (TREE_DEPTH - (n + 1))
      BY <2>13 DEF l, H
    <3>4. QED
      BY <3>1, <3>2, <3>3
  <2>15. QED
    BY <2>14
<1>5. Good(TREE_DEPTH)
  <2>1. Nat \subseteq T
    <3> HIDE DEF T
    <3>1. QED
      BY <1>3, <1>4, SetInduction
  <2> HIDE DEF Good
  <2>2. QED
    BY <2>1
<1>6. TREE_DEPTH - TREE_DEPTH = 0 /\ Upper(0) = Levels /\ 2 ^ 0 = 1
  BY PowersOfTwo DEF Levels
<1> HIDE DEF Upper
<1>7. PICK a \in 0 .. 2 ^ TREE_DEPTH - 1 : h[0] = L[0][a] /\ Sum(w, Levels) = a * 2 ^ 0
  BY <1>5, <1>6
<1>8. Sum(w, Levels) = a /\ a \in 0 .. MAX_LEAVES - 1
  BY <1>6, <1>7, MaxLeavesNat DEF MAX_LEAVES
<1>9. PositionOf(path) = a
  BY <1>2, <1>8, PositionIsSum
<1>10. h[0] = leaf
  BY DEF Walk
<1>11. QED
  BY <1>7, <1>8, <1>9, <1>10 DEF path

\* No siblings and no path make the root from a commitment that is not the leaf
\* at the position of the path (zero where none was inserted): compute_root may leave the index unchecked.
THEOREM AbsentLeavesNotProved == TreeSpec => []NoProofOfAbsentLeaf
<1>1. ASSUME RingInv, HashInv PROVE NoProofOfAbsentLeaf
  <2> DEFINE leaves == LeavesOf(tree)
             n == tree.nextIndex
             root == GetLastRoot(tree)
  <2>1. /\ leaves \in Seq(Leaves) /\ Len(leaves) = n /\ n <= MAX_LEAVES
        /\ root = ReferenceRoot(leaves)
    BY <1>1, CopyOfTree
  <2> HIDE DEF leaves, n, root
  <2>2. ASSUME NEW leaf \in Leaves, NEW path \in [Levels -> {0, 1}], NEW siblings,
               Verify([siblings |-> siblings, pathIndices |-> path], leaf, root)
        PROVE  leaf = IF PositionOf(path) < n THEN leaves[PositionOf(path) + 1] ELSE ZERO
    <3> DEFINE proof == [siblings |-> siblings, pathIndices |-> path]
    <3>1. ComputeRoot(proof, leaf) = root
      BY <2>2 DEF Verify
    <3>2. proof.pathIndices = path
      OBVIOUS
    <3> HIDE DEF proof
    <3>3. PICK L : WholeTree(L, leaves) /\ ReferenceRoot(leaves) = L[TREE_DEPTH][0]
      BY ReferenceTree
    <3>4. PICK h : Walk(h, proof, leaf)
      BY ONLY WalkSteps, Zenon
    <3>5. h[TREE_DEPTH] = L[TREE_DEPTH][0]
      BY <2>1, <3>1, <3>3, <3>4 DEF Walk
    <3>6. /\ PositionOf(proof.pathIndices) \in 0 .. MAX_LEAVES - 1
          /\ leaf = L[0][PositionOf(proof.pathIndices)]
      BY <2>2, <3>2, <3>3, <3>4, <3>5, WalkIsInTree
    <3> DEFINE i == PositionOf(path)
    <3>7. i \in 0 .. MAX_LEAVES - 1 /\ leaf = L[0][i]
      BY <3>2, <3>6
    <3> HIDE DEF i
    <3>8. L[0][i] = IF i < Len(leaves) THEN leaves[i + 1] ELSE ZERO
      BY <3>3, <3>7 DEF WholeTree, MAX_LEAVES
    <3>9. i \in Nat
      BY <3>7, MaxLeavesNat
    <3>10. leaf = IF i < n THEN leaves[i + 1] ELSE ZERO
      BY <2>1, <3>7, <3>8
    <3>11. QED
      BY <3>10 DEF i
  <2>3. QED
    BY <2>2 DEF NoProofOfAbsentLeaf, leaves, n, root
<1>2. RingInv /\ HashInv => NoProofOfAbsentLeaf
  BY <1>1
<1>3. QED
  BY <1>2, HashInvariant, PTL
===============================================================================
