------------------------- MODULE MerkleTreeWithHistory -------------------------
(***************************************************************************)
(* contracts/src/MerkleTreeWithHistory.sol: the append-only Merkle tree of *)
(* commitments, kept as one cached hash per level, and the ring of the     *)
(* last ROOT_HISTORY_SIZE roots.                                           *)
(*                                                                         *)
(* keccak256 is taken to be free of collisions: the hash of a pair is the  *)
(* pair itself, so two nodes are equal exactly when what they commit to is.*)
(***************************************************************************)
EXTENDS Integers, Sequences

CONSTANTS TREE_DEPTH,          \* 20 in the contract
          ROOT_HISTORY_SIZE,   \* 30 in the contract
          Leaves               \* the commitments callers may insert, ZERO among them

\* bytes32(0): an empty leaf and an empty slot.  No pair hashes to it, but
\* nothing keeps a caller from inserting it.
ZERO == << >>

ASSUME TreeAssumption ==
  /\ TREE_DEPTH \in Nat \ {0}
  /\ ROOT_HISTORY_SIZE \in Nat \ {0}

\* What 2 ^ level means, for the proofs.
ASSUME PowersOfTwo ==
  /\ 2 ^ 0 = 1
  /\ \A level \in 0 .. TREE_DEPTH - 1 : 2 ^ (level + 1) = 2 * 2 ^ level

VARIABLE tree                  \* the contract's storage, and the events it emitted

MAX_LEAVES == 2 ^ TREE_DEPTH

Levels == 0 .. TREE_DEPTH - 1

Slots == 0 .. ROOT_HISTORY_SIZE - 1

HashPair(left, right) == <<left, right>>

\* Root of an empty subtree of each height.
Zeros[level \in 0 .. TREE_DEPTH] ==
  IF level = 0 THEN ZERO ELSE HashPair(Zeros[level - 1], Zeros[level - 1])

\* Whether the ancestor at a level of the leaf at index is a left child.
IsLeftChild(index, level) == (index \div 2 ^ level) % 2 = 0

\* The hashes met on the way up from a leaf inserted at index, by level.
PathHashes(leaf, index, filled) ==
  LET h[level \in 0 .. TREE_DEPTH] ==
        CASE level = 0 -> leaf
          [] level > 0 /\ IsLeftChild(index, level - 1) ->
               HashPair(h[level - 1], Zeros[level - 1])
          [] OTHER -> HashPair(filled[level - 1], h[level - 1])
  IN  h

\* Mutant of StoreLeft: the cache is updated by right children instead.
StoreLeftOnRight(filled, index, path) ==
  [level \in Levels |-> IF IsLeftChild(index, level) THEN filled[level] ELSE path[level]]

\* The cache after that walk: a left child replaces its level's entry.
StoreLeft(filled, index, path) ==
  [level \in Levels |-> IF IsLeftChild(index, level) THEN path[level] ELSE filled[level]]

\* Mutants of NextSlot: the ring never wraps, or wraps one slot early.
NextSlotNoWrap(slot) == slot + 1
NextSlotEarlyWrap(slot) == (slot + 1) % (ROOT_HISTORY_SIZE - 1)

NextSlot(slot) == (slot + 1) % ROOT_HISTORY_SIZE

\* The slot isKnownRoot looks at in its i-th iteration: backwards, wrapping.
SlotBack(t, i) == (t.currentRootIndex - i) % ROOT_HISTORY_SIZE

\* Mutants of IsKnownRoot: the walk stops one slot early; only the current
\* root is compared.
IsKnownRootShortWalk(t, root) ==
  /\ root # ZERO
  /\ \E i \in 0 .. ROOT_HISTORY_SIZE - 2 : t.roots[SlotBack(t, i)] = root
IsKnownRootCurrent(t, root) == t.roots[t.currentRootIndex] = root

IsKnownRoot(t, root) ==
  /\ root # ZERO
  /\ \E i \in Slots : t.roots[SlotBack(t, i)] = root

GetLastRoot(t) == t.roots[t.currentRootIndex]

\* The storage the constructor leaves, and no event.
EmptyTree ==
  [nextIndex        |-> 0,
   filledSubtrees   |-> [level \in Levels |-> Zeros[level]],
   roots            |-> [slot \in Slots |-> IF slot = 0 THEN Zeros[TREE_DEPTH] ELSE ZERO],
   currentRootIndex |-> 0,
   log              |-> << >>]

\* Mutant of HasRoom: one leaf too many is let in.
HasRoomOffByOne(t, n) == t.nextIndex + n <= MAX_LEAVES + 1

\* n more leaves fit: the require of each of n calls of _insert.
HasRoom(t, n) == t.nextIndex + n <= MAX_LEAVES

\* The tree after _insert(leaf), whose LeafInserted event ends the log.
Inserted(t, leaf) ==
  LET path == PathHashes(leaf, t.nextIndex, t.filledSubtrees)
      root == path[TREE_DEPTH]
      slot == NextSlot(t.currentRootIndex)
  IN  [nextIndex        |-> t.nextIndex + 1,
       filledSubtrees   |-> StoreLeft(t.filledSubtrees, t.nextIndex, path),
       roots            |-> [t.roots EXCEPT ![slot] = root],
       currentRootIndex |-> slot,
       log              |-> Append(t.log, [leaf |-> leaf, leafIndex |-> t.nextIndex, newRoot |-> root])]

TreeInit == tree = EmptyTree

Insert(leaf) ==
  /\ HasRoom(tree, 1)
  /\ tree' = Inserted(tree, leaf)

TreeNext == \E leaf \in Leaves : Insert(leaf)

TreeSpec == TreeInit /\ [][TreeNext]_tree

-------------------------------------------------------------------------------
(* What is checked *)

\* The leaves inserted so far, in order, as the events tell them.
LeavesOf(t) == [i \in 1 .. Len(t.log) |-> t.log[i].leaf]

\* Reference root: hash a full tree of 2^TREE_DEPTH leaves level by level, the
\* leaves that were never inserted being ZERO.
ReferenceRoot(leaves) ==
  LET level[l \in 0 .. TREE_DEPTH] ==
        IF l = 0
        THEN [k \in 0 .. MAX_LEAVES - 1 |-> IF k < Len(leaves) THEN leaves[k + 1] ELSE ZERO]
        ELSE LET below == level[l - 1]
             IN  [k \in 0 .. 2 ^ (TREE_DEPTH - l) - 1 |-> HashPair(below[2 * k], below[2 * k + 1])]
  IN  level[TREE_DEPTH][0]

\* The root after k insertions.
RootAfter(t, k) == IF k = 0 THEN Zeros[TREE_DEPTH] ELSE t.log[k].newRoot

\* The versions whose root the ring still holds.
RecentVersions(t) == { k \in 0 .. t.nextIndex : k > t.nextIndex - ROOT_HISTORY_SIZE }

\* Type correctness of the contract's storage and of its event log.
TreeTypeOK ==
  /\ tree.nextIndex \in Nat
  /\ tree.currentRootIndex \in Slots
  /\ DOMAIN tree.filledSubtrees = Levels
  /\ DOMAIN tree.roots = Slots
  /\ Len(tree.log) = tree.nextIndex
  /\ \A i \in 1 .. Len(tree.log) : tree.log[i].leafIndex = i - 1

\* The root the constant-size cache yields is the root of the whole tree
\* rebuilt from the events (_insert against a from-scratch computation).
RootIsReference == GetLastRoot(tree) = ReferenceRoot(LeavesOf(tree))

\* The ring is exactly the recent roots: slot k mod H holds the root of
\* version k for each recent k, and a slot never written still holds zero.
RingHoldsRecentRoots ==
  /\ tree.currentRootIndex = tree.nextIndex % ROOT_HISTORY_SIZE
  /\ \A k \in RecentVersions(tree) : tree.roots[k % ROOT_HISTORY_SIZE] = RootAfter(tree, k)
  /\ \A slot \in Slots : slot > tree.nextIndex => tree.roots[slot] = ZERO

\* Only zero leaves tell two versions of the tree apart.
SameLeaves(t, j, k) ==
  \A i \in 1 .. t.nextIndex : (j < i /\ i <= k) \/ (k < i /\ i <= j) => t.log[i].leaf = ZERO

\* A root a client proved against names one set of leaves: no root is zero, and
\* two versions of the tree share theirs exactly when all that was inserted
\* between them is bytes32(0), which deposit and _insert accept like any other
\* leaf and which leaves the root as it is (_insert and its full-tree check).
RootsIdentifyLeaves ==
  /\ \A k \in 0 .. tree.nextIndex : RootAfter(tree, k) # ZERO
  /\ \A j, k \in 0 .. tree.nextIndex :
       RootAfter(tree, j) = RootAfter(tree, k) <=> SameLeaves(tree, j, k)

\* isKnownRoot accepts a root that was ever current if and only if one of the
\* last ROOT_HISTORY_SIZE versions has those leaves: a proof expires after that
\* many insertions, or later if zero leaves bring its root up again, and never
\* earlier.
KnownIffRecent ==
  \A k \in 0 .. tree.nextIndex :
    IsKnownRoot(tree, RootAfter(tree, k)) <=> \E j \in RecentVersions(tree) : SameLeaves(tree, j, k)

\* The versions a client may prove against, each the leaves its root stands for.
KnownVersions(t) ==
  { [i \in 1 .. MAX_LEAVES |-> IF i <= k THEN t.log[i].leaf ELSE ZERO] :
      k \in { n \in 0 .. Len(t.log) : IsKnownRoot(t, ReferenceRoot(SubSeq(LeavesOf(t), 1, n))) } }

\* The contract implements the append-only log with a window of recent
\* versions, a root being accepted exactly when its version is in the window.
Abstract == INSTANCE RootWindow WITH leaves <- LeavesOf(tree), window <- KnownVersions(tree)

ImplementsRootWindow == Abstract!WSpec
===============================================================================
