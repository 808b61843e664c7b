------------------------------ MODULE CoreMerkle ------------------------------
(***************************************************************************)
(* sp1-programs/lib/deplob-core/src/merkle.rs: the copy of the tree that   *)
(* clients rebuild from the contract's events, and the Merkle proofs that  *)
(* clients make with it and that the server and the withdrawal circuit     *)
(* check.  The library keeps every leaf; otherwise it repeats the contract.*)
(*                                                                         *)
(* A tree is a record and the library has no state of its own: what is     *)
(* checked is checked of the copy of every tree the contract can reach.    *)
(***************************************************************************)
EXTENDS MerkleTreeWithHistory, SequencesExt

NewTree ==
  [leaves         |-> << >>,
   filledSubtrees |-> [level \in Levels |-> Zeros[level]],
   root           |-> HashPair(Zeros[TREE_DEPTH - 1], Zeros[TREE_DEPTH - 1])]

\* The loop of insert: the hash, the index and the cache after each level.
InsertLoop(leaf, index, filled) ==
  LET after[level \in 0 .. TREE_DEPTH] ==
        IF level = 0
        THEN [hash |-> leaf, index |-> index, filled |-> filled]
        ELSE LET before == after[level - 1]
             IN  IF before.index % 2 = 0
                 THEN [hash   |-> HashPair(before.hash, Zeros[level - 1]),
                       index  |-> before.index \div 2,
                       filled |-> [before.filled EXCEPT ![level - 1] = before.hash]]
                 ELSE [hash   |-> HashPair(before.filled[level - 1], before.hash),
                       index  |-> before.index \div 2,
                       filled |-> before.filled]
  IN  after[TREE_DEPTH]

\* Mutant of TreeInsert: the cache is not written back.
TreeInsertForgetful(t, leaf) ==
  [leaves |-> Append(t.leaves, leaf), filledSubtrees |-> t.filledSubtrees,
   root |-> InsertLoop(leaf, Len(t.leaves), t.filledSubtrees).hash]

\* insert; next_index is the number of leaves.
TreeInsert(t, leaf) ==
  LET end == InsertLoop(leaf, Len(t.leaves), t.filledSubtrees)
  IN  [leaves |-> Append(t.leaves, leaf), filledSubtrees |-> end.filled, root |-> end.hash]

\* A leaf's sibling or uncle on a level, the zero hash where there is none yet.
NodeOrZero(nodes, index, level) == IF index < Len(nodes) THEN nodes[index + 1] ELSE Zeros[level]

SiblingIndex(index) == IF index % 2 = 0 THEN index + 1 ELSE index - 1

\* Mutant of ProofOf: the sibling is looked for on the right only.
ProofOfRightSibling(t, index) ==
  LET nodes[level \in 0 .. TREE_DEPTH] ==
        IF level = 0 THEN t.leaves
        ELSE LET below == nodes[level - 1]
             IN  [k \in 1 .. (Len(below) + 1) \div 2 |->
                    HashPair(below[2 * k - 1], NodeOrZero(below, 2 * k - 1, level - 1))]
  IN  [siblings    |-> [level \in Levels |-> NodeOrZero(nodes[level], index \div 2 ^ level + 1, level)],
       pathIndices |-> [level \in Levels |-> (index \div 2 ^ level) % 2]]

\* proof: all nodes level by level, and of each level the one next to the path.
ProofOf(t, index) ==
  LET nodes[level \in 0 .. TREE_DEPTH] ==
        IF level = 0 THEN t.leaves
        ELSE LET below == nodes[level - 1]
             IN  [k \in 1 .. (Len(below) + 1) \div 2 |->
                    HashPair(below[2 * k - 1], NodeOrZero(below, 2 * k - 1, level - 1))]
  IN  [siblings    |-> [level \in Levels |->
                          NodeOrZero(nodes[level], SiblingIndex(index \div 2 ^ level), level)],
       pathIndices |-> [level \in Levels |-> (index \div 2 ^ level) % 2]]

\* Mutant of ComputeRoot: the path is ignored.
ComputeRootLeftmost(proof, leaf) ==
  LET h[level \in 0 .. TREE_DEPTH] ==
        IF level = 0 THEN leaf ELSE HashPair(h[level - 1], proof.siblings[level - 1])
  IN  h[TREE_DEPTH]

\* compute_root: what the withdrawal circuit and the server compare with the
\* root.  Neither looks at the index of the leaf.
ComputeRoot(proof, leaf) ==
  LET h[level \in 0 .. TREE_DEPTH] ==
        CASE level = 0 -> leaf
          [] level > 0 /\ proof.pathIndices[level - 1] = 0 ->
               HashPair(h[level - 1], proof.siblings[level - 1])
          [] OTHER -> HashPair(proof.siblings[level - 1], h[level - 1])
  IN  h[TREE_DEPTH]

Verify(proof, leaf, root) == ComputeRoot(proof, leaf) = root

\* A tree rebuilt from a sequence of leaves.
TreeOf(leaves) == FoldLeft(TreeInsert, NewTree, leaves)

-------------------------------------------------------------------------------
(* What is checked, of the copy a client makes of the contract's tree *)

Copy == TreeOf(LeavesOf(tree))

\* A copy rebuilt from the events has the contract's root: the two
\* implementations of the incremental tree, in Solidity and in Rust, agree.
CopyHasContractRoot == Copy.root = GetLastRoot(tree)

\* The proof made for a position verifies for the leaf there, and for no other.
ProofsIdentifyLeaves ==
  \A index \in 0 .. Len(Copy.leaves) - 1, leaf \in Leaves :
    Verify(ProofOf(Copy, index), leaf, GetLastRoot(tree)) <=> leaf = Copy.leaves[index + 1]

\* The hashes below a node, the node included; a leaf or ZERO has none below.
NodesAt(root) ==
  LET at[level \in 0 .. TREE_DEPTH] ==
        IF level = TREE_DEPTH THEN {root}
        ELSE UNION { {node[1], node[2]} : node \in at[level + 1] }
  IN  at

\* The position of the leaf a path leads down to.
PositionOf(path) == FoldSet(LAMBDA level, sum : sum + path[level] * 2 ^ level, 0, Levels)

\* No proof can be put together, of any nodes of the tree and any path, that
\* makes a commitment look inserted that was not, or inserted elsewhere, but for
\* bytes32(0), which every place not filled yet proves: the circuit may leave
\* the index of the leaf out of its public values.
NoProofOfAbsentLeaf ==
  LET at      == NodesAt(GetLastRoot(tree))
      paths   == [Levels -> {0, 1}]
      choices == { f \in [Levels -> UNION { at[level] : level \in Levels }] :
                     \A level \in Levels : f[level] \in at[level] }
  IN  \A leaf \in Leaves, path \in paths, siblings \in choices :
        LET index == PositionOf(path)
        IN  Verify([siblings |-> siblings, pathIndices |-> path], leaf, GetLastRoot(tree)) =>
              leaf = IF index < tree.nextIndex THEN LeavesOf(tree)[index + 1] ELSE ZERO
===============================================================================
