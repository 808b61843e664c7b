------------------------------ MODULE RootWindow ------------------------------
(***************************************************************************)
(* What MerkleTreeWithHistory.sol promises its callers: leaves are only    *)
(* ever appended, and the roots a proof may be made against are those of   *)
(* the last ROOT_HISTORY_SIZE versions of the leaf sequence, no more and   *)
(* no fewer.  A root stands here for what it commits to: the leaf sequence *)
(* filled up to the size of the tree with the zero leaf, which may also be *)
(* inserted and is then not to be told from a place not filled yet.        *)
(***************************************************************************)
EXTENDS Integers, Sequences

CONSTANTS Leaves,              \* the commitments that may be inserted
          ROOT_HISTORY_SIZE,
          MAX_LEAVES,
          ZERO

VARIABLES leaves,              \* every leaf inserted so far, in order
          window               \* the versions of leaves whose root is accepted

wvars == <<leaves, window>>

\* What a root over the first k leaves of s commits to.
Version(s, k) == [i \in 1 .. MAX_LEAVES |-> IF i <= k THEN s[i] ELSE ZERO]

\* The last ROOT_HISTORY_SIZE versions of the sequence s.
LastVersions(s) ==
  { Version(s, k) : k \in { n \in 0 .. Len(s) : n > Len(s) - ROOT_HISTORY_SIZE } }

WInit == leaves = << >> /\ window = LastVersions(leaves)

WInsert(leaf) ==
  /\ Len(leaves) < MAX_LEAVES
  /\ leaves' = Append(leaves, leaf)
  /\ window' = LastVersions(leaves')

WNext == \E leaf \in Leaves : WInsert(leaf)

WSpec == WInit /\ [][WNext]_wvars
===============================================================================
