------------------------------- MODULE PoolProofs -------------------------------
(***************************************************************************)
(* Proofs about DePLOB for trees of any depth, any tokens, amounts and     *)
(* supply.  A pool that holds what its notes claim is solvent, keeps every *)
(* unspent note payable and takes only steps of the shielded pool when it  *)
(* is called as its callers should: the lemmas that the proofs about the   *)
(* server, the enclave and the clients rest on.  Under callers who deposit *)
(* and settle anything at all, it is PoolCallers' open pool.               *)
(***************************************************************************)
EXTENDS PoolCallers, MerkleTreeProofs

\* Notes the contract can hold, and the leaves of a tree.
NoteSet == [nn : Nat, token : Tokens, amount : Nat \ {0}]

\* The folds of PoolHolding.
TreeFold == INSTANCE LeftFolds WITH Op <- Inserted
FundsFold == INSTANCE LeftFolds WITH Op <- Credited

LeavesIn(t) == { t.log[i].leaf : i \in 1 .. Len(t.log) }

\* A tree of notes with different secrets.
TreeOfNotes(t) ==
  /\ RingOK(t)
  /\ \A i \in 1 .. t.nextIndex : t.log[i].leaf \in NoteSet /\ t.log[i].newRoot # ZERO
  /\ \A i, j \in 1 .. t.nextIndex : t.log[i].leaf.nn = t.log[j].leaf.nn => i = j

\* The inductive invariant.  Secrets being those of one leaf only is what makes
\* a nullifier spend one note; that only leaves' nullifiers are spent is what
\* makes a fresh note unspent.
PoolInv ==
  /\ TreeOfNotes(tree)
  /\ tree.nextIndex <= MAX_LEAVES
  /\ commitments = LeafSet
  /\ nullifierHashes \subseteq { Nullifier(note) : note \in LeafSet }
  /\ vault \in [Tokens -> 0 .. Supply]
  /\ Solvent

-------------------------------------------------------------------------------
(* Lemmas about trees and claims *)

\* What an insertion adds to the log.
LEMMA LogOfInserted ==
  ASSUME NEW t, RingOK(t), NEW leaf, NEW u, u = Inserted(t, leaf)
  PROVE  /\ t.nextIndex \in Nat /\ Len(t.log) = t.nextIndex
         /\ u.nextIndex = t.nextIndex + 1 /\ Len(u.log) = t.nextIndex + 1
         /\ \A i \in 1 .. t.nextIndex : u.log[i] = t.log[i]
         /\ u.log[t.nextIndex + 1].leaf = leaf
         /\ u.log[t.nextIndex + 1].newRoot # ZERO
<1> DEFINE root == PathHashes(leaf, t.nextIndex, t.filledSubtrees)[TREE_DEPTH]
           event == [leaf |-> leaf, leafIndex |-> t.nextIndex, newRoot |-> root]
<1>1. u.nextIndex = t.nextIndex + 1 /\ u.log = Append(t.log, event)
  BY InsertedFields
<1>2. root # ZERO
  BY NewRootIsNoZero
<1>3. event.leaf = leaf /\ event.newRoot # ZERO
  BY <1>2
<1>4. t.nextIndex \in Nat /\ Len(t.log) = t.nextIndex
  BY DEF RingOK
<1>5. PICK S : t.log \in Seq(S)
  BY DEF RingOK
<1> HIDE DEF event
<1>6. t.log \in Seq(S \cup {event}) /\ event \in S \cup {event}
  BY <1>5
<1>7. /\ Len(u.log) = t.nextIndex + 1
      /\ \A i \in 1 .. t.nextIndex : u.log[i] = t.log[i]
      /\ u.log[t.nextIndex + 1] = event
  BY <1>1, <1>4, <1>6
<1>8. QED
  BY <1>1, <1>3, <1>4, <1>7

\* An insertion of a note with fresh secrets.
LEMMA FreshInserted ==
  ASSUME NEW t, TreeOfNotes(t), NEW note \in NoteSet,
         \A leaf \in LeavesIn(t) : leaf.nn # note.nn,
         NEW u, u = Inserted(t, note)
  PROVE  /\ TreeOfNotes(u)
         /\ LeavesIn(u) = LeavesIn(t) \cup {note}
         /\ note \notin LeavesIn(t)
<1> DEFINE n == t.nextIndex
<1>1. /\ n \in Nat /\ Len(t.log) = n
      /\ u.nextIndex = n + 1 /\ Len(u.log) = n + 1
      /\ \A i \in 1 .. n : u.log[i] = t.log[i]
      /\ u.log[n + 1].leaf = note /\ u.log[n + 1].newRoot # ZERO
  BY LogOfInserted DEF TreeOfNotes
<1>2. /\ \A i \in 1 .. n : t.log[i].leaf \in NoteSet /\ t.log[i].newRoot # ZERO
      /\ \A i, j \in 1 .. n : t.log[i].leaf.nn = t.log[j].leaf.nn => i = j
      /\ \A i \in 1 .. n : t.log[i].leaf.nn # note.nn
  BY <1>1 DEF TreeOfNotes, LeavesIn
<1>3. RingOK(u)
  BY RingOKInserted DEF TreeOfNotes
<1> HIDE DEF n
<1>4. \A i \in 1 .. n + 1 : i # n + 1 => i \in 1 .. n
  BY <1>1
<1>5. \A i \in 1 .. n + 1 : u.log[i].leaf \in NoteSet /\ u.log[i].newRoot # ZERO
  BY <1>1, <1>2, <1>4
<1>6. \A i, j \in 1 .. n + 1 : u.log[i].leaf.nn = u.log[j].leaf.nn => i = j
  BY <1>1, <1>2, <1>4
<1>7. LeavesIn(u) = LeavesIn(t) \cup {note}
  <2>1. n + 1 \in 1 .. n + 1 /\ 1 .. n \subseteq 1 .. n + 1
    BY <1>1
  <2>2. QED
    BY <1>1, <1>4, <2>1 DEF LeavesIn
<1>8. QED
  BY <1>1, <1>3, <1>5, <1>6, <1>7 DEF TreeOfNotes

\* The leaves are finitely many notes, one for each index, with secrets of
\* their own.
LEMMA LeavesAreNotes ==
  ASSUME NEW t, TreeOfNotes(t)
  PROVE  /\ LeavesIn(t) \subseteq NoteSet
         /\ IsFiniteSet(LeavesIn(t)) /\ Cardinality(LeavesIn(t)) = t.nextIndex
         /\ \A x, y \in LeavesIn(t) : x.nn = y.nn => x = y
<1> DEFINE n == t.nextIndex
           f == [i \in 1 .. n |-> t.log[i].leaf]
<1>1. n \in Nat /\ Len(t.log) = n
  BY DEF TreeOfNotes, RingOK
<1>2. f \in Surjection(1 .. n, LeavesIn(t))
  BY <1>1 DEF Surjection, LeavesIn
<1>3. f \in Injection(1 .. n, LeavesIn(t))
  BY <1>1 DEF Injection, IsInjective, LeavesIn, TreeOfNotes
<1>4. IsFiniteSet(1 .. n) /\ Cardinality(1 .. n) = n
  BY <1>1, FS_Interval
<1> HIDE DEF f, n
<1>5. IsFiniteSet(LeavesIn(t)) /\ Cardinality(LeavesIn(t)) = n
  BY <1>2, <1>3, <1>4, FS_Surjection
<1>6. QED
  BY <1>1, <1>5 DEF LeavesIn, TreeOfNotes, n

\* What a set of notes claims of a token, and how one note more or less counts.
ClaimOf(U, token) == AmountOf({ note \in U : note.token = token })

LEMMA ClaimAdded ==
  ASSUME NEW U, IsFiniteSet(U), U \subseteq NoteSet, NEW token, NEW x \in NoteSet, x \notin U
  PROVE  /\ ClaimOf(U, token) \in Nat
         /\ ClaimOf(U \cup {x}, token) = ClaimOf(U, token) + PoolView!Claim(x, token)
<1> DEFINE T == { note \in U : note.token = token }
<1>1. IsFiniteSet(T)
  BY FS_Subset
<1>2. \A note \in T : note.amount \in Nat
  BY DEF NoteSet
<1>3. x.amount \in Nat /\ x \notin T
  BY DEF NoteSet
<1>4. ClaimOf(U, token) = AmountOf(T)
  BY DEF ClaimOf
<1>5. AmountOf(T) \in Nat
  BY <1>1, <1>2, AmountRemoved
<1>6. CASE x.token = token
  <2>1. { note \in U \cup {x} : note.token = token } = T \cup {x}
    BY <1>6
  <2>2. PoolView!Claim(x, token) = x.amount
    BY <1>6 DEF PoolView!Claim
  <2>3. ClaimOf(U \cup {x}, token) = AmountOf(T \cup {x})
    BY <2>1 DEF ClaimOf
  <2> HIDE DEF T
  <2>4. AmountOf(T \cup {x}) = AmountOf(T) + x.amount
    BY <1>1, <1>2, <1>3, AmountAdded
  <2>5. QED
    BY <1>4, <1>5, <2>2, <2>3, <2>4
<1>7. CASE x.token # token
  <2>1. { note \in U \cup {x} : note.token = token } = T
    BY <1>7
  <2>2. PoolView!Claim(x, token) = 0
    BY <1>7 DEF PoolView!Claim
  <2>3. ClaimOf(U \cup {x}, token) = AmountOf(T)
    BY <2>1 DEF ClaimOf
  <2>4. QED
    BY <1>4, <1>5, <2>2, <2>3
<1>8. QED
  BY <1>6, <1>7

LEMMA ClaimRemoved ==
  ASSUME NEW U, IsFiniteSet(U), U \subseteq NoteSet, NEW token, NEW x \in U
  PROVE  /\ IsFiniteSet(U \ {x})
         /\ ClaimOf(U, token) = ClaimOf(U \ {x}, token) + PoolView!Claim(x, token)
         /\ ClaimOf(U \ {x}, token) \in Nat /\ ClaimOf(U, token) \in Nat
         /\ PoolView!Claim(x, token) \in Nat
<1> DEFINE W == U \ {x}
<1>1. IsFiniteSet(W)
  BY FS_RemoveElement
<1>2. W \subseteq NoteSet /\ x \in NoteSet /\ x \notin W /\ W \cup {x} = U
  OBVIOUS
<1>3. PoolView!Claim(x, token) \in Nat
  BY <1>2 DEF PoolView!Claim, NoteSet
<1> HIDE DEF W
<1>4. /\ ClaimOf(W, token) \in Nat
      /\ ClaimOf(W \cup {x}, token) = ClaimOf(W, token) + PoolView!Claim(x, token)
  BY <1>1, <1>2, ClaimAdded
<1>5. ClaimOf(U, token) = ClaimOf(W, token) + PoolView!Claim(x, token)
  BY <1>2, <1>4
<1>6. QED
  BY <1>1, <1>3, <1>4, <1>5 DEF W

LEMMA ClaimedIsClaim == \A token \in Tokens : Claimed(token) = ClaimOf(Unspent, token)
BY DEF Claimed, ClaimOf, AmountOf

LEMMA ClaimedIsClaimNext == (\A token \in Tokens : Claimed(token) = ClaimOf(Unspent, token))'
BY ClaimedIsClaim, PTL

LEMMA SolventMeans == Solvent <=> \A token \in Tokens : vault[token] >= ClaimOf(Unspent, token)
BY ClaimedIsClaim DEF Solvent

\* bytes32(0) is no note.
LEMMA ZeroIsNoNote == ZERO \notin NoteSet
<1>1. DOMAIN ZERO = {}
  BY DEF ZERO
<1>2. \A note \in NoteSet : DOMAIN note = {"nn", "token", "amount"}
  BY DEF NoteSet
<1>3. QED
  BY <1>1, <1>2

LEMMA UnspentNotes ==
  ASSUME PoolInv
  PROVE  /\ LeafSet = LeavesIn(tree) /\ LeafSet \subseteq NoteSet
         /\ \A x, y \in LeafSet : x.nn = y.nn => x = y
         /\ IsFiniteSet(Unspent) /\ Unspent \subseteq LeafSet
         /\ \A note \in Unspent : note \in NoteSet
         /\ Unspent = { note \in LeafSet : note.nn \notin nullifierHashes }
<1>1. LeafSet = LeavesIn(tree)
  BY DEF LeafSet, LeavesIn
<1>2. /\ LeafSet \subseteq NoteSet /\ IsFiniteSet(LeafSet)
      /\ \A x, y \in LeafSet : x.nn = y.nn => x = y
  BY <1>1, LeavesAreNotes DEF PoolInv
<1>3. Unspent \subseteq LeafSet
  BY DEF Unspent
<1>4. IsFiniteSet(Unspent)
  BY <1>2, <1>3, FS_Subset
<1>5. Unspent = { note \in LeafSet : note.nn \notin nullifierHashes }
  BY <1>2, ZeroIsNoNote DEF Unspent, Nullifier
<1>6. QED
  BY <1>1, <1>2, <1>3, <1>4, <1>5

-------------------------------------------------------------------------------
(* The operations *)

\* A deposit of a note with fresh secrets issues it.
LEMMA DepositIssues ==
  ASSUME PoolInv, NEW note \in NoteSet, \A leaf \in LeafSet : leaf.nn # note.nn, DepositNote(note)
  PROVE  PoolInv' /\ note \in Unspent' /\ PoolView!Issue(note)
<1> USE DEF Nullifier
<1>1. /\ vault[note.token] + note.amount <= Supply
      /\ vault' = [vault EXCEPT ![note.token] = @ + note.amount]
      /\ tree' = Inserted(tree, note)
      /\ commitments' = commitments \cup {note}
      /\ nullifierHashes' = nullifierHashes /\ admin' = admin
      /\ tree.nextIndex + 1 <= MAX_LEAVES
  BY DEF DepositNote, Deposit, DepositAccepted, HasRoom
<1>2. /\ LeafSet = LeavesIn(tree) /\ LeafSet \subseteq NoteSet
      /\ IsFiniteSet(Unspent) /\ Unspent \subseteq LeafSet
  BY UnspentNotes
<1>3. /\ TreeOfNotes(tree) /\ commitments = LeafSet
      /\ nullifierHashes \subseteq { leaf.nn : leaf \in LeafSet }
      /\ vault \in [Tokens -> 0 .. Supply] /\ Solvent
      /\ tree.nextIndex <= MAX_LEAVES
  BY DEF PoolInv
<1>4. LeafSet' = LeavesIn(tree')
  BY DEF LeafSet, LeavesIn
<1>5. /\ TreeOfNotes(tree') /\ LeafSet' = LeafSet \cup {note} /\ note \notin LeafSet
      /\ tree'.nextIndex = tree.nextIndex + 1
  BY <1>1, <1>2, <1>3, <1>4, FreshInserted, InsertedFields
<1>6. note.nn \notin nullifierHashes
  BY <1>3
<1>7. Unspent' = Unspent \cup {note} /\ note \notin Unspent
  <2>1. Unspent' = { leaf \in LeafSet' : leaf.nn \notin nullifierHashes' }
    BY <1>2, <1>5, ZeroIsNoNote DEF Unspent
  <2>2. Unspent = { leaf \in LeafSet : leaf.nn \notin nullifierHashes }
    BY UnspentNotes
  <2>3. QED
    BY <1>1, <1>5, <1>6, <2>1, <2>2
<1>8. note.token \in Tokens /\ note.amount \in Nat
  BY DEF NoteSet
<1>9. vault' \in [Tokens -> 0 .. Supply]
  BY <1>1, <1>3, <1>8, PoolAssumption
<1>10. Solvent'
  <2> SUFFICES ASSUME NEW token \in Tokens PROVE vault'[token] >= Claimed(token)'
    BY DEF Solvent
  <2>1. Claimed(token) = ClaimOf(Unspent, token) /\ Claimed(token)' = ClaimOf(Unspent', token)
    <3>1. Claimed(token) = ClaimOf(Unspent, token)
      BY ClaimedIsClaim
    <3>2. Claimed(token)' = ClaimOf(Unspent', token)
      BY ClaimedIsClaimNext
    <3>3. QED
      BY <3>1, <3>2
  <2>2. /\ ClaimOf(Unspent, token) \in Nat
        /\ ClaimOf(Unspent', token) = ClaimOf(Unspent, token) + PoolView!Claim(note, token)
    BY <1>2, <1>7, ClaimAdded
  <2>3. vault[token] \in Int /\ vault[token] >= ClaimOf(Unspent, token)
    BY <1>3, <2>1 DEF Solvent
  <2>4. vault'[token] = vault[token] + PoolView!Claim(note, token)
    BY <1>1, <1>3, <1>8, <2>3 DEF PoolView!Claim
  <2>5. PoolView!Claim(note, token) \in Nat
    BY <1>8 DEF PoolView!Claim
  <2>6. QED
    BY <2>1, <2>2, <2>3, <2>4, <2>5
<1>11. nullifierHashes' \subseteq { leaf.nn : leaf \in LeafSet' }
  BY <1>1, <1>3, <1>5
<1>12. PoolInv'
  BY <1>1, <1>3, <1>5, <1>9, <1>10, <1>11 DEF PoolInv
<1>13. PoolView!Issue(note)
  <2>1. { leaf.nn : leaf \in LeafSet' } = { leaf.nn : leaf \in LeafSet } \cup {note.nn}
    BY <1>5
  <2>2. note.nn \notin { leaf.nn : leaf \in LeafSet }
    OBVIOUS
  <2>3. QED
    BY <1>1, <1>7, <2>1, <2>2 DEF PoolView!Issue
<1>14. QED
  BY <1>7, <1>12, <1>13

\* A withdrawal pays the note: what the contract transfers is the amount of the
\* call, which its balance bounds by less than the modulus of the proved one.
LEMMA WithdrawPays ==
  ASSUME PoolInv, NEW note, NEW root, NEW amount \in Nat, Withdraw(note, root, amount)
  PROVE  PoolInv' /\ note \in Unspent /\ PoolView!Pay(note)
<1> USE DEF Nullifier
<1>1. /\ note.nn \notin nullifierHashes
      /\ ProofValid(note, note.nn, root, note.token, ProvedAmount(amount))
      /\ vault[note.token] >= amount
      /\ nullifierHashes' = nullifierHashes \cup {note.nn}
      /\ vault' = [vault EXCEPT ![note.token] = @ - amount]
      /\ tree' = tree /\ commitments' = commitments /\ admin' = admin
  BY DEF Withdraw, WithdrawAccepted
<1>2. /\ LeafSet = LeavesIn(tree) /\ LeafSet \subseteq NoteSet
      /\ \A x, y \in LeafSet : x.nn = y.nn => x = y
      /\ IsFiniteSet(Unspent) /\ Unspent \subseteq LeafSet
  BY UnspentNotes
<1>3. /\ TreeOfNotes(tree) /\ commitments = LeafSet
      /\ nullifierHashes \subseteq { leaf.nn : leaf \in LeafSet }
      /\ vault \in [Tokens -> 0 .. Supply] /\ Solvent
      /\ tree.nextIndex <= MAX_LEAVES
  BY DEF PoolInv
<1>4. note \in LeafSet /\ note \in NoteSet
  <2>1. tree.nextIndex \in Nat /\ Len(tree.log) = tree.nextIndex
    BY <1>3 DEF TreeOfNotes, RingOK
  <2>2. \E i \in 1 .. tree.nextIndex : tree.log[i].leaf = note
    BY <1>1, <2>1 DEF ProofValid
  <2>3. QED
    BY <1>2, <2>1, <2>2 DEF LeafSet
<1>5. note \in Unspent
  BY <1>1, <1>4, UnspentNotes
<1>6. note.token \in Tokens /\ note.amount \in Nat
  BY <1>4 DEF NoteSet
<1>7. amount = note.amount
  <2>1. amount % UINT128 = note.amount
    BY <1>1 DEF ProofValid, ProvedAmount
  <2>2. vault[note.token] \in 0 .. Supply
    BY <1>3, <1>6
  <2>3. UINT128 \in Nat \ {0} /\ amount \in 0 .. UINT128 - 1
    BY <1>1, <2>2, PoolAssumption
  <2>4. amount % UINT128 = amount
    BY <2>3, SmallSlot
  <2>5. QED
    BY <2>1, <2>4
<1>8. LeafSet' = LeafSet
  BY <1>1 DEF LeafSet
<1>9. Unspent' = Unspent \ {note}
  <2>1. Unspent' = { leaf \in LeafSet : leaf.nn \notin nullifierHashes' }
    BY <1>2, <1>8, ZeroIsNoNote DEF Unspent
  <2>2. Unspent = { leaf \in LeafSet : leaf.nn \notin nullifierHashes }
    BY UnspentNotes
  <2>3. QED
    BY <1>1, <1>2, <1>4, <2>1, <2>2
<1>10. vault' \in [Tokens -> 0 .. Supply]
  BY <1>1, <1>3, <1>6, <1>7, PoolAssumption
<1>11. Solvent'
  <2> SUFFICES ASSUME NEW token \in Tokens PROVE vault'[token] >= Claimed(token)'
    BY DEF Solvent
  <2>1. Claimed(token) = ClaimOf(Unspent, token)
    BY ClaimedIsClaim
  <2>2. Claimed(token)' = ClaimOf(Unspent', token)
    BY ClaimedIsClaimNext
  <2>3. /\ ClaimOf(Unspent, token) = ClaimOf(Unspent', token) + PoolView!Claim(note, token)
        /\ ClaimOf(Unspent', token) \in Nat /\ ClaimOf(Unspent, token) \in Nat
        /\ PoolView!Claim(note, token) \in Nat
    <3>1. Unspent \subseteq NoteSet
      BY <1>2
    <3>2. QED
      BY <1>2, <1>5, <1>9, <3>1, ClaimRemoved
  <2>4. vault[token] \in Int /\ vault[token] >= ClaimOf(Unspent, token)
    BY <1>3, <2>1 DEF Solvent
  <2>5. vault'[token] = vault[token] - PoolView!Claim(note, token)
    BY <1>1, <1>3, <1>6, <1>7, <2>4 DEF PoolView!Claim
  <2>6. QED
    BY <2>1, <2>2, <2>3, <2>4, <2>5
<1>12. nullifierHashes' \subseteq { leaf.nn : leaf \in LeafSet' }
  BY <1>1, <1>3, <1>4, <1>8
<1>13. PoolInv'
  BY <1>1, <1>3, <1>8, <1>10, <1>11, <1>12 DEF PoolInv
<1>14. PoolView!Pay(note)
  BY <1>1, <1>5, <1>7, <1>8, <1>9 DEF PoolView!Pay
<1>15. QED
  BY <1>5, <1>13, <1>14

\* A settlement of two different notes, by two fresh ones that claim no more,
\* exchanges them.
LEMMA SettleExchanges ==
  ASSUME PoolInv, NEW sender, NEW attestation,
         NEW buyer \in LeafSet, NEW seller \in LeafSet, buyer # seller,
         NEW new1 \in NoteSet, NEW new2 \in NoteSet, new1.nn # new2.nn,
         \A leaf \in LeafSet : leaf.nn # new1.nn /\ leaf.nn # new2.nn,
         \A token \in Tokens : PoolView!Claim(new1, token) + PoolView!Claim(new2, token)
                                 <= PoolView!Claim(buyer, token) + PoolView!Claim(seller, token),
         SettleMatch(sender, Settlement(Nullifier(buyer), Nullifier(seller), new1, new2), attestation)
  PROVE  /\ PoolInv'
         /\ buyer \in Unspent /\ seller \in Unspent
         /\ new1 \in Unspent' /\ new2 \in Unspent'
         /\ PoolView!Exchange(buyer, seller, new1, new2)
<1> USE DEF Nullifier
<1> DEFINE mid == Inserted(tree, new1)
<1>1. /\ buyer.nn \notin nullifierHashes /\ seller.nn \notin nullifierHashes
      /\ tree.nextIndex + 2 <= MAX_LEAVES
      /\ nullifierHashes' = nullifierHashes \cup {buyer.nn, seller.nn}
      /\ tree' = Inserted(mid, new2)
      /\ commitments' = commitments \cup {new1, new2}
      /\ vault' = vault /\ admin' = admin
  BY DEF SettleMatch, SettleAccepted, SpentBy, Settlement, HasRoom
<1>2. /\ LeafSet = LeavesIn(tree) /\ LeafSet \subseteq NoteSet
      /\ \A x, y \in LeafSet : x.nn = y.nn => x = y
      /\ IsFiniteSet(Unspent) /\ Unspent \subseteq LeafSet
  BY UnspentNotes
<1>3. /\ TreeOfNotes(tree) /\ commitments = LeafSet
      /\ nullifierHashes \subseteq { leaf.nn : leaf \in LeafSet }
      /\ vault \in [Tokens -> 0 .. Supply] /\ Solvent
  BY DEF PoolInv
<1>4. /\ TreeOfNotes(mid) /\ LeavesIn(mid) = LeafSet \cup {new1} /\ new1 \notin LeafSet
      /\ mid.nextIndex = tree.nextIndex + 1
  BY <1>2, <1>3, FreshInserted, InsertedFields
<1> HIDE DEF mid
<1>5. /\ TreeOfNotes(tree') /\ LeavesIn(tree') = LeavesIn(mid) \cup {new2} /\ new2 \notin LeavesIn(mid)
      /\ tree'.nextIndex = mid.nextIndex + 1
  <2>1. \A leaf \in LeavesIn(mid) : leaf.nn # new2.nn
    BY <1>4
  <2>2. QED
    BY <1>1, <1>4, <2>1, FreshInserted, InsertedFields
<1>6. LeafSet' = LeafSet \cup {new1, new2}
  <2>1. LeafSet' = LeavesIn(tree')
    BY DEF LeafSet, LeavesIn
  <2>2. QED
    BY <1>4, <1>5, <2>1
<1>7. tree'.nextIndex <= MAX_LEAVES
  <2>1. tree.nextIndex \in Nat /\ MAX_LEAVES \in Int
    BY <1>3, TreeAssumption DEF TreeOfNotes, RingOK, MAX_LEAVES
  <2>2. QED
    BY <1>1, <1>4, <1>5, <2>1
<1>8. buyer \in Unspent /\ seller \in Unspent /\ buyer.nn # seller.nn
  BY <1>1, <1>2, UnspentNotes
<1>9. /\ new1.nn \notin nullifierHashes' /\ new2.nn \notin nullifierHashes'
      /\ new1 \notin LeafSet /\ new2 \notin LeafSet
  BY <1>1, <1>3
<1>10. Unspent' = ((Unspent \ {buyer}) \ {seller}) \cup {new1, new2}
  <2>1. \A leaf \in LeafSet : leaf.nn \in {buyer.nn, seller.nn} <=> leaf \in {buyer, seller}
    BY <1>2
  <2>2. Unspent' = { leaf \in LeafSet \cup {new1, new2} : leaf.nn \notin nullifierHashes' }
    BY <1>2, <1>6, ZeroIsNoNote DEF Unspent
  <2>3. Unspent = { leaf \in LeafSet : leaf.nn \notin nullifierHashes }
    BY UnspentNotes
  <2>4. QED
    BY <1>1, <1>9, <2>1, <2>2, <2>3
<1>11. Solvent'
  <2> SUFFICES ASSUME NEW token \in Tokens PROVE vault'[token] >= Claimed(token)'
    BY DEF Solvent
  <2> DEFINE U1 == Unspent \ {buyer}
             U2 == U1 \ {seller}
             U3 == U2 \cup {new1}
             U4 == U3 \cup {new2}
             C(note) == PoolView!Claim(note, token)
  <2>1. Claimed(token) = ClaimOf(Unspent, token)
    BY ClaimedIsClaim
  <2>2. Claimed(token)' = ClaimOf(Unspent', token)
    BY ClaimedIsClaimNext
  <2>3. Unspent' = U4
    BY <1>10
  <2>4. Unspent \subseteq NoteSet /\ U1 \subseteq NoteSet /\ U2 \subseteq NoteSet /\ U3 \subseteq NoteSet
    BY <1>2
  <2>5. seller \in U1 /\ new1 \notin U2 /\ new2 \notin U3
    <3>1. new2 # new1
      OBVIOUS
    <3>2. QED
      BY <1>2, <1>8, <1>9, <3>1
  <2>6. /\ IsFiniteSet(U1)
        /\ ClaimOf(Unspent, token) = ClaimOf(U1, token) + C(buyer)
        /\ ClaimOf(Unspent, token) \in Nat /\ C(buyer) \in Nat
    BY <1>2, <1>8, <2>4, ClaimRemoved
  <2> HIDE DEF U1
  <2>7. /\ IsFiniteSet(U2)
        /\ ClaimOf(U1, token) = ClaimOf(U2, token) + C(seller)
        /\ C(seller) \in Nat
    BY <2>4, <2>5, <2>6, ClaimRemoved
  <2> HIDE DEF U2
  <2>8. IsFiniteSet(U3)
    BY <2>7, FS_AddElement
  <2>9. /\ ClaimOf(U2, token) \in Nat
        /\ ClaimOf(U3, token) = ClaimOf(U2, token) + C(new1)
    BY <2>4, <2>5, <2>7, ClaimAdded
  <2> HIDE DEF U3
  <2>10. ClaimOf(U4, token) = ClaimOf(U3, token) + C(new2)
    BY <2>4, <2>5, <2>8, ClaimAdded
  <2>11. C(new1) \in Nat /\ C(new2) \in Nat
    BY DEF PoolView!Claim, NoteSet
  <2>12. C(new1) + C(new2) <= C(buyer) + C(seller)
    OBVIOUS
  <2> HIDE DEF U4, C
  <2>13. vault[token] \in Int /\ vault[token] >= ClaimOf(Unspent, token)
    BY <1>3, <2>1 DEF Solvent
  <2>14. ClaimOf(U4, token) <= ClaimOf(Unspent, token) /\ ClaimOf(U4, token) \in Nat
    BY <2>6, <2>7, <2>9, <2>10, <2>11, <2>12
  <2>15. QED
    BY <1>1, <2>2, <2>3, <2>6, <2>13, <2>14
<1>12. nullifierHashes' \subseteq { leaf.nn : leaf \in LeafSet' }
  BY <1>1, <1>3, <1>6
<1>13. PoolInv'
  BY <1>1, <1>3, <1>5, <1>6, <1>7, <1>11, <1>12 DEF PoolInv
<1>14. new1 \in Unspent' /\ new2 \in Unspent'
  BY <1>10
<1>15. PoolView!Exchange(buyer, seller, new1, new2)
  <2>1. Unspent' = (Unspent \ {buyer, seller}) \cup {new1, new2}
    BY <1>10
  <2>2. { leaf.nn : leaf \in LeafSet' } = { leaf.nn : leaf \in LeafSet } \cup {new1.nn, new2.nn}
    BY <1>6
  <2>3. {new1.nn, new2.nn} \cap { leaf.nn : leaf \in LeafSet } = {}
    OBVIOUS
  <2>4. vault' = vault
    BY <1>1
  <2>5. QED
    BY <1>8, <2>1, <2>2, <2>3, <2>4 DEF PoolView!Exchange
<1>16. QED
  BY <1>8, <1>13, <1>14, <1>15

\* A step that leaves the contract alone leaves the shielded pool alone.
LEMMA PoolUnchanged ==
  ASSUME PoolInv, UNCHANGED poolVars
  PROVE  PoolInv' /\ LeafSet' = LeafSet /\ UNCHANGED PoolView!spvars
<1>1. (Solvent <=> \A token \in Tokens : vault[token] >= ClaimOf(Unspent, token))'
  BY SolventMeans, PTL
<1>2. Solvent <=> \A token \in Tokens : vault[token] >= ClaimOf(Unspent, token)
  BY SolventMeans
<1>3. LeafSet' = LeafSet /\ Unspent' = Unspent /\ vault' = vault
  BY DEF poolVars, LeafSet, Unspent
<1>4. Solvent'
  BY <1>1, <1>2, <1>3 DEF PoolInv
<1>5. PoolInv'
  BY <1>3, <1>4 DEF PoolInv, poolVars
<1>6. UNCHANGED PoolView!spvars
  BY <1>3 DEF PoolView!spvars
<1>7. QED
  BY <1>3, <1>5, <1>6

\* What two notes claim together, folded in any order.
LEMMA ClaimsOfTwo ==
  ASSUME NEW token, NEW x \in NoteSet, NEW y \in NoteSet, x # y
  PROVE  FoldSet(LAMBDA d, sum : sum + PoolView!Claim(d, token), 0, {x, y})
           = PoolView!Claim(x, token) + PoolView!Claim(y, token)
<1> DEFINE S == {x, y}
           w == [d \in S |-> PoolView!Claim(d, token)]
           ClaimSums(f) ==
             f = [s \in SUBSET S |->
                    IF s = {} THEN 0
                    ELSE LET d == CHOOSE d \in s : TRUE IN f[s \ {d}] + PoolView!Claim(d, token)]
           g == CHOOSE f : ClaimSums(f)
<1>1. FoldSet(LAMBDA d, sum : sum + PoolView!Claim(d, token), 0, {x, y}) = g[S]
  BY DEF FoldSet, MapThenFoldSet
<1>2. \A d \in S : w[d] = PoolView!Claim(d, token) /\ w[d] \in Nat
  BY DEF PoolView!Claim, NoteSet
<1>3. ASSUME NEW s \in SUBSET S, s # {}
      PROVE  w[CHOOSE d \in s : TRUE] = PoolView!Claim(CHOOSE d \in s : TRUE, token)
  BY <1>2, <1>3
<1> HIDE DEF w
<1>4. \A f : PartialSums(f, S, w) <=> ClaimSums(f)
  BY <1>3 DEF PartialSums
<1>5. IsFiniteSet({x}) /\ IsFiniteSet(S) /\ IsFiniteSet({})
  <2>1. IsFiniteSet({x})
    BY FS_Singleton
  <2>2. {x} \cup {y} = S
    OBVIOUS
  <2>3. QED
    BY <2>1, <2>2, FS_AddElement, FS_EmptySet
<1>6. PICK h : PartialSums(h, S, w) /\ Sum(w, S) = h[S]
  BY <1>5, SumIsPartialSum
<1>7. PartialSums(g, S, w)
  <2> HIDE DEF ClaimSums
  <2>1. ClaimSums(g)
    BY <1>4, <1>6
  <2>2. QED
    BY <1>4, <2>1
<1> HIDE DEF g
<1>8. g[S] = h[S]
  BY <1>5, <1>6, <1>7, PartialSumsAgree
<1>9. Sum(w, {}) = 0 /\ Sum(w, {x}) = Sum(w, {}) + w[x] /\ Sum(w, S) = Sum(w, {x}) + w[y]
  <2>1. w[x] \in Nat /\ w[y] \in Nat
    BY <1>2
  <2>2. Sum(w, {}) = 0
    BY SumOfEmpty
  <2>3. {} \cup {x} = {x} /\ {x} \cup {y} = S /\ x \notin {} /\ y \notin {x}
    OBVIOUS
  <2>4. Sum(w, {x}) = Sum(w, {}) + w[x]
    BY <1>5, <2>1, <2>3, SumAdded
  <2>5. Sum(w, S) = Sum(w, {x}) + w[y]
    <3>1. IsFiniteSet({x}) /\ (\A d \in {x} : w[d] \in Nat) /\ y \notin {x} /\ w[y] \in Nat
      BY <1>5, <2>1
    <3>2. Sum(w, {x} \cup {y}) = Sum(w, {x}) + w[y]
      BY ONLY <3>1, SumAdded
    <3>3. QED
      BY <2>3, <3>2
  <2>6. QED
    BY <2>2, <2>4, <2>5
<1>10. h[S] = PoolView!Claim(x, token) + PoolView!Claim(y, token)
  <2>1. /\ w[x] = PoolView!Claim(x, token) /\ w[y] = PoolView!Claim(y, token)
        /\ w[x] \in Nat /\ w[y] \in Nat
    BY <1>2
  <2>2. QED
    BY <1>6, <1>9, <2>1
<1>11. QED
  BY <1>1, <1>8, <1>10

-------------------------------------------------------------------------------
(* A pool after a sequence of deposits *)

LEMMA FoldsAreFolded ==
  \A deposits : /\ FoldLeft(Inserted, EmptyTree, deposits) = TreeFold!Folded(EmptyTree, deposits)
                /\ FundsOf(deposits) = FundsFold!Folded([token \in Tokens |-> 0], deposits)
BY DEF FundsOf, FoldLeft, MapThenFoldSet, Max,
       TreeFold!Folded, TreeFold!FoldLeft, TreeFold!MapThenFoldSet, TreeFold!Max,
       FundsFold!Folded, FundsFold!FoldLeft, FundsFold!MapThenFoldSet, FundsFold!Max

\* A pool without deposits is the empty tree and holds no funds.
LEMMA NothingFolded ==
  /\ FoldLeft(Inserted, EmptyTree, << >>) = EmptyTree
  /\ FundsOf(<< >>) = [token \in Tokens |-> 0]
<1>1. DOMAIN << >> = {}
  OBVIOUS
<1>2. TreeFold!Folded(EmptyTree, << >>) = EmptyTree
  BY <1>1, TreeFold!FoldOfEmpty
<1>3. FundsFold!Folded([token \in Tokens |-> 0], << >>) = [token \in Tokens |-> 0]
  BY <1>1, FundsFold!FoldOfEmpty
<1>4. QED
  BY <1>2, <1>3, FoldsAreFolded

FirstOf(deposits, k) == [i \in 1 .. k |-> deposits[i]]

\* The tree and the funds after the first k of a sequence of deposits.
TreeAt(deposits, k)  == TreeFold!Folded(EmptyTree, FirstOf(deposits, k))
FundsAt(deposits, k) == FundsFold!Folded([token \in Tokens |-> 0], FirstOf(deposits, k))

LEMMA OneDepositMore ==
  ASSUME NEW deposits, NEW k \in Nat
  PROVE  /\ TreeAt(deposits, 0) = EmptyTree
         /\ FundsAt(deposits, 0) = [token \in Tokens |-> 0]
         /\ TreeAt(deposits, k + 1) = Inserted(TreeAt(deposits, k), deposits[k + 1])
         /\ FundsAt(deposits, k + 1) = Credited(FundsAt(deposits, k), deposits[k + 1])
<1> DEFINE f == FirstOf(deposits, k)
           g == FirstOf(deposits, k + 1)
           z == FirstOf(deposits, 0)
<1>1. DOMAIN z = {}
  BY DEF FirstOf
<1>2. DOMAIN f = 1 .. k /\ DOMAIN g = 1 .. k + 1
  BY DEF FirstOf
<1>3. (\A i \in 1 .. k : g[i] = f[i]) /\ g[k + 1] = deposits[k + 1]
  BY DEF FirstOf
<1> HIDE DEF f, g, z
<1>4. TreeFold!Folded(EmptyTree, z) = EmptyTree
  BY <1>1, TreeFold!FoldOfEmpty
<1>5. FundsFold!Folded([token \in Tokens |-> 0], z) = [token \in Tokens |-> 0]
  BY <1>1, FundsFold!FoldOfEmpty
<1>6. TreeFold!Folded(EmptyTree, g) = Inserted(TreeFold!Folded(EmptyTree, f), g[k + 1])
  BY <1>2, <1>3, TreeFold!FoldOfLonger
<1>7. FundsFold!Folded([token \in Tokens |-> 0], g)
        = Credited(FundsFold!Folded([token \in Tokens |-> 0], f), g[k + 1])
  BY <1>2, <1>3, FundsFold!FoldOfLonger
<1>8. QED
  BY <1>3, <1>4, <1>5, <1>6, <1>7 DEF TreeAt, FundsAt, f, g, z

\* A tree of k notes, whose claims are what the pool holds.
BackedTree(t, v, k) ==
  /\ TreeOfNotes(t) /\ t.nextIndex = k
  /\ v \in [Tokens -> Nat]
  /\ \A token \in Tokens : v[token] = ClaimOf(LeavesIn(t), token)

LEMMA DepositBacked ==
  ASSUME NEW t, NEW v, NEW k \in Nat, BackedTree(t, v, k), NEW note \in NoteSet,
         \A leaf \in LeavesIn(t) : leaf.nn # note.nn,
         NEW u, u = Inserted(t, note), NEW w, w = Credited(v, note)
  PROVE  BackedTree(u, w, k + 1) /\ LeavesIn(u) = LeavesIn(t) \cup {note}
<1>1. /\ TreeOfNotes(t) /\ t.nextIndex = k /\ v \in [Tokens -> Nat] /\ RingOK(t)
      /\ \A token \in Tokens : v[token] = ClaimOf(LeavesIn(t), token)
  BY DEF BackedTree, TreeOfNotes
<1>2. TreeOfNotes(u) /\ LeavesIn(u) = LeavesIn(t) \cup {note} /\ note \notin LeavesIn(t)
  BY <1>1, FreshInserted
<1>3. u.nextIndex = k + 1
  BY <1>1, LogOfInserted
<1>4. LeavesIn(t) \subseteq NoteSet /\ IsFiniteSet(LeavesIn(t))
  BY <1>1, LeavesAreNotes
<1>5. note.token \in Tokens /\ note.amount \in Nat
  BY DEF NoteSet
<1>6. w \in [Tokens -> Nat] /\ w[note.token] = v[note.token] + note.amount
      /\ \A token \in Tokens : token # note.token => w[token] = v[token]
  BY <1>1, <1>5 DEF Credited
<1>7. ASSUME NEW token \in Tokens
      PROVE  w[token] = ClaimOf(LeavesIn(u), token)
  <2>1. ClaimOf(LeavesIn(t) \cup {note}, token) = ClaimOf(LeavesIn(t), token) + PoolView!Claim(note, token)
        /\ ClaimOf(LeavesIn(t), token) \in Nat
    BY <1>2, <1>4, ClaimAdded
  <2>2. w[token] = v[token] + PoolView!Claim(note, token)
    BY <1>1, <1>5, <1>6 DEF PoolView!Claim
  <2>3. QED
    BY <1>1, <1>2, <2>1, <2>2
<1>8. QED
  BY <1>2, <1>3, <1>6, <1>7 DEF BackedTree

\* A pool with deposits of different secrets, none of a token more than there
\* is, is as sound as an empty one.
LEMMA PoolHoldsDeposits ==
  ASSUME NEW deposits \in Seq(NoteSet), Len(deposits) <= MAX_LEAVES,
         \A i, j \in 1 .. Len(deposits) : deposits[i].nn = deposits[j].nn => i = j,
         \A token \in Tokens : FundsOf(deposits)[token] <= Supply,
         PoolHolding(deposits)
  PROVE  PoolInv /\ LeafSet = ToSet(deposits) /\ tree.nextIndex = Len(deposits)
<1> DEFINE n == Len(deposits)
           Held(k) == { deposits[i] : i \in 1 .. k }
           Good(k) == k <= n => /\ BackedTree(TreeAt(deposits, k), FundsAt(deposits, k), k)
                                /\ LeavesIn(TreeAt(deposits, k)) = Held(k)
           T == { k \in Nat : Good(k) }
<1>1. n \in Nat /\ \A i \in 1 .. n : deposits[i] \in NoteSet
  OBVIOUS
<1>2. 0 \in T
  <2>1. TreeAt(deposits, 0) = EmptyTree /\ FundsAt(deposits, 0) = [token \in Tokens |-> 0]
    BY OneDepositMore
  <2>2. RingOK(EmptyTree) /\ EmptyTree.nextIndex = 0 /\ EmptyTree.log = << >>
    BY RingOKEmpty DEF EmptyTree
  <2>3. TreeOfNotes(EmptyTree)
    BY <2>2 DEF TreeOfNotes
  <2>4. LeavesIn(EmptyTree) = {} /\ Held(0) = {}
    BY <2>2 DEF LeavesIn
  <2>5. \A token \in Tokens : ClaimOf({}, token) = 0
    BY AmountOfEmpty DEF ClaimOf
  <2>6. BackedTree(EmptyTree, [token \in Tokens |-> 0], 0)
    BY <2>2, <2>3, <2>4, <2>5 DEF BackedTree
  <2>7. Good(0)
    BY <2>1, <2>4, <2>6
  <2>8. QED
    BY <2>7
<1>3. ASSUME NEW k \in Nat, k \in T PROVE k + 1 \in T
  <2>1. SUFFICES ASSUME k + 1 <= n PROVE Good(k + 1)
    OBVIOUS
  <2> DEFINE t == TreeAt(deposits, k)
             v == FundsAt(deposits, k)
             note == deposits[k + 1]
  <2>2. BackedTree(t, v, k) /\ LeavesIn(t) = Held(k)
    BY <1>1, <1>3, <2>1
  <2>3. note \in NoteSet /\ \A leaf \in Held(k) : leaf.nn # note.nn
    BY <1>1, <2>1
  <2>4. /\ TreeAt(deposits, k + 1) = Inserted(t, note)
        /\ FundsAt(deposits, k + 1) = Credited(v, note)
    BY OneDepositMore
  <2>5. Held(k + 1) = Held(k) \cup {note}
    BY <1>1, <2>1
  <2> HIDE DEF t, v, note, Held
  <2>6. BackedTree(TreeAt(deposits, k + 1), FundsAt(deposits, k + 1), k + 1)
        /\ LeavesIn(TreeAt(deposits, k + 1)) = LeavesIn(t) \cup {note}
    BY <2>2, <2>3, <2>4, DepositBacked
  <2>7. QED
    BY <2>2, <2>5, <2>6
<1>4. Good(n)
  <2>1. Nat \subseteq T
    <3> HIDE DEF T
    <3>1. QED
      BY <1>2, <1>3, SetInduction
  <2>2. QED
    BY <1>1, <2>1
<1>5. FirstOf(deposits, n) = deposits
  BY DEF FirstOf
<1>6. tree = TreeAt(deposits, n) /\ vault = FundsAt(deposits, n) /\ vault = FundsOf(deposits)
  BY <1>5, FoldsAreFolded DEF PoolHolding, TreeAt, FundsAt
<1>7. BackedTree(tree, vault, n) /\ LeavesIn(tree) = Held(n)
  BY <1>1, <1>4, <1>6
<1>8. nullifierHashes = {} /\ commitments = ToSet(deposits)
  BY DEF PoolHolding
<1>9. LeafSet = LeavesIn(tree) /\ ToSet(deposits) = Held(n)
  <2>1. DOMAIN deposits = 1 .. n
    OBVIOUS
  <2>2. QED
    BY <2>1 DEF LeafSet, LeavesIn, ToSet
<1>10. Unspent = LeafSet
  <2>1. LeafSet \subseteq NoteSet
    BY <1>1, <1>7, <1>9
  <2>2. QED
    BY <1>8, <2>1, ZeroIsNoNote DEF Unspent
<1> HIDE DEF Held
<1>11. Solvent
  <2>1. \A token \in Tokens : vault[token] = ClaimOf(Unspent, token) /\ vault[token] \in Nat
    BY <1>7, <1>9, <1>10 DEF BackedTree
  <2>2. QED
    BY <2>1, SolventMeans
<1>12. vault \in [Tokens -> 0 .. Supply]
  <2>1. vault \in [Tokens -> Nat] /\ \A token \in Tokens : vault[token] <= Supply
    BY <1>6, <1>7 DEF BackedTree
  <2>2. QED
    BY <2>1, PoolAssumption
<1>13. QED
  BY <1>7, <1>8, <1>9, <1>11, <1>12 DEF PoolInv, BackedTree

\* The current root is never zero, always known, and has every leaf under it.
LEMMA LastRootHolds ==
  ASSUME RingOK(tree), \A i \in 1 .. tree.nextIndex : tree.log[i].newRoot # ZERO, NEW leaf \in LeafSet
  PROVE  /\ IsKnownRoot(tree, GetLastRoot(tree))
         /\ \E k \in 1 .. tree.nextIndex :
              GetLastRoot(tree) = RootAfter(tree, k) /\ \E i \in 1 .. k : tree.log[i].leaf = leaf
<1> DEFINE n == tree.nextIndex
<1>1. RingInv
  BY DEF RingInv
<1>2. PICK i \in 1 .. n : tree.log[i].leaf = leaf
  BY DEF LeafSet, RingOK
<1>3. n \in 1 .. n
  BY <1>2 DEF RingOK
<1>4. GetLastRoot(tree) = RootAfter(tree, n) /\ RootAfter(tree, n) # ZERO
  <2>1. n \in RecentVersions(tree) /\ tree.currentRootIndex = n % ROOT_HISTORY_SIZE
    BY <1>3, TreeAssumption DEF RingOK, RecentVersions
  <2>2. tree.roots[n % ROOT_HISTORY_SIZE] = RootAfter(tree, n)
    BY <2>1 DEF RingOK
  <2>3. RootAfter(tree, n) = tree.log[n].newRoot
    BY <1>3 DEF RootAfter
  <2>4. QED
    BY <1>3, <2>1, <2>2, <2>3 DEF GetLastRoot
<1>5. IsKnownRoot(tree, GetLastRoot(tree))
  <2>1. 0 \in Slots /\ n - 0 = n /\ n >= 0
    BY <1>3, TreeAssumption DEF Slots
  <2>2. SlotBack(tree, 0) = n % ROOT_HISTORY_SIZE
    BY <1>1, <2>1, WalkedSlots
  <2>3. tree.currentRootIndex = n % ROOT_HISTORY_SIZE
    BY DEF RingOK
  <2>4. QED
    BY <1>4, <2>1, <2>2, <2>3 DEF IsKnownRoot, GetLastRoot
<1>6. QED
  BY <1>2, <1>3, <1>4, <1>5

\* In a pool that holds its invariant an unspent note can be withdrawn now
\* against the current root, which is never zero and always known.
LEMMA NoNoteStuck == ASSUME PoolInv PROVE UnspentNotesWithdrawable
<1> USE DEF Nullifier
<1> SUFFICES ASSUME NEW note \in Unspent, note.token \in admin.supportedTokens
             PROVE  /\ WithdrawAccepted(note, note.nn, GetLastRoot(tree), note.token, note.amount)
                    /\ vault[note.token] >= note.amount
  BY DEF UnspentNotesWithdrawable
<1>1. /\ note \in LeafSet /\ note \in NoteSet /\ IsFiniteSet(Unspent) /\ Unspent \subseteq NoteSet
      /\ note.nn \notin nullifierHashes
  BY UnspentNotes
<1>2. /\ TreeOfNotes(tree) /\ RingInv /\ vault \in [Tokens -> 0 .. Supply] /\ Solvent
  BY DEF PoolInv, TreeOfNotes, RingInv
<1>3. note.token \in Tokens /\ note.amount \in Nat
  BY <1>1 DEF NoteSet
<1>4. vault[note.token] >= note.amount /\ vault[note.token] \in 0 .. Supply
  <2>1. vault[note.token] >= ClaimOf(Unspent, note.token)
    BY <1>2, <1>3, ClaimedIsClaim DEF Solvent
  <2>2. /\ ClaimOf(Unspent, note.token) =
             ClaimOf(Unspent \ {note}, note.token) + PoolView!Claim(note, note.token)
        /\ ClaimOf(Unspent \ {note}, note.token) \in Nat
    BY <1>1, ClaimRemoved
  <2>3. PoolView!Claim(note, note.token) = note.amount
    BY DEF PoolView!Claim
  <2>4. QED
    BY <1>2, <1>3, <2>1, <2>2, <2>3
<1>5. ProvedAmount(note.amount) = note.amount
  <2>1. UINT128 \in Nat \ {0} /\ note.amount \in 0 .. UINT128 - 1
    BY <1>3, <1>4, PoolAssumption
  <2>2. QED
    BY <2>1, SmallSlot DEF ProvedAmount
<1>6. /\ IsKnownRoot(tree, GetLastRoot(tree))
      /\ \E k \in 1 .. tree.nextIndex :
           GetLastRoot(tree) = RootAfter(tree, k) /\ \E i \in 1 .. k : tree.log[i].leaf = note
  BY <1>1, <1>2, LastRootHolds DEF TreeOfNotes
<1>7. ProofValid(note, note.nn, GetLastRoot(tree), note.token, ProvedAmount(note.amount))
  BY <1>5, <1>6 DEF ProofValid
<1>8. QED
  BY <1>1, <1>4, <1>6, <1>7 DEF WithdrawAccepted

-------------------------------------------------------------------------------
(* The pool under any callers *)

\* A tree of any commitments, none of its roots zero.
TreeOfCommitments(t) ==
  /\ RingOK(t)
  /\ \A i \in 1 .. t.nextIndex : t.log[i].leaf \in Commitments /\ t.log[i].newRoot # ZERO

\* The inductive invariant under any callers: nothing is known of the secrets of
\* the notes, of which a depositor may repeat some, and the funds cover the
\* claims but for those that came in without.
CallersInv ==
  /\ TreeOfCommitments(tree)
  /\ tree.nextIndex <= MAX_LEAVES
  /\ commitments = LeafSet
  /\ vault \in [Tokens -> 0 .. Supply]
  /\ unbacked \in [Tokens -> Nat]
  /\ SolventButForUnbacked
  /\ admin = [Deployed EXCEPT !.supportedTokens = Tokens]

LEMMA ZeroIsNone == ZERO \notin Notes
<1>1. DOMAIN ZERO = {}
  BY DEF ZERO
<1>2. \A note \in Notes : DOMAIN note = {"nn", "token", "amount"}
  BY DEF Notes
<1>3. QED
  BY <1>1, <1>2

LEMMA NoteFields ==
  \A note \in Notes : /\ note.token \in Tokens /\ note.amount \in Nat \ {0}
                      /\ note.amount \in Amounts /\ note.amount < UINT128
BY PoolAssumption DEF Notes

\* A set of notes claims what two parts of it claim together.
LEMMA AmountSplit ==
  ASSUME NEW S, IsFiniteSet(S), \A note \in S : note.amount \in Nat, NEW B, B \subseteq S
  PROVE  /\ AmountOf(S) = AmountOf(S \ B) + AmountOf(B)
         /\ AmountOf(S \ B) \in Nat /\ AmountOf(B) \in Nat
<1>1. \A C \in SUBSET S : IsFiniteSet(C) /\ AmountOf(C) \in Nat
  <2> TAKE C \in SUBSET S
  <2>1. IsFiniteSet(C)
    BY FS_Subset
  <2>2. QED
    BY <2>1, AmountRemoved
<1> DEFINE Bad == { C \in SUBSET B : AmountOf(S) # AmountOf(S \ C) + AmountOf(C) }
<1>2. ASSUME B \in Bad PROVE FALSE
  <2>1. IsFiniteSet(B)
    BY <1>1
  <2>2. Bad \subseteq SUBSET B /\ Bad # {}
    BY <1>2
  <2>3. PICK U \in Bad : \A V \in Bad : V \subseteq U => V = U
    <3> HIDE DEF Bad
    <3>1. QED
      BY <2>1, <2>2, MinimalSubset
  <2>4. U \subseteq B /\ AmountOf(S) # AmountOf(S \ U) + AmountOf(U)
    BY <2>3
  <2>5. U # {}
    <3>1. SUFFICES ASSUME U = {} PROVE FALSE
      OBVIOUS
    <3>2. S \ U = S /\ AmountOf(U) = 0 /\ AmountOf(S) \in Nat
      BY <1>1, <3>1, AmountOfEmpty
    <3>3. QED
      BY <2>4, <3>2
  <2>6. PICK x \in U : TRUE
    BY <2>5
  <2> DEFINE V == U \ {x}
             W == S \ V
  <2>7. AmountOf(S) = AmountOf(W) + AmountOf(V)
    <3>1. V \subseteq U /\ V # U /\ V \in SUBSET B
      BY <2>4, <2>6
    <3>2. V \notin Bad
      BY <2>3, <3>1
    <3>3. QED
      BY <3>1, <3>2
  <2>8. U \in SUBSET S /\ W \in SUBSET S /\ V \in SUBSET S /\ x \in W /\ x \in S /\ W \ {x} = S \ U
    BY <2>4, <2>6
  <2> HIDE DEF Bad
  <2>9. AmountOf(U) = AmountOf(V) + x.amount
    <3>1. IsFiniteSet(U) /\ (\A note \in U : note.amount \in Nat) /\ x \in U
      BY <1>1, <2>8
    <3>2. QED
      BY <3>1, AmountRemoved
  <2>10. AmountOf(W) = AmountOf(S \ U) + x.amount
    <3>1. IsFiniteSet(W) /\ (\A note \in W : note.amount \in Nat) /\ x \in W
      BY <1>1, <2>8
    <3> HIDE DEF W
    <3>2. AmountOf(W) = AmountOf(W \ {x}) + x.amount
      BY <3>1, AmountRemoved
    <3>3. QED
      BY <2>8, <3>2
  <2>11. AmountOf(V) \in Nat /\ AmountOf(S \ U) \in Nat /\ x.amount \in Nat
    <3>1. S \ U \in SUBSET S
      OBVIOUS
    <3>2. QED
      BY <1>1, <2>8, <3>1
  <2>12. QED
    BY <2>4, <2>7, <2>9, <2>10, <2>11
<1>3. AmountOf(S) = AmountOf(S \ B) + AmountOf(B)
  BY <1>2
<1>4. S \ B \in SUBSET S /\ B \in SUBSET S
  OBVIOUS
<1>5. QED
  BY <1>1, <1>3, <1>4

LEMMA ClaimSplit ==
  ASSUME NEW S, IsFiniteSet(S), S \subseteq Notes, NEW B, B \subseteq S, NEW token
  PROVE  /\ ClaimOf(S, token) = ClaimOf(S \ B, token) + ClaimOf(B, token)
         /\ ClaimOf(S, token) \in Nat /\ ClaimOf(S \ B, token) \in Nat /\ ClaimOf(B, token) \in Nat
<1> DEFINE T == { note \in S : note.token = token }
           C == { note \in B : note.token = token }
<1>1. IsFiniteSet(T) /\ C \subseteq T /\ T \ C = { note \in S \ B : note.token = token }
  BY FS_Subset
<1>2. \A note \in T : note.amount \in Nat
  BY NoteFields
<1>3. /\ ClaimOf(S, token) = AmountOf(T) /\ ClaimOf(B, token) = AmountOf(C)
      /\ ClaimOf(S \ B, token) = AmountOf(T \ C)
  BY <1>1 DEF ClaimOf
<1> HIDE DEF T, C
<1>4. /\ AmountOf(T) = AmountOf(T \ C) + AmountOf(C)
      /\ AmountOf(T \ C) \in Nat /\ AmountOf(C) \in Nat
  BY <1>1, <1>2, AmountSplit
<1>5. QED
  BY <1>3, <1>4

\* Notes that are old ones or new ones claim no more than both.
LEMMA ClaimJoined ==
  ASSUME NEW U, IsFiniteSet(U), U \subseteq Notes, NEW A, IsFiniteSet(A), A \subseteq Notes,
         NEW B, IsFiniteSet(B), B \subseteq Notes, U \subseteq A \cup B, NEW token
  PROVE  /\ ClaimOf(U, token) <= ClaimOf(A, token) + ClaimOf(B, token)
         /\ ClaimOf(U, token) \in Nat /\ ClaimOf(A, token) \in Nat /\ ClaimOf(B, token) \in Nat
<1> DEFINE L == U \cap A
           R == U \ L
<1>1. L \subseteq U /\ L \subseteq A /\ R \subseteq B
  OBVIOUS
<1>2. /\ ClaimOf(U, token) = ClaimOf(R, token) + ClaimOf(L, token)
      /\ ClaimOf(U, token) \in Nat /\ ClaimOf(R, token) \in Nat /\ ClaimOf(L, token) \in Nat
  BY <1>1, ClaimSplit
<1> HIDE DEF L, R
<1>3. /\ ClaimOf(A, token) = ClaimOf(A \ L, token) + ClaimOf(L, token)
      /\ ClaimOf(A \ L, token) \in Nat /\ ClaimOf(A, token) \in Nat
  BY <1>1, ClaimSplit
<1>4. /\ ClaimOf(B, token) = ClaimOf(B \ R, token) + ClaimOf(R, token)
      /\ ClaimOf(B \ R, token) \in Nat /\ ClaimOf(B, token) \in Nat
  BY <1>1, ClaimSplit
<1>5. QED
  BY <1>2, <1>3, <1>4

LEMMA ClaimsOfIsClaim ==
  \A new, token : /\ ClaimsOf(new, token) = ClaimOf(new \ {ZERO}, token)
                  /\ OpenView!Claims(new, token) = ClaimsOf(new, token)
BY DEF ClaimsOf, ClaimOf, AmountOf, OpenView!Claims, FoldSet, MapThenFoldSet,
       OpenView!FoldSet, OpenView!MapThenFoldSet

LEMMA ExcessCovers ==
  ASSUME NEW claims \in Nat, NEW cover \in Nat
  PROVE  /\ Excess(claims, cover) \in Nat /\ cover + Excess(claims, cover) >= claims
         /\ OpenView!Excess(claims, cover) = Excess(claims, cover)
BY DEF Excess, OpenView!Excess

LEMMA CommitmentInserted ==
  ASSUME NEW t, TreeOfCommitments(t), NEW c \in Commitments, NEW u, u = Inserted(t, c)
  PROVE  /\ TreeOfCommitments(u)
         /\ LeavesIn(u) = LeavesIn(t) \cup {c}
         /\ u.nextIndex = t.nextIndex + 1 /\ t.nextIndex \in Nat
<1> DEFINE n == t.nextIndex
<1>1. /\ n \in Nat /\ Len(t.log) = n
      /\ u.nextIndex = n + 1 /\ Len(u.log) = n + 1
      /\ \A i \in 1 .. n : u.log[i] = t.log[i]
      /\ u.log[n + 1].leaf = c /\ u.log[n + 1].newRoot # ZERO
  BY LogOfInserted DEF TreeOfCommitments
<1>2. \A i \in 1 .. n : t.log[i].leaf \in Commitments /\ t.log[i].newRoot # ZERO
  BY DEF TreeOfCommitments
<1>3. RingOK(u)
  BY RingOKInserted DEF TreeOfCommitments
<1> HIDE DEF n
<1>4. \A i \in 1 .. n + 1 : i # n + 1 => i \in 1 .. n
  BY <1>1
<1>5. \A i \in 1 .. n + 1 : u.log[i].leaf \in Commitments /\ u.log[i].newRoot # ZERO
  BY <1>1, <1>2, <1>4
<1>6. LeavesIn(u) = LeavesIn(t) \cup {c}
  <2>1. n + 1 \in 1 .. n + 1 /\ 1 .. n \subseteq 1 .. n + 1
    BY <1>1
  <2>2. QED
    BY <1>1, <1>4, <2>1 DEF LeavesIn
<1>7. QED
  BY <1>1, <1>3, <1>5, <1>6 DEF TreeOfCommitments, n

LEMMA CallersFacts ==
  ASSUME CallersInv
  PROVE  /\ LeafSet = LeavesIn(tree) /\ LeafSet \subseteq Commitments
         /\ IsFiniteSet(Unspent) /\ Unspent \subseteq Notes /\ Unspent \subseteq LeafSet
         /\ Unspent = { note \in LeafSet \ {ZERO} : note.nn \notin nullifierHashes }
         /\ \A token \in Tokens : Claimed(token) = ClaimOf(Unspent, token)
<1> DEFINE n == tree.nextIndex
           f == [i \in 1 .. n |-> tree.log[i].leaf]
<1>1. /\ n \in Nat /\ Len(tree.log) = n
      /\ \A i \in 1 .. n : tree.log[i].leaf \in Commitments
  BY DEF CallersInv, TreeOfCommitments, RingOK
<1>2. LeafSet = LeavesIn(tree)
  BY DEF LeafSet, LeavesIn
<1>3. LeafSet \subseteq Commitments
  BY <1>1 DEF LeafSet
<1>4. f \in Surjection(1 .. n, LeafSet)
  BY <1>1 DEF Surjection, LeafSet
<1>5. IsFiniteSet(1 .. n)
  BY <1>1, FS_Interval
<1> HIDE DEF f, n
<1>6. IsFiniteSet(LeafSet)
  BY <1>4, <1>5, FS_Surjection
<1>7. Unspent \subseteq LeafSet /\ Unspent \subseteq Notes
  BY <1>3 DEF Unspent, Commitments
<1>8. IsFiniteSet(Unspent)
  BY <1>6, <1>7, FS_Subset
<1>9. Unspent = { note \in LeafSet \ {ZERO} : note.nn \notin nullifierHashes }
  BY DEF Unspent, Nullifier
<1>10. QED
  BY <1>2, <1>3, <1>7, <1>8, <1>9, ClaimedIsClaim

\* Funds keep covering the claims where new notes come with funds, with old ones
\* they replace, or are counted as coming without.
LEMMA StillCovered ==
  ASSUME CallersInv, NEW old, old \subseteq Unspent,
         NEW new, IsFiniteSet(new), new \subseteq Notes, Unspent' \subseteq (Unspent \ old) \cup new,
         vault' \in [Tokens -> Int], unbacked' \in [Tokens -> Int],
         \A token \in Tokens : vault'[token] + unbacked'[token] + ClaimOf(old, token)
                                 >= vault[token] + unbacked[token] + ClaimOf(new, token)
  PROVE  SolventButForUnbacked'
<1> SUFFICES ASSUME NEW token \in Tokens
             PROVE  vault'[token] + unbacked'[token] >= Claimed(token)'
  BY DEF SolventButForUnbacked
<1>1. IsFiniteSet(Unspent) /\ Unspent \subseteq Notes /\ Claimed(token) = ClaimOf(Unspent, token)
  BY CallersFacts
<1>2. Claimed(token)' = ClaimOf(Unspent', token)
  BY ClaimedIsClaimNext
<1>3. /\ ClaimOf(Unspent, token) = ClaimOf(Unspent \ old, token) + ClaimOf(old, token)
      /\ ClaimOf(Unspent \ old, token) \in Nat /\ ClaimOf(old, token) \in Nat
  BY <1>1, ClaimSplit
<1>4. IsFiniteSet(Unspent \ old) /\ Unspent \ old \subseteq Notes
  BY <1>1, FS_Difference
<1>5. IsFiniteSet(Unspent') /\ Unspent' \subseteq Notes
  <2>1. IsFiniteSet((Unspent \ old) \cup new)
    BY <1>4, FS_Union
  <2>2. Unspent' \subseteq Notes
    BY <1>4
  <2>3. QED
    BY <2>1, <2>2, FS_Subset
<1> DEFINE kept == Unspent \ old
<1>6. /\ ClaimOf(Unspent', token) <= ClaimOf(kept, token) + ClaimOf(new, token)
      /\ ClaimOf(Unspent', token) \in Nat /\ ClaimOf(new, token) \in Nat
  <2> HIDE DEF kept
  <2>1. IsFiniteSet(kept) /\ kept \subseteq Notes /\ Unspent' \subseteq kept \cup new
    BY <1>4 DEF kept
  <2> DEFINE U == Unspent'
  <2>2. IsFiniteSet(U) /\ U \subseteq Notes /\ U \subseteq kept \cup new
    BY <1>5, <2>1
  <2> HIDE DEF U
  <2>3. /\ ClaimOf(U, token) <= ClaimOf(kept, token) + ClaimOf(new, token)
        /\ ClaimOf(U, token) \in Nat /\ ClaimOf(new, token) \in Nat
    BY <2>1, <2>2, ClaimJoined
  <2>4. QED
    BY <2>3 DEF U
<1>7. /\ vault[token] + unbacked[token] >= ClaimOf(Unspent, token)
      /\ vault[token] \in Int /\ unbacked[token] \in Int
  BY <1>1, PoolAssumption DEF CallersInv, SolventButForUnbacked
<1>8. vault'[token] \in Int /\ unbacked'[token] \in Int
  OBVIOUS
<1>9. QED
  BY <1>2, <1>3, <1>6, <1>7, <1>8

\* An excess is a number, and counting it covers the claims.
LEMMA DepositsCallers ==
  ASSUME CallersInv, DepositBySomeone
  PROVE  CallersInv' /\ OpenView!OPNext
<1>1. PICK c \in Commitments, token \in Tokens, amount \in Amounts :
        /\ Deposit(c, token, amount)
        /\ unbacked' = [t \in Tokens |->
             unbacked[t] + Excess(ClaimsOf({c}, t), IF t = token THEN amount ELSE 0)]
  BY DEF DepositBySomeone
<1>2. /\ c \notin commitments /\ tree.nextIndex + 1 <= MAX_LEAVES
      /\ vault[token] + amount <= Supply
      /\ vault' = [vault EXCEPT ![token] = @ + amount]
      /\ tree' = Inserted(tree, c)
      /\ commitments' = commitments \cup {c}
      /\ nullifierHashes' = nullifierHashes /\ admin' = admin
  BY <1>1 DEF Deposit, DepositAccepted, HasRoom
<1>3. /\ TreeOfCommitments(tree) /\ commitments = LeafSet /\ vault \in [Tokens -> 0 .. Supply]
      /\ unbacked \in [Tokens -> Nat] /\ admin = [Deployed EXCEPT !.supportedTokens = Tokens]
  BY DEF CallersInv
<1>4. /\ LeafSet = LeavesIn(tree) /\ Unspent \subseteq LeafSet
      /\ Unspent = { note \in LeafSet \ {ZERO} : note.nn \notin nullifierHashes }
  BY CallersFacts
<1>5. /\ TreeOfCommitments(tree') /\ LeavesIn(tree') = LeafSet \cup {c}
      /\ tree'.nextIndex = tree.nextIndex + 1
  BY <1>2, <1>3, <1>4, CommitmentInserted
<1>6. LeafSet' = LeafSet \cup {c}
  BY <1>5 DEF LeafSet, LeavesIn
<1>7. Unspent' = { note \in LeafSet' \ {ZERO} : note.nn \notin nullifierHashes' }
  BY DEF Unspent, Nullifier
<1>8. Unspent' = Unspent \cup OpenView!Spendable({c}, nullifierHashes)
  BY <1>2, <1>4, <1>6, <1>7 DEF OpenView!Spendable
<1> DEFINE new == {c} \ {ZERO}
           cover(t) == IF t = token THEN amount ELSE 0
<1>9. IsFiniteSet(new) /\ new \subseteq Notes
  <2>1. IsFiniteSet({c})
    BY FS_Singleton
  <2>2. QED
    BY <2>1, FS_Subset DEF Commitments
<1>10. amount \in Nat /\ \A t \in Tokens : cover(t) \in Nat
  BY PoolAssumption
<1>11. \A t \in Tokens : ClaimsOf({c}, t) = ClaimOf(new, t) /\ ClaimOf(new, t) \in Nat
  <2>1. \A t : ClaimsOf({c}, t) = ClaimOf({c} \ {ZERO}, t)
    BY ClaimsOfIsClaim
  <2>2. \A t : ClaimOf(new, t) \in Nat
    <3> HIDE DEF new
    <3>1. new \subseteq new
      OBVIOUS
    <3>2. QED
      BY <1>9, <3>1, ClaimSplit
  <2>3. QED
    BY <2>1, <2>2
<1> HIDE DEF new, cover
<1>12. vault' \in [Tokens -> 0 .. Supply]
  BY <1>2, <1>3, <1>10, PoolAssumption
<1>13. \A t \in Tokens : vault'[t] = vault[t] + cover(t)
  BY <1>2, <1>3, <1>10, PoolAssumption DEF cover
<1>14. unbacked' = [t \in Tokens |-> unbacked[t] + Excess(ClaimOf(new, t), cover(t))]
  BY <1>1, <1>11 DEF cover
<1>15. \A t \in Tokens : /\ Excess(ClaimOf(new, t), cover(t)) \in Nat
                         /\ cover(t) + Excess(ClaimOf(new, t), cover(t)) >= ClaimOf(new, t)
  BY <1>10, <1>11, ExcessCovers
<1>16. unbacked' \in [Tokens -> Nat]
  BY <1>3, <1>14, <1>15
<1>17. SolventButForUnbacked'
  <2>1. Unspent' \subseteq (Unspent \ {}) \cup new
    BY <1>8 DEF new, OpenView!Spendable
  <2>2. \A t \in Tokens : ClaimOf({}, t) = 0
    BY AmountOfEmpty DEF ClaimOf
  <2>3. ASSUME NEW t \in Tokens
        PROVE  vault'[t] + unbacked'[t] + ClaimOf({}, t) >= vault[t] + unbacked[t] + ClaimOf(new, t)
    <3>1. vault'[t] = vault[t] + cover(t) /\ unbacked'[t] = unbacked[t] + Excess(ClaimOf(new, t), cover(t))
      BY <1>13, <1>14
    <3>2. vault[t] \in Int /\ unbacked[t] \in Int /\ ClaimOf(new, t) \in Nat /\ cover(t) \in Nat
      BY <1>3, <1>10, <1>11, PoolAssumption
    <3>3. /\ Excess(ClaimOf(new, t), cover(t)) \in Nat
          /\ cover(t) + Excess(ClaimOf(new, t), cover(t)) >= ClaimOf(new, t)
      BY <1>15
    <3>4. QED
      BY <2>2, <3>1, <3>2, <3>3
  <2>4. vault' \in [Tokens -> Int] /\ unbacked' \in [Tokens -> Int]
    BY <1>12, <1>16, PoolAssumption
  <2>5. QED
    BY <1>9, <2>1, <2>3, <2>4, StillCovered
<1>18. CallersInv'
  BY <1>2, <1>3, <1>5, <1>6, <1>12, <1>16, <1>17 DEF CallersInv
<1>19. OpenView!Receive(c, token, amount)
  <2>1. c \notin Unspent
    BY <1>2, <1>3, <1>4
  <2>2. unbacked' = [t \in Tokens |->
          unbacked[t] + OpenView!Excess(OpenView!Claims({c}, t), IF t = token THEN amount ELSE 0)]
    <3>1. \A t \in Tokens : OpenView!Excess(OpenView!Claims({c}, t), IF t = token THEN amount ELSE 0)
                              = Excess(ClaimsOf({c}, t), IF t = token THEN amount ELSE 0)
      BY ClaimsOfIsClaim DEF Excess, OpenView!Excess
    <3>2. QED
      BY <1>1, <3>1
  <2>3. QED
    BY <1>2, <1>8, <2>1, <2>2 DEF OpenView!Receive
<1>20. QED
  BY <1>18, <1>19 DEF OpenView!OPNext

LEMMA WithdrawsCallers ==
  ASSUME CallersInv, WithdrawBySomeone, UNCHANGED unbacked
  PROVE  CallersInv' /\ OpenView!OPNext
<1>1. PICK note \in commitments \ {ZERO}, k \in 1 .. tree.nextIndex, amount \in 1 .. UINT128 + 2 :
        Withdraw(note, RootAfter(tree, k), amount)
  BY DEF WithdrawBySomeone
<1>2. /\ note.nn \notin nullifierHashes
      /\ ProofValid(note, note.nn, RootAfter(tree, k), note.token, ProvedAmount(amount))
      /\ vault[note.token] >= amount
      /\ nullifierHashes' = nullifierHashes \cup {note.nn}
      /\ vault' = [vault EXCEPT ![note.token] = @ - amount]
      /\ tree' = tree /\ commitments' = commitments /\ admin' = admin
  BY <1>1 DEF Withdraw, WithdrawAccepted, Nullifier
<1>3. /\ TreeOfCommitments(tree) /\ commitments = LeafSet /\ vault \in [Tokens -> 0 .. Supply]
      /\ unbacked \in [Tokens -> Nat] /\ admin = [Deployed EXCEPT !.supportedTokens = Tokens]
  BY DEF CallersInv
<1>4. /\ Unspent \subseteq LeafSet /\ Unspent \subseteq Notes
      /\ Unspent = { leaf \in LeafSet \ {ZERO} : leaf.nn \notin nullifierHashes }
  BY CallersFacts
<1>5. note \in Unspent /\ note \in Notes
  BY <1>1, <1>2, <1>3, <1>4
<1>6. note.token \in Tokens /\ note.amount \in Nat
  BY <1>5, NoteFields
<1>7. amount = note.amount
  <2>1. amount % UINT128 = note.amount
    BY <1>2 DEF ProofValid, ProvedAmount
  <2>2. vault[note.token] \in 0 .. Supply
    BY <1>3, <1>6
  <2>3. UINT128 \in Nat \ {0} /\ amount \in 0 .. UINT128 - 1
    BY <1>1, <1>2, <2>2, PoolAssumption
  <2>4. amount % UINT128 = amount
    BY <2>3, SmallSlot
  <2>5. QED
    BY <2>1, <2>4
<1>8. LeafSet' = LeafSet
  BY <1>2 DEF LeafSet
<1>9. Unspent' = { leaf \in LeafSet' \ {ZERO} : leaf.nn \notin nullifierHashes' }
  BY DEF Unspent, Nullifier
<1>10. Unspent' = OpenView!Spendable(Unspent, nullifierHashes')
  BY <1>2, <1>4, <1>8, <1>9 DEF OpenView!Spendable
<1>11. vault' \in [Tokens -> 0 .. Supply]
  BY <1>2, <1>3, <1>6, <1>7, PoolAssumption
<1>12. SolventButForUnbacked'
  <2>1. Unspent' \subseteq (Unspent \ {note}) \cup {}
    BY <1>2, <1>10 DEF OpenView!Spendable
  <2>2. \A t \in Tokens : ClaimOf({}, t) = 0
    BY AmountOfEmpty DEF ClaimOf
  <2>3. \A t \in Tokens : ClaimOf({note}, t) = IF t = note.token THEN note.amount ELSE 0
    <3> TAKE t \in Tokens
    <3>1. CASE t = note.token
      <4>1. { x \in {note} : x.token = t } = {} \cup {note}
        BY <3>1
      <4>2. AmountOf({} \cup {note}) = AmountOf({}) + note.amount
        BY <1>6, AmountAdded, FS_EmptySet
      <4>3. QED
        BY <1>6, <3>1, <4>1, <4>2, AmountOfEmpty DEF ClaimOf
    <3>2. CASE t # note.token
      <4>1. { x \in {note} : x.token = t } = {}
        BY <3>2
      <4>2. QED
        BY <3>2, <4>1, AmountOfEmpty DEF ClaimOf
    <3>3. QED
      BY <3>1, <3>2
  <2>4. \A t \in Tokens : vault'[t] + unbacked'[t] + ClaimOf({note}, t)
                            >= vault[t] + unbacked[t] + ClaimOf({}, t)
    <3> TAKE t \in Tokens
    <3>1. vault[t] \in Int /\ unbacked[t] \in Int /\ unbacked'[t] = unbacked[t]
      BY <1>3, PoolAssumption
    <3> DEFINE paid == IF t = note.token THEN note.amount ELSE 0
    <3>2. vault'[t] = vault[t] - paid /\ paid \in Nat
      BY <1>2, <1>3, <1>6, <1>7, <3>1
    <3>3. ClaimOf({note}, t) = paid /\ ClaimOf({}, t) = 0
      BY <2>2, <2>3
    <3> HIDE DEF paid
    <3>4. QED
      BY <3>1, <3>2, <3>3
  <2>5. vault' \in [Tokens -> Int] /\ unbacked' \in [Tokens -> Int]
    BY <1>3, <1>11, PoolAssumption
  <2>6. IsFiniteSet({}) /\ {} \subseteq Notes /\ {note} \subseteq Unspent
    BY <1>5, FS_EmptySet
  <2>7. QED
    BY <2>1, <2>4, <2>5, <2>6, StillCovered
<1>13. CallersInv'
  BY <1>2, <1>3, <1>8, <1>11, <1>12 DEF CallersInv
<1>14. OpenView!Pay(note)
  BY <1>2, <1>5, <1>7, <1>10 DEF OpenView!Pay
<1>15. QED
  BY <1>5, <1>13, <1>14 DEF OpenView!OPNext

LEMMA SettlesCallers ==
  ASSUME CallersInv, SettleBySomeone
  PROVE  CallersInv' /\ OpenView!OPNext
<1>1. PICK sender \in Accounts, b, s \in NoteSecrets, bn, sn \in Commitments :
        /\ SettleMatch(sender, Settlement(b, s, bn, sn), Unsigned)
        /\ unbacked' = [t \in Tokens |->
             unbacked[t] + Excess(ClaimsOf({bn, sn}, t), ClaimsOf(NotesOf({b, s}), t))]
  BY DEF SettleBySomeone, Settlement
<1> DEFINE mid == Inserted(tree, bn)
           old == NotesOf({b, s})
           new == {bn, sn} \ {ZERO}
<1>2. /\ b \notin nullifierHashes /\ s \notin nullifierHashes
      /\ tree.nextIndex + 2 <= MAX_LEAVES
      /\ nullifierHashes' = nullifierHashes \cup {b, s}
      /\ tree' = Inserted(mid, sn)
      /\ commitments' = commitments \cup {bn, sn}
      /\ vault' = vault /\ admin' = admin
  BY <1>1 DEF SettleMatch, SettleAccepted, SpentBy, Settlement, HasRoom
<1>3. /\ TreeOfCommitments(tree) /\ commitments = LeafSet /\ vault \in [Tokens -> 0 .. Supply]
      /\ unbacked \in [Tokens -> Nat] /\ admin = [Deployed EXCEPT !.supportedTokens = Tokens]
  BY DEF CallersInv
<1>4. /\ LeafSet = LeavesIn(tree) /\ Unspent \subseteq LeafSet /\ Unspent \subseteq Notes /\ IsFiniteSet(Unspent)
      /\ Unspent = { note \in LeafSet \ {ZERO} : note.nn \notin nullifierHashes }
  BY CallersFacts
<1>5. /\ TreeOfCommitments(mid) /\ LeavesIn(mid) = LeafSet \cup {bn}
      /\ mid.nextIndex = tree.nextIndex + 1 /\ tree.nextIndex \in Nat
  BY <1>1, <1>3, <1>4, CommitmentInserted
<1> HIDE DEF mid
<1>6. /\ TreeOfCommitments(tree') /\ LeavesIn(tree') = LeavesIn(mid) \cup {sn}
      /\ tree'.nextIndex = mid.nextIndex + 1
  BY <1>1, <1>2, <1>5, CommitmentInserted
<1>7. LeafSet' = LeafSet \cup {bn, sn}
  <2>1. LeafSet' = LeavesIn(tree')
    BY DEF LeafSet, LeavesIn
  <2>2. QED
    BY <1>5, <1>6, <2>1
<1>8. tree'.nextIndex <= MAX_LEAVES
  <2>1. MAX_LEAVES \in Int
    BY MaxLeavesNat
  <2>2. QED
    BY <1>2, <1>5, <1>6, <2>1
<1>9. Unspent' = { note \in LeafSet' \ {ZERO} : note.nn \notin nullifierHashes' }
  BY DEF Unspent, Nullifier
<1>10. Unspent' = OpenView!Spendable(Unspent \cup {bn, sn}, nullifierHashes')
  BY <1>2, <1>4, <1>7, <1>9 DEF OpenView!Spendable
<1>11. /\ old \subseteq Unspent /\ old \ {ZERO} = old
       /\ old = Unspent \ OpenView!Spendable(Unspent, nullifierHashes')
  BY <1>2, <1>4 DEF OpenView!Spendable, NotesOf, Nullifier
<1>12. Unspent' \subseteq (Unspent \ old) \cup new
  BY <1>2, <1>4, <1>7, <1>9 DEF NotesOf, Nullifier
<1>13. IsFiniteSet(new) /\ new \subseteq Notes
  <2>1. IsFiniteSet({bn} \cup {sn})
    BY FS_Singleton, FS_Union
  <2>2. new \subseteq {bn} \cup {sn}
    OBVIOUS
  <2>3. IsFiniteSet(new)
    BY <2>1, <2>2, FS_Subset
  <2>4. QED
    BY <2>3 DEF Commitments
<1>14. \A t \in Tokens : /\ ClaimsOf({bn, sn}, t) = ClaimOf(new, t) /\ ClaimOf(new, t) \in Nat
                         /\ ClaimsOf(old, t) = ClaimOf(old, t) /\ ClaimOf(old, t) \in Nat
  <2>1. \A t : ClaimsOf({bn, sn}, t) = ClaimOf({bn, sn} \ {ZERO}, t) /\ ClaimsOf(old, t) = ClaimOf(old \ {ZERO}, t)
    BY ClaimsOfIsClaim
  <2>2. \A t : ClaimsOf({bn, sn}, t) = ClaimOf(new, t) /\ ClaimsOf(old, t) = ClaimOf(old, t)
    BY <1>11, <2>1
  <2> HIDE DEF new, old
  <2>3. \A t : ClaimOf(new, t) \in Nat
    <3>1. new \subseteq new
      OBVIOUS
    <3>2. QED
      BY <1>13, <3>1, ClaimSplit
  <2>4. \A t : ClaimOf(old, t) \in Nat
    BY <1>4, <1>11, ClaimSplit
  <2>5. QED
    BY <2>2, <2>3, <2>4
<1> HIDE DEF new, old
<1>15. unbacked' = [t \in Tokens |-> unbacked[t] + Excess(ClaimOf(new, t), ClaimOf(old, t))]
  BY <1>1, <1>14 DEF old
<1>16. \A t \in Tokens : /\ Excess(ClaimOf(new, t), ClaimOf(old, t)) \in Nat
                         /\ ClaimOf(old, t) + Excess(ClaimOf(new, t), ClaimOf(old, t)) >= ClaimOf(new, t)
  BY <1>14, ExcessCovers
<1>17. unbacked' \in [Tokens -> Nat]
  BY <1>3, <1>15, <1>16
<1>18. SolventButForUnbacked'
  <2>1. ASSUME NEW t \in Tokens
        PROVE  vault'[t] + unbacked'[t] + ClaimOf(old, t) >= vault[t] + unbacked[t] + ClaimOf(new, t)
    <3>1. vault'[t] = vault[t] /\ unbacked'[t] = unbacked[t] + Excess(ClaimOf(new, t), ClaimOf(old, t))
      BY <1>2, <1>15
    <3>2. vault[t] \in Int /\ unbacked[t] \in Int /\ ClaimOf(new, t) \in Nat /\ ClaimOf(old, t) \in Nat
      BY <1>3, <1>14, PoolAssumption
    <3>3. /\ Excess(ClaimOf(new, t), ClaimOf(old, t)) \in Nat
          /\ ClaimOf(old, t) + Excess(ClaimOf(new, t), ClaimOf(old, t)) >= ClaimOf(new, t)
      BY <1>16
    <3>4. QED
      BY <3>1, <3>2, <3>3
  <2>2. vault' \in [Tokens -> Int] /\ unbacked' \in [Tokens -> Int]
    BY <1>2, <1>3, <1>17, PoolAssumption
  <2>3. QED
    BY <1>11, <1>12, <1>13, <2>1, <2>2, StillCovered
<1>19. CallersInv'
  BY <1>2, <1>3, <1>6, <1>7, <1>8, <1>17, <1>18 DEF CallersInv
<1>20. OpenView!Exchange(b, s, bn, sn)
  <2>1. \A t \in Tokens : OpenView!Excess(OpenView!Claims({bn, sn}, t), OpenView!Claims(old, t))
                            = Excess(ClaimsOf({bn, sn}, t), ClaimsOf(old, t))
    BY ClaimsOfIsClaim DEF Excess, OpenView!Excess
  <2>2. unbacked' = [t \in Tokens |->
          unbacked[t] + OpenView!Excess(OpenView!Claims({bn, sn}, t), OpenView!Claims(old, t))]
    BY <1>1, <2>1 DEF old
  <2>3. QED
    BY <1>2, <1>10, <1>11, <2>2 DEF OpenView!Exchange
<1>21. b \in nullifierHashes' \ nullifierHashes /\ s \in nullifierHashes' \ nullifierHashes
  BY <1>2
<1>22. QED
  BY <1>1, <1>19, <1>20, <1>21 DEF OpenView!OPNext

LEMMA CallersStart == CallersInit => CallersInv /\ OpenView!OPInit
<1> SUFFICES ASSUME CallersInit PROVE CallersInv /\ OpenView!OPInit
  OBVIOUS
<1>1. /\ tree = EmptyTree /\ nullifierHashes = {}
      /\ vault = [token \in Tokens |-> 0] /\ unbacked = [token \in Tokens |-> 0]
      /\ commitments = ToSet(<< >>) /\ admin = [Deployed EXCEPT !.supportedTokens = Tokens]
  BY NothingFolded DEF CallersInit, EmptyPool, PoolHolding
<1>2. RingOK(tree) /\ tree.nextIndex = 0 /\ tree.log = << >>
  BY <1>1, RingOKEmpty DEF EmptyTree
<1>3. TreeOfCommitments(tree)
  BY <1>2 DEF TreeOfCommitments
<1>4. LeafSet = {} /\ commitments = {}
  BY <1>1, <1>2 DEF LeafSet, ToSet
<1>5. Unspent = {}
  BY <1>4 DEF Unspent
<1>6. 0 <= MAX_LEAVES
  BY MaxLeavesNat
<1>7. vault \in [Tokens -> 0 .. Supply] /\ unbacked \in [Tokens -> Nat]
  BY <1>1, PoolAssumption
<1>8. SolventButForUnbacked
  <2> SUFFICES ASSUME NEW token \in Tokens PROVE vault[token] + unbacked[token] >= Claimed(token)
    BY DEF SolventButForUnbacked
  <2>1. { note \in Unspent : note.token = token } = {}
    BY <1>5
  <2>2. Claimed(token) = 0
    BY <2>1, ClaimedIsClaim, AmountOfEmpty DEF ClaimOf
  <2>3. QED
    BY <1>1, <2>2
<1>9. CallersInv
  BY <1>1, <1>2, <1>3, <1>4, <1>6, <1>7, <1>8 DEF CallersInv
<1>10. OpenView!OPInit
  BY <1>1, <1>5 DEF OpenView!OPInit
<1>11. QED
  BY <1>9, <1>10

LEMMA CallersUnchanged ==
  ASSUME CallersInv, UNCHANGED callersVars
  PROVE  CallersInv' /\ UNCHANGED OpenView!opvars
<1>1. /\ tree' = tree /\ nullifierHashes' = nullifierHashes /\ commitments' = commitments
      /\ vault' = vault /\ admin' = admin /\ unbacked' = unbacked
  BY DEF callersVars, poolVars
<1>2. LeafSet' = LeafSet /\ Unspent' = Unspent
  BY <1>1 DEF LeafSet, Unspent
<1>3. SolventButForUnbacked'
  <2> SUFFICES ASSUME NEW token \in Tokens PROVE vault'[token] + unbacked'[token] >= Claimed(token)'
    BY DEF SolventButForUnbacked
  <2>1. Claimed(token) = ClaimOf(Unspent, token)
    BY ClaimedIsClaim
  <2>2. Claimed(token)' = ClaimOf(Unspent', token)
    BY ClaimedIsClaimNext
  <2>3. QED
    BY <1>1, <1>2, <2>1, <2>2 DEF CallersInv, SolventButForUnbacked
<1>4. CallersInv'
  BY <1>1, <1>2, <1>3 DEF CallersInv
<1>5. QED
  BY <1>1, <1>2, <1>4 DEF OpenView!opvars

\* The invariant of the pool whatever its callers deposit and settle.
THEOREM CallersInvariant == CallersSpec => []CallersInv
<1>1. CallersInv /\ [CallersNext]_callersVars => CallersInv'
  BY DepositsCallers, WithdrawsCallers, SettlesCallers, CallersUnchanged DEF CallersNext
<1>2. QED
  BY CallersStart, <1>1, PTL DEF CallersSpec

\* Type correctness of the contract's storage: whatever anybody deposits,
\* withdraws and settles, the commitments mapping and the leaves agree.
THEOREM PoolTypeCorrect == CallersSpec => []PoolTypeOK
<1>1. CallersInv => PoolTypeOK
  <2> SUFFICES ASSUME CallersInv PROVE PoolTypeOK
    OBVIOUS
  <2>1. /\ TreeOfCommitments(tree) /\ tree.nextIndex <= MAX_LEAVES /\ commitments = LeafSet
        /\ vault \in [Tokens -> 0 .. Supply] /\ admin = [Deployed EXCEPT !.supportedTokens = Tokens]
    BY DEF CallersInv
  <2>2. TreeTypeOK
    BY <2>1, RingInvTypes DEF TreeOfCommitments, RingInv
  <2>3. \A token \in Tokens : vault[token] \in Nat
    BY <2>1, PoolAssumption
  <2>4. /\ admin.supportedTokens \subseteq Tokens
        /\ admin.owner \in Accounts /\ admin.teeOperator \in Accounts
        /\ admin.enclaveSigningKey \in Keys \cup {NONE}
        /\ admin.requireAttestation \in BOOLEAN
    BY <2>1, PoolAssumption DEF Deployed
  <2>5. QED
    BY <2>1, <2>2, <2>3, <2>4 DEF PoolTypeOK
<1>2. QED
  BY <1>1, CallersInvariant, PTL

\* The contract can pay every unspent note but for the claims that deposits and
\* settlements brought in without funds, whoever calls deposit, withdraw and
\* settleMatch of DePLOB.sol with whatever arguments.
THEOREM PoolIsSolvent == CallersSpec => []SolventButForUnbacked
<1>1. CallersInv => SolventButForUnbacked
  BY DEF CallersInv
<1>2. QED
  BY <1>1, CallersInvariant, PTL

\* Whatever others deposit and settle, an unspent note can be withdrawn now
\* against the current root, and is paid where all claims of its token came
\* with funds.
THEOREM NoFundsStuck == CallersSpec => []UnspentNotesPayable
<1>1. CallersInv => UnspentNotesPayable
  <2> SUFFICES ASSUME CallersInv, NEW note \in Unspent
               PROVE  /\ WithdrawAccepted(note, note.nn, GetLastRoot(tree), note.token, note.amount)
                      /\ unbacked[note.token] = 0 => vault[note.token] >= note.amount
    BY DEF UnspentNotesPayable, Nullifier
  <2>1. /\ IsFiniteSet(Unspent) /\ Unspent \subseteq Notes /\ note \in LeafSet /\ note.nn \notin nullifierHashes
        /\ \A token \in Tokens : Claimed(token) = ClaimOf(Unspent, token)
    BY CallersFacts
  <2>2. note.token \in Tokens /\ note.amount \in Nat /\ note.amount < UINT128
    BY <2>1, NoteFields
  <2>3. /\ TreeOfCommitments(tree) /\ vault \in [Tokens -> 0 .. Supply] /\ SolventButForUnbacked
        /\ admin = [Deployed EXCEPT !.supportedTokens = Tokens]
    BY DEF CallersInv
  <2>4. note.token \in admin.supportedTokens
    BY <2>2, <2>3 DEF Deployed
  <2>5. IsKnownRoot(tree, GetLastRoot(tree)) /\ \E k \in 1 .. tree.nextIndex :
          GetLastRoot(tree) = RootAfter(tree, k) /\ \E i \in 1 .. k : tree.log[i].leaf = note
    BY <2>1, <2>3, LastRootHolds DEF TreeOfCommitments, LeafSet
  <2>6. ProvedAmount(note.amount) = note.amount
    <3>1. UINT128 \in Nat \ {0} /\ note.amount \in 0 .. UINT128 - 1
      BY <2>2, PoolAssumption
    <3>2. QED
      BY <3>1, SmallSlot DEF ProvedAmount
  <2>7. ASSUME unbacked[note.token] = 0 PROVE vault[note.token] >= note.amount
    <3>1. /\ ClaimOf(Unspent, note.token) = ClaimOf(Unspent \ {note}, note.token) + ClaimOf({note}, note.token)
          /\ ClaimOf(Unspent \ {note}, note.token) \in Nat
      <4>1. {note} \subseteq Unspent
        OBVIOUS
      <4>2. QED
        BY <2>1, <4>1, ClaimSplit
    <3>2. ClaimOf({note}, note.token) = note.amount
      <4>1. { x \in {note} : x.token = note.token } = {} \cup {note}
        OBVIOUS
      <4>2. AmountOf({} \cup {note}) = AmountOf({}) + note.amount
        BY <2>2, AmountAdded, FS_EmptySet
      <4>3. QED
        BY <2>2, <4>1, <4>2, AmountOfEmpty DEF ClaimOf
    <3>3. vault[note.token] + unbacked[note.token] >= ClaimOf(Unspent, note.token)
      BY <2>1, <2>2, <2>3 DEF SolventButForUnbacked
    <3>4. vault[note.token] \in Int
      BY <2>2, <2>3, PoolAssumption
    <3>5. QED
      BY <2>2, <2>7, <3>1, <3>2, <3>3, <3>4
  <2>8. ProofValid(note, note.nn, GetLastRoot(tree), note.token, ProvedAmount(note.amount))
    BY <2>5, <2>6 DEF ProofValid, Nullifier
  <2>9. QED
    BY <2>1, <2>4, <2>5, <2>7, <2>8 DEF WithdrawAccepted
<1>2. QED
  BY <1>1, CallersInvariant, PTL

\* The contract implements the open pool: whoever calls deposit, withdraw and
\* settleMatch, a secret is spent once, a note is paid what it claims, and no
\* call brings in more claims without funds than its arguments did.
THEOREM PoolImplementsOpenPool == CallersSpec => ImplementsOpenPool
<1>1. CallersInv /\ [CallersNext]_callersVars => [OpenView!OPNext]_(OpenView!opvars)
  BY DepositsCallers, WithdrawsCallers, SettlesCallers, CallersUnchanged DEF CallersNext
<1>2. QED
  BY CallersStart, <1>1, CallersInvariant, PTL DEF CallersSpec, ImplementsOpenPool, OpenView!OPSpec
================================================================================
