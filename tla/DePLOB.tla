-------------------------------- MODULE DePLOB --------------------------------
(***************************************************************************)
(* contracts/src/DePLOB.sol: the shielded pool of deposit notes.  A note is*)
(* its preimage [nn, token, amount]; hashing is injective, so the note is  *)
(* its own commitment, and its nullifier is nn, which stands for the pair  *)
(* of random secrets.  Commitments are leaves of MerkleTreeWithHistory.    *)
(*                                                                         *)
(* A transaction that reverts changes nothing and is no step.  ERC20 tokens*)
(* and the SP1 and DCAP verifiers are outside src/ and are modelled by what*)
(* the contract relies on.                                                 *)
(***************************************************************************)
EXTENDS MerkleTreeWithHistory, FiniteSets, SequencesExt

CONSTANTS Tokens,              \* ERC20 tokens in play
          Amounts,             \* amounts of tokens and of notes
          Accounts,            \* addresses that may call
          Owner, Operator,     \* the deployer and the first TEE operator
          Keys,                \* enclave signing addresses
          Quotes,              \* [mrenclave, key]: the genuine DCAP quotes that exist
          Verifiers,           \* addresses of DCAP verifier contracts
          NONE,                \* address(0), bytes32(0)
          UINT128,             \* 2^128, the modulus of the public amount
          Supply               \* how much of each token exists

ASSUME PoolAssumption ==
  /\ Owner \in Accounts /\ Operator \in Accounts
  /\ Amounts \subseteq Nat \ {0}
  /\ UINT128 \in Nat /\ \A a \in Amounts : a < UINT128
  /\ Supply \in Nat /\ Supply < UINT128   \* a token's supply fits in 128 bits
  /\ \A q \in Quotes : q.key \in Keys \cup {NONE}
  /\ NONE \notin Accounts \cup Keys \cup Verifiers \cup { q.mrenclave : q \in Quotes }
  /\ [nn : 1 .. MAX_LEAVES, token : Tokens, amount : Amounts] \subseteq Leaves

VARIABLES nullifierHashes,     \* the spent nullifiers
          commitments,         \* the known commitments
          vault,               \* token -> the contract's balance
          admin                \* the values the owner sets, as a record

poolVars == << tree, nullifierHashes, commitments, vault, admin >>

Nullifier(note) == note.nn

\* The owner's settings as the constructor leaves them.
Deployed == [owner |-> Owner, teeOperator |-> Operator, supportedTokens |-> {},
             enclaveSigningKey |-> NONE, requireAttestation |-> FALSE,
             trustedMrEnclave |-> NONE, dcapVerifier |-> NONE]

\* The token transfer of a deposit.
Credited(balances, note) == [balances EXCEPT ![note.token] = @ + note.amount]

\* What the contract holds after a sequence of deposits.
FundsOf(deposits) == FoldLeft(Credited, [token \in Tokens |-> 0], deposits)

\* The pool after a sequence of deposits, nothing being spent.
PoolHolding(deposits) ==
  /\ tree = FoldLeft(Inserted, EmptyTree, deposits)
  /\ nullifierHashes = {}
  /\ commitments = ToSet(deposits)
  /\ vault = FundsOf(deposits)

EmptyPool == PoolHolding(<< >>)

-------------------------------------------------------------------------------
(* Owner's calls and enclave registration *)

AdminCall(sender, field, value) ==
  /\ sender = admin.owner
  /\ admin' = [admin EXCEPT ![field] = value]
  /\ UNCHANGED << tree, nullifierHashes, commitments, vault >>

AddSupportedToken(sender, token) ==
  AdminCall(sender, "supportedTokens", admin.supportedTokens \cup {token})
RemoveSupportedToken(sender, token) ==
  AdminCall(sender, "supportedTokens", admin.supportedTokens \ {token})
SetTEEOperator(sender, account)        == AdminCall(sender, "teeOperator", account)
SetEnclaveSigningKey(sender, key)      == AdminCall(sender, "enclaveSigningKey", key)
SetRequireAttestation(sender, flag)    == AdminCall(sender, "requireAttestation", flag)
SetTrustedMrEnclave(sender, mrenclave) == AdminCall(sender, "trustedMrEnclave", mrenclave)
SetDcapVerifier(sender, verifier)      == AdminCall(sender, "dcapVerifier", verifier)
TransferOwnership(sender, account) ==
  /\ account # NONE
  /\ AdminCall(sender, "owner", account)

\* Anybody may present a quote; only a genuine one passes the DCAP verifier.
RegisterEnclave(quote) ==
  /\ admin.dcapVerifier # NONE
  /\ admin.trustedMrEnclave # NONE
  /\ quote.mrenclave = admin.trustedMrEnclave
  /\ quote.key # NONE
  /\ admin' = [admin EXCEPT !.enclaveSigningKey = quote.key]
  /\ UNCHANGED << tree, nullifierHashes, commitments, vault >>

-------------------------------------------------------------------------------
(* Deposits and withdrawals *)

\* Mutant of DepositAccepted: a commitment may be deposited again.
DepositAcceptedTwice(commitment, token, amount) ==
  token \in admin.supportedTokens /\ amount > 0 /\ HasRoom(tree, 1)

DepositAccepted(commitment, token, amount) ==
  /\ token \in admin.supportedTokens
  /\ commitment \notin commitments
  /\ amount > 0
  /\ HasRoom(tree, 1)

\* deposit(): nothing ties the commitment to the token and the amount that are
\* paid.  The token transfers only what somebody has.
Deposit(commitment, token, amount) ==
  /\ DepositAccepted(commitment, token, amount)
  /\ vault[token] + amount <= Supply
  /\ vault' = [vault EXCEPT ![token] = @ + amount]
  /\ tree' = Inserted(tree, commitment)
  /\ commitments' = commitments \cup {commitment}
  /\ UNCHANGED << nullifierHashes, admin >>

\* As the command line calls it, with the token and the amount of the note.
DepositNote(note) == Deposit(note, note.token, note.amount)

\* The SP1 withdrawal proof: the prover knows a note with this nullifier, token
\* and amount, and a Merkle path from it to the root.
ProofValid(note, nullifier, root, token, amount) ==
  /\ nullifier = Nullifier(note) /\ token = note.token /\ amount = note.amount
  /\ \E k \in 1 .. tree.nextIndex :
       root = RootAfter(tree, k) /\ \E i \in 1 .. k : tree.log[i].leaf = note

\* Mutant of ProvedAmount: the cast is narrower.
ProvedAmountNarrow(amount) == amount % (UINT128 \div 4)

\* What the public values say of the 256-bit amount of the call: uint128(amount).
ProvedAmount(amount) == amount % UINT128

\* Mutant of WithdrawAccepted: the nullifier is not looked up.
WithdrawAcceptedAgain(note, nullifier, root, token, amount) ==
  /\ IsKnownRoot(tree, root)
  /\ token \in admin.supportedTokens
  /\ ProofValid(note, nullifier, root, token, ProvedAmount(amount))

WithdrawAccepted(note, nullifier, root, token, amount) ==
  /\ nullifier \notin nullifierHashes
  /\ IsKnownRoot(tree, root)
  /\ token \in admin.supportedTokens
  /\ ProofValid(note, nullifier, root, token, ProvedAmount(amount))

\* withdraw() of a note against a root.  The token is transferred in full, the
\* amount of the call and not the proved one.
Withdraw(note, root, amount) ==
  /\ WithdrawAccepted(note, Nullifier(note), root, note.token, amount)
  /\ vault[note.token] >= amount
  /\ nullifierHashes' = nullifierHashes \cup {Nullifier(note)}
  /\ vault' = [vault EXCEPT ![note.token] = @ - amount]
  /\ UNCHANGED << tree, commitments, admin >>

-------------------------------------------------------------------------------
(* Settlement *)

\* The four words settleMatch hashes and the enclave signs.
Settlement(buyerOld, sellerOld, buyerNew, sellerNew) ==
  [buyerOld |-> buyerOld, sellerOld |-> sellerOld, buyerNew |-> buyerNew, sellerNew |-> sellerNew]

Signed(key, settlement) == [signer |-> key, over |-> settlement]

\* An empty attestation.
Unsigned == << >>

AttestationAccepted(settlement, attestation) ==
  IF attestation = Unsigned
  THEN ~admin.requireAttestation
  ELSE /\ attestation.over = settlement
       /\ attestation.signer # NONE
       /\ attestation.signer = admin.enclaveSigningKey

\* Mutant of SettleAccepted: the seller's nullifier is not looked up.
SettleAcceptedSellerSpent(sender, s, attestation) ==
  /\ sender = admin.teeOperator
  /\ s.buyerOld \notin nullifierHashes
  /\ AttestationAccepted(s, attestation)
  /\ HasRoom(tree, 2)

SettleAccepted(sender, s, attestation) ==
  /\ sender = admin.teeOperator
  /\ s.buyerOld \notin nullifierHashes
  /\ s.sellerOld \notin nullifierHashes
  /\ AttestationAccepted(s, attestation)
  /\ HasRoom(tree, 2)

\* Mutant of SpentBy: only the buyer's nullifier is recorded.
SpentByBuyer(s) == {s.buyerOld}

SpentBy(s) == {s.buyerOld, s.sellerOld}

SettleMatch(sender, s, attestation) ==
  /\ SettleAccepted(sender, s, attestation)
  /\ nullifierHashes' = nullifierHashes \cup SpentBy(s)
  /\ tree' = Inserted(Inserted(tree, s.buyerNew), s.sellerNew)
  /\ commitments' = commitments \cup {s.buyerNew, s.sellerNew}
  /\ UNCHANGED << vault, admin >>

-------------------------------------------------------------------------------
(* Calls of anybody and of the owner *)

Note(nn, token, amount) == [nn |-> nn, token |-> token, amount |-> amount]

\* Secrets are drawn at random, so a new note has secrets no leaf has: here the
\* least number not used yet.
FreshNN == tree.nextIndex + 1

\* Against any root there was, for any amount up to a few more than 2^128.
WithdrawBySomeone ==
  \E note \in commitments \ {ZERO}, k \in 1 .. tree.nextIndex, amount \in 1 .. UINT128 + 2 :
    Withdraw(note, RootAfter(tree, k), amount)

OwnerNext ==
  \E sender \in Accounts :
    \/ \E token \in Tokens : AddSupportedToken(sender, token) \/ RemoveSupportedToken(sender, token)
    \/ \E account \in Accounts : SetTEEOperator(sender, account) \/ TransferOwnership(sender, account)
    \/ \E key \in Keys \cup {NONE} : SetEnclaveSigningKey(sender, key)
    \/ \E flag \in BOOLEAN : SetRequireAttestation(sender, flag)
    \/ \E mrenclave \in { q.mrenclave : q \in Quotes } \cup {NONE} : SetTrustedMrEnclave(sender, mrenclave)
    \/ \E verifier \in Verifiers \cup {NONE} : SetDcapVerifier(sender, verifier)

-------------------------------------------------------------------------------
(* What is checked *)

LeafSet == { tree.log[i].leaf : i \in 1 .. Len(tree.log) }

\* The notes that can still be spent.  Nobody has the preimage of bytes32(0).
Unspent == { note \in LeafSet \ {ZERO} : Nullifier(note) \notin nullifierHashes }

\* What the unspent notes claim of a token together.
Claimed(token) ==
  FoldSet(LAMBDA note, sum : sum + note.amount, 0, { note \in Unspent : note.token = token })

\* Type correctness of the contract's storage: the commitments mapping is what
\* the tree holds, and the tree no more than fits.
PoolTypeOK ==
  /\ TreeTypeOK
  /\ commitments = LeafSet
  /\ tree.nextIndex <= MAX_LEAVES
  /\ \A token \in Tokens : vault[token] \in Nat
  /\ admin.supportedTokens \subseteq Tokens
  /\ admin.owner \in Accounts /\ admin.teeOperator \in Accounts
  /\ admin.enclaveSigningKey \in Keys \cup {NONE}
  /\ admin.requireAttestation \in BOOLEAN

\* The contract can pay every unspent note there is, where what was deposited
\* and settled is what the notes say.
Solvent == \A token \in Tokens : vault[token] >= Claimed(token)

\* No funds are stuck: a note that was never spent can be withdrawn now against
\* the current root, however long ago it was inserted and whatever has become
\* of the root it was inserted under, as long as its token is supported.
UnspentNotesWithdrawable ==
  \A note \in Unspent :
    note.token \in admin.supportedTokens =>
      /\ WithdrawAccepted(note, Nullifier(note), GetLastRoot(tree), note.token, note.amount)
      /\ vault[note.token] >= note.amount

\* The contract as a shielded pool: its notes are the leaves whose nullifier is
\* not spent, its funds the contract's balances.
PoolView == INSTANCE ShieldedPool WITH
  Notes <- Leaves,
  unspent <- Unspent,
  used <- { Nullifier(note) : note \in LeafSet },
  funds <- vault

\* Of a pool whose deposits were what their notes say: whatever the enclave or
\* the owner does, and wherever the server is cut short, no step pays a note
\* twice or issues notes that claim more than those they replace.
PoolStepsOnly == [][PoolView!SPNext]_(PoolView!spvars)
===============================================================================
