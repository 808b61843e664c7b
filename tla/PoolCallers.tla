------------------------------ MODULE PoolCallers ------------------------------
(***************************************************************************)
(* contracts/src/DePLOB.sol under whoever may call it.  A depositor may    *)
(* claim anything with the commitment it sends, whatever it pays, since    *)
(* deposit verifies nothing; the operator may settle any nullifiers with   *)
(* any commitments, since an unsigned settlement is accepted while         *)
(* requireAttestation is not set.  A history variable tells what claims    *)
(* they issued without funds: that, and no more, is what may be missing.   *)
(***************************************************************************)
EXTENDS DePLOB

CONSTANT NoteSecrets           \* the secrets of notes

ASSUME SecretsAssumption == [nn : NoteSecrets, token : Tokens, amount : Amounts] \subseteq Leaves

VARIABLE unbacked              \* history: token -> the claims issued without funds

callersVars == << poolVars, unbacked >>

\* The notes there may be, and bytes32(0), which stands for all that is none.
Notes == [nn : NoteSecrets, token : Tokens, amount : Amounts]
Commitments == Notes \cup {ZERO}

\* What some commitments claim of a token together.
ClaimsOf(new, token) ==
  FoldSet(LAMBDA note, sum : sum + note.amount, 0, { note \in new \ {ZERO} : note.token = token })

\* The claims no funds or spent claims stand behind.
Excess(claims, cover) == IF claims > cover THEN claims - cover ELSE 0

\* The unspent notes with one of some nullifiers.
NotesOf(nullifiers) == { note \in Unspent : Nullifier(note) \in nullifiers }

\* Once the owner has listed the tokens and while it changes nothing else.
CallersInit ==
  /\ EmptyPool
  /\ admin = [Deployed EXCEPT !.supportedTokens = Tokens]
  /\ unbacked = [token \in Tokens |-> 0]

DepositBySomeone ==
  \E commitment \in Commitments, token \in Tokens, amount \in Amounts :
    /\ Deposit(commitment, token, amount)
    /\ unbacked' = [t \in Tokens |->
         unbacked[t] + Excess(ClaimsOf({commitment}, t), IF t = token THEN amount ELSE 0)]

\* An unsigned settlement passes, a signed one has no key to be signed with.
SettleBySomeone ==
  \E sender \in Accounts, buyerOld, sellerOld \in NoteSecrets, buyerNew, sellerNew \in Commitments :
    LET s == Settlement(buyerOld, sellerOld, buyerNew, sellerNew)
    IN  /\ SettleMatch(sender, s, Unsigned)
        /\ unbacked' = [t \in Tokens |->
             unbacked[t] + Excess(ClaimsOf({buyerNew, sellerNew}, t),
                                  ClaimsOf(NotesOf({buyerOld, sellerOld}), t))]

CallersNext ==
  \/ DepositBySomeone
  \/ WithdrawBySomeone /\ UNCHANGED unbacked
  \/ SettleBySomeone

CallersSpec == CallersInit /\ [][CallersNext]_callersVars

-------------------------------------------------------------------------------
(* What is checked *)

\* Over any sequence of deposits that claim anything, withdrawals against old
\* roots, settlements of anything and replays of them, the contract can pay
\* every unspent note but for what deposits claimed beyond what they paid and
\* settlements beyond what they spent: no other call makes claims or loses funds.
SolventButForUnbacked ==
  \A token \in Tokens : vault[token] + unbacked[token] >= Claimed(token)

\* No note is stuck: one that was never spent can be withdrawn now against the
\* current root, however long ago it was inserted, whatever has become of the
\* root it was inserted under and whatever others deposited and settled; and it
\* is paid unless claims of its token were issued without funds.
UnspentNotesPayable ==
  \A note \in Unspent :
    /\ WithdrawAccepted(note, Nullifier(note), GetLastRoot(tree), note.token, note.amount)
    /\ unbacked[note.token] = 0 => vault[note.token] >= note.amount

\* The contract implements the open pool: trees, roots and the cast of amounts
\* to 128 bits are nowhere to be seen.
OpenView == INSTANCE OpenPool WITH
  EMPTY <- ZERO,
  unspent <- Unspent,
  spent <- nullifierHashes,
  funds <- vault

ImplementsOpenPool == OpenView!OPSpec

-------------------------------------------------------------------------------
(* What a document says of the contract and the code does not do *)

\* docs/04-operations.md:34-38, deposit verifies a proof of "commitment, token,
\* amount": the note a deposit commits to claims just what the deposit pays.
DepositsVerified ==
  [][ \A note \in (commitments' \ commitments) \ {ZERO} :
        tree'.nextIndex = tree.nextIndex + 1 => vault' = Credited(vault, note) ]_callersVars
===============================================================================
