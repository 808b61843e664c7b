--------------------------------- MODULE Client ---------------------------------
(***************************************************************************)
(* cli/src: the commands deposit (deposit.rs) and withdraw (withdraw.rs),  *)
(* with the indexer that rebuilds the tree from the contract's events      *)
(* (indexer.rs), run against the pool by the holder of one wallet.  Each   *)
(* session is one run of the program; runs overlap, share the wallet and   *)
(* the note files, and may die in any await, by an error or a kill.        *)
(*                                                                         *)
(* Every block holds one transaction, or none; it is final.  The wallet's  *)
(* transactions are mined in the order of their nonces.                    *)
(***************************************************************************)
EXTENDS DePLOB, CoreMerkle

CONSTANTS Sessions,            \* runs of the program; a deposit's secrets are the number of its session
          Files,               \* paths given as --note-file and --note
          Token,               \* the token the wallet has some of
          InitialDeposits,     \* made before the first session, in InitialHeights
          InitialHeights,
          InitialFiles,        \* what the files hold at first
          Balance,             \* what the wallet has at first
          DeployBlocks,        \* values of DEPLOY_BLOCK, NONE for unset
          CHUNK_SIZE,          \* 10,000 blocks in the code
          WINDOW,              \* 50,000 blocks in the code
          MaxHead,             \* bound on the blocks others' activity fills
          TORN                 \* a file whose writing was not finished

\* Notes others made, the k-th deposit with secrets k, and those of the sessions.
ASSUME ClientAssumption ==
  /\ CHUNK_SIZE \in Nat \ {0} /\ WINDOW \in Nat /\ MaxHead \in Nat
  /\ DeployBlocks \subseteq Nat \cup {NONE}
  /\ Token \in Tokens /\ Balance \in Nat
  /\ Sessions \subseteq Nat \ (0 .. MAX_LEAVES + 1)
  /\ NONE \notin Sessions /\ NONE \notin {"deposit", "withdraw", "generate", "file", "none"}
  /\ [nn : Sessions, token : {Token}, amount : Amounts] \subseteq Leaves
  /\ NONE \notin Leaves /\ TORN \notin Leaves
  /\ InitialFiles \in [Files -> Leaves \cup {NONE, TORN}]

\* The deposits made before the first session are in a chain's blocks and paid for.
ASSUME HistoryAssumption ==
  /\ InitialDeposits \in Seq([nn : 1 .. MAX_LEAVES, token : Tokens, amount : Amounts])
  /\ Len(InitialDeposits) <= MAX_LEAVES
  /\ \A i \in 1 .. Len(InitialDeposits) : InitialDeposits[i].nn = i
  /\ \A token \in Tokens : FundsOf(InitialDeposits)[token] <= Supply
  /\ InitialHeights \in Seq(Nat) /\ Len(InitialHeights) = Len(InitialDeposits)
  /\ \A i, j \in 1 .. Len(InitialHeights) : i <= j => InitialHeights[i] <= InitialHeights[j]

VARIABLES head,                \* the number of the latest block
          heights,             \* the block of each leaf
          wallet,              \* what the token contract records of the wallet
          pending,             \* its transactions that are not mined
          noteFile,            \* file -> a note, TORN, or NONE
          proofFile,           \* withdraw_proof.bin: a proof, or NONE
          session,             \* session -> the state of that run
          overtaken            \* history: sessions whose deposit waited while a block changed
                               \* what its estimate had gone by

clientVars == << poolVars, head, heights, wallet, pending, noteFile, proofFile, session, overtaken >>

Idle == [kind |-> NONE, pc |-> "idle", note |-> NONE, file |-> NONE, source |-> NONE,
         latest |-> 0, start |-> 0, from |-> 0, indexed |-> << >>, path |-> NONE, root |-> NONE]

Ended == {"done", "died", "unreadable", "mismatch", "notFound", "noProof", "refused"}

ClientInit ==
  /\ PoolHolding(InitialDeposits)
  /\ admin = [Deployed EXCEPT !.supportedTokens = Tokens]
  /\ heights = InitialHeights
  /\ head = Max(ToSet(InitialHeights) \cup {0})
  /\ wallet = [balance |-> Balance, allowance |-> 0]
  /\ pending = << >>
  /\ noteFile = InitialFiles
  /\ proofFile = NONE
  /\ session = [s \in Sessions |-> Idle]
  /\ overtaken = {}

-------------------------------------------------------------------------------
(* The chain *)

\* A proof binds a note to a root; the wallet that receives is left out.
Proof(note, root) == [note |-> note, root |-> root]

Approve(s, amount)          == [kind |-> "approve", by |-> s, amount |-> amount]
DepositTx(s, note)          == [kind |-> "deposit", by |-> s, note |-> note]
WithdrawTx(s, note, root, proof) ==
  [kind |-> "withdraw", by |-> s, note |-> note, root |-> root, proof |-> proof]

\* Whether a transaction would succeed now: what the estimate of its gas, made
\* before it is sent, finds out, and what decides when it is mined.
Succeeds(tx) ==
  CASE tx.kind = "approve"  -> TRUE
    [] tx.kind = "deposit"  -> /\ DepositAccepted(tx.note, tx.note.token, tx.note.amount)
                               /\ wallet.balance >= tx.note.amount
                               /\ wallet.allowance >= tx.note.amount
    [] tx.kind = "withdraw" -> /\ tx.proof = Proof(tx.note, tx.root)
                               /\ WithdrawAccepted(tx.note, Nullifier(tx.note), tx.root,
                                                   tx.note.token, tx.note.amount)
                               /\ vault[tx.note.token] >= tx.note.amount

\* approve sets the allowance, whatever is left of an earlier one.
Effect(tx) ==
  \/ /\ tx.kind = "approve"
     /\ wallet' = [wallet EXCEPT !.allowance = tx.amount]
     /\ UNCHANGED poolVars
  \/ /\ tx.kind = "deposit"
     /\ DepositNote(tx.note)
     /\ wallet' = [balance   |-> wallet.balance - tx.note.amount,
                   allowance |-> wallet.allowance - tx.note.amount]
  \/ /\ tx.kind = "withdraw"
     /\ Withdraw(tx.note, tx.root, tx.note.amount)
     /\ UNCHANGED wallet

\* What the estimate of a deposit goes by.
EstimatedBy == << wallet, admin, HasRoom(tree, 1) >>

\* The sessions whose deposit is not mined.
Depositing == { s \in Sessions : \E i \in 1 .. Len(pending) :
                                   pending[i].kind = "deposit" /\ pending[i].by = s }

\* The next block; the leaves inserted in this step are in it.
Block ==
  /\ head' = head + 1
  /\ heights' = heights \o [i \in 1 .. tree'.nextIndex - tree.nextIndex |-> head + 1]
  /\ overtaken' = overtaken \cup (IF EstimatedBy' = EstimatedBy THEN {} ELSE Depositing')

\* A transaction that fails is in a block too, and its receipt says so.
MineNext ==
  /\ pending # << >>
  /\ pending' = Tail(pending)
  /\ IF Succeeds(Head(pending)) THEN Effect(Head(pending)) ELSE UNCHANGED << poolVars, wallet >>
  /\ UNCHANGED << noteFile, proofFile, session >>
  /\ Block

EmptyBlock ==
  /\ head < MaxHead
  /\ UNCHANGED poolVars
  /\ UNCHANGED << wallet, pending, noteFile, proofFile, session >>
  /\ Block

OthersDeposit ==
  /\ head < MaxHead
  /\ \E amount \in Amounts :
       /\ vault[Token] + wallet.balance + amount <= Supply
       /\ DepositNote(Note(FreshNN, Token, amount))
  /\ UNCHANGED << wallet, pending, noteFile, proofFile, session >>
  /\ Block

\* The owner takes the token off the list, for good.
OwnerDelists ==
  /\ head < MaxHead
  /\ Token \in admin.supportedTokens
  /\ RemoveSupportedToken(admin.owner, Token)
  /\ UNCHANGED << wallet, pending, noteFile, proofFile, session >>
  /\ Block

\* Mutant of IsMined: a transaction is not waited for.
IsMinedAtOnce(s) == TRUE

\* watch() returns once the transaction is in a block, failed or not.
IsMined(s) == \A i \in 1 .. Len(pending) : pending[i].by # s

-------------------------------------------------------------------------------
(* deposit *)

Goes(s, pc) == session' = [session EXCEPT ![s].pc = pc]

Send(tx) == pending' = Append(pending, tx)

OffChain == UNCHANGED << poolVars, head, heights, wallet, overtaken >>

\* Draw the secrets of a note and send the approval of its amount.
DepositBegins(s, file, amount) ==
  /\ session[s].pc = "idle"
  /\ Send(Approve(s, amount))
  /\ session' = [session EXCEPT ![s] = [@ EXCEPT !.kind = "deposit", !.pc = "approving",
                                                 !.file = file, !.note = Note(s, Token, amount)]]
  /\ OffChain /\ UNCHANGED << noteFile, proofFile >>

\* Mutant of SendDeposit: the estimate's failure does not stop it.
SendDepositAnyway(s) ==
  /\ session[s].pc = "approving" /\ IsMined(s)
  /\ Send(DepositTx(s, session[s].note)) /\ Goes(s, "depositing")
  /\ OffChain /\ UNCHANGED << noteFile, proofFile >>

\* The approval is mined; send the deposit, unless the estimate fails.
SendDeposit(s) ==
  /\ session[s].pc = "approving" /\ IsMined(s)
  /\ LET tx == DepositTx(s, session[s].note)
     IN  \/ Succeeds(tx) /\ Send(tx) /\ Goes(s, "depositing")
         \/ ~Succeeds(tx) /\ Goes(s, "refused") /\ UNCHANGED pending
  /\ OffChain /\ UNCHANGED << noteFile, proofFile >>

\* Mutant of SaveBegins: the note is not written over a file that is there.
SaveBeginsNew(s) ==
  /\ session[s].pc = "depositing" /\ IsMined(s)
  /\ IF noteFile[session[s].file] = NONE
     THEN noteFile' = [noteFile EXCEPT ![session[s].file] = TORN] /\ Goes(s, "saving")
     ELSE Goes(s, "done") /\ UNCHANGED noteFile
  /\ OffChain /\ UNCHANGED << pending, proofFile >>

\* The deposit is mined: std::fs::write empties the file, then fills it.
SaveBegins(s) ==
  /\ session[s].pc = "depositing" /\ IsMined(s)
  /\ noteFile' = [noteFile EXCEPT ![session[s].file] = TORN]
  /\ Goes(s, "saving")
  /\ OffChain /\ UNCHANGED << pending, proofFile >>

SaveEnds(s) ==
  /\ session[s].pc = "saving"
  /\ noteFile' = [noteFile EXCEPT ![session[s].file] = session[s].note]
  /\ Goes(s, "done")
  /\ OffChain /\ UNCHANGED << pending, proofFile >>

-------------------------------------------------------------------------------
(* withdraw *)

HoldsNote(file) == noteFile[file] \notin {NONE, TORN}

\* saturating_sub where DEPLOY_BLOCK is not set.
StartBlock(deployBlock, latest) ==
  IF deployBlock # NONE THEN deployBlock
  ELSE IF latest >= WINDOW THEN latest - WINDOW ELSE 0

\* Read the note and the number of the latest block.
WithdrawBegins(s, file, source, deployBlock) ==
  /\ session[s].pc = "idle"
  /\ session' = [session EXCEPT ![s] =
       IF HoldsNote(file)
       THEN [@ EXCEPT !.kind = "withdraw", !.pc = "fetching", !.note = noteFile[file],
                      !.source = source, !.latest = head,
                      !.start = StartBlock(deployBlock, head), !.from = StartBlock(deployBlock, head)]
       ELSE [@ EXCEPT !.kind = "withdraw", !.pc = "unreadable"]]
  /\ OffChain /\ UNCHANGED << pending, noteFile, proofFile >>

\* How many leaves the blocks up to one hold.
LeavesUpTo(block) == Cardinality({ i \in 1 .. Len(heights) : heights[i] <= block })

\* The events of the leaves after the first k, up to the n-th.
EventsOf(k, n) ==
  [i \in 1 .. n - k |-> [idx |-> k + i - 1, leaf |-> tree.log[k + i].leaf]]

\* The events of a range of blocks, in the order of the log.
Events(from, to) == EventsOf(LeavesUpTo(from - 1), LeavesUpTo(to))

\* The last block of a chunk.
ChunkEnd(from, latest) == Min({from + CHUNK_SIZE - 1, latest})

\* Mutant of FetchChunk: two chunks share a block.
FetchChunkTwice(s) ==
  LET this == session[s]
      to   == ChunkEnd(this.from, this.latest)
  IN  /\ this.pc = "fetching" /\ this.from <= this.latest
      /\ session' = [session EXCEPT ![s].indexed = @ \o Events(this.from - 1, to), ![s].from = to + 1]
      /\ OffChain /\ UNCHANGED << pending, noteFile, proofFile >>

\* One eth_getLogs of a chunk of blocks, in the loop of sync.
FetchChunk(s) ==
  LET this == session[s]
      to   == ChunkEnd(this.from, this.latest)
  IN  /\ this.pc = "fetching" /\ this.from <= this.latest
      /\ session' = [session EXCEPT ![s].indexed = @ \o Events(this.from, to), ![s].from = to + 1]
      /\ OffChain /\ UNCHANGED << pending, noteFile, proofFile >>

\* sort_by_key, which is stable: the k-th event is the one with k - 1 before it.
SortedByIndex(events) ==
  LET n == Len(events)
      Before(j, i) == events[j].idx < events[i].idx \/ (events[j].idx = events[i].idx /\ j < i)
      rank(i) == Cardinality({ j \in 1 .. n : Before(j, i) })
  IN  [k \in 1 .. n |-> events[CHOOSE i \in 1 .. n : rank(i) = k - 1]]

\* Mutant of Contiguous: the assertion is not made.
ContiguousOrNot(events) == TRUE

\* The assertion of the rebuilding loop: leaf by leaf, the position in the copy
\* is the position in the contract.
Contiguous(events) == \A i \in 1 .. Len(events) : events[i].idx = i - 1

\* All chunks are here: sort the events, rebuild the tree, look the note up.
Rebuild(s) ==
  LET this   == session[s]
      events == SortedByIndex(this.indexed)
      copy   == TreeOf([i \in 1 .. Len(events) |-> events[i].leaf])
      found  == { i \in 1 .. Len(events) : events[i].leaf = this.note }
  IN  /\ this.pc = "fetching" /\ this.from > this.latest
      /\ \/ ~Contiguous(events) /\ Goes(s, "mismatch")
         \/ Contiguous(events) /\ found = {} /\ Goes(s, "notFound")
         \/ /\ Contiguous(events) /\ found # {}
            /\ session' = [session EXCEPT ![s] =
                 [@ EXCEPT !.pc = "proving", !.indexed = << >>, !.root = copy.root,
                           !.path = ProofOf(copy, Max(found) - 1)]]
      /\ OffChain /\ UNCHANGED << pending, noteFile, proofFile >>

\* Mutant of SendWithdraw: the root sent is read from the contract.
SendWithdrawLastRoot(s) ==
  LET this == session[s]
      tx   == WithdrawTx(s, this.note, GetLastRoot(tree), Proof(this.note, this.root))
  IN  /\ this.pc = "proving"
      /\ \/ Succeeds(tx) /\ Send(tx) /\ Goes(s, "withdrawing")
         \/ ~Succeeds(tx) /\ Goes(s, "refused") /\ UNCHANGED pending
      /\ OffChain /\ UNCHANGED << noteFile, proofFile >>

\* The proof is made, which may take long, or read from the file it was made
\* into before, or is empty when none is asked for.
ProofFor(this) ==
  CASE this.source = "file" -> proofFile
    [] this.source = "none" -> NONE
    [] OTHER -> IF Verify(this.path, this.note, this.root) THEN Proof(this.note, this.root) ELSE NONE

\* Send the withdrawal with the root of the sync, whatever root the proof is
\* for, unless the proof's file cannot be read or the estimate fails.
SendWithdraw(s) ==
  LET this == session[s]
      tx   == WithdrawTx(s, this.note, this.root, ProofFor(this))
      readable == this.source = "file" => proofFile # NONE
  IN  /\ this.pc = "proving"
      /\ \/ ~readable /\ Goes(s, "noProof") /\ UNCHANGED pending
         \/ readable /\ Succeeds(tx) /\ Send(tx) /\ Goes(s, "withdrawing")
         \/ readable /\ ~Succeeds(tx) /\ Goes(s, "refused") /\ UNCHANGED pending
      /\ OffChain /\ UNCHANGED << noteFile, proofFile >>

\* The withdrawal is mined, and is reported as a success if it failed.
WithdrawEnds(s) ==
  /\ session[s].pc = "withdrawing" /\ IsMined(s)
  /\ Goes(s, "done")
  /\ OffChain /\ UNCHANGED << pending, noteFile, proofFile >>

\* sp1-programs/withdraw/script: a proof for a note, made apart from the CLI
\* against the current root, and saved.
ScriptProves(file) ==
  /\ proofFile = NONE /\ HoldsNote(file)
  /\ \E i \in 1 .. tree.nextIndex :
       /\ tree.log[i].leaf = noteFile[file]
       /\ Verify(ProofOf(Copy, i - 1), noteFile[file], GetLastRoot(tree))
  /\ proofFile' = Proof(noteFile[file], GetLastRoot(tree))
  /\ OffChain /\ UNCHANGED << pending, noteFile, session >>

\* An await returns an error, or the process is killed.  What it sent stays sent.
Dies(s) ==
  /\ session[s].pc \notin Ended \cup {"idle"}
  /\ session' = [session EXCEPT ![s] = [Idle EXCEPT !.pc = "died", !.kind = session[s].kind,
                                                    !.note = session[s].note, !.file = session[s].file]]
  /\ OffChain /\ UNCHANGED << pending, noteFile, proofFile >>

-------------------------------------------------------------------------------

ClientNext ==
  \/ MineNext
  \/ EmptyBlock
  \/ OthersDeposit
  \/ OwnerDelists
  \/ \E file \in Files : ScriptProves(file)
  \/ \E s \in Sessions :
       \/ \E file \in Files :
            \/ \E amount \in Amounts : DepositBegins(s, file, amount)
            \/ \E source \in {"generate", "file", "none"}, deployBlock \in DeployBlocks :
                 WithdrawBegins(s, file, source, deployBlock)
       \/ SendDeposit(s) \/ SaveBegins(s) \/ SaveEnds(s)
       \/ FetchChunk(s) \/ Rebuild(s) \/ SendWithdraw(s) \/ WithdrawEnds(s)
       \/ Dies(s)

ClientSpec == ClientInit /\ [][ClientNext]_clientVars

-------------------------------------------------------------------------------
(* What is checked *)

\* Type correctness: the blocks account for the leaves, and a session has at
\* most one transaction that is not mined, which it waits for unless it died.
ClientTypeOK ==
  /\ Len(heights) = tree.nextIndex
  /\ \A i \in 1 .. Len(heights) : heights[i] <= head
  /\ wallet.balance \in Nat /\ wallet.allowance \in Nat
  /\ \A s \in Sessions :
       /\ session[s].pc \in {"idle", "approving", "depositing", "saving",
                             "fetching", "proving", "withdrawing"} \cup Ended
       /\ Cardinality({ i \in 1 .. Len(pending) : pending[i].by = s }) <= 1
       /\ ~IsMined(s) => session[s].pc \in {"approving", "depositing", "withdrawing", "died"}

\* Whatever the chunks and the window, a sync that ends without an error has
\* exactly the tree of the block it started from, though leaves were inserted
\* all the while: its root is one the contract had then.
SyncedTreeIsAVersion ==
  \A s \in Sessions :
    session[s].root # NONE => session[s].root = RootAfter(tree, LeavesUpTo(session[s].latest))

\* A sync fails on a note only when its first block is after the first leaf, or
\* the note was not in the tree yet: no chunk is lost or fetched twice.
SyncFindsTheNote ==
  \A s \in Sessions :
    session[s].pc \in {"mismatch", "notFound"} =>
      \/ session[s].start > heights[1]
      \/ \A i \in 1 .. LeavesUpTo(session[s].latest) : tree.log[i].leaf # session[s].note

\* The secrets of a deposit that was paid for are kept, by the program while it
\* runs and by the file after, unless the program died before it had saved them
\* or another deposit is saved to the same file.
PaidNotesKept ==
  \A s \in Sessions :
    session[s].kind = "deposit" /\ session[s].note \in commitments =>
      \/ session[s].pc \in {"depositing", "saving", "died"}
      \/ \E file \in Files : noteFile[file] = session[s].note
      \/ \E t \in Sessions \ {s} :
           /\ session[t].kind = "deposit" /\ session[t].file = session[s].file
           /\ session[t].pc \in {"saving", "done", "died"}

\* A note is saved without having been paid for only if, while its deposit was
\* waiting, a block changed what the estimate had gone by: another transaction
\* of the wallet took the allowance or the balance, the token was delisted, or
\* the tree was filled.  watch() does not look at the receipt.
SavedNotesPaid ==
  \A s \in Sessions :
    session[s].pc = "done" /\ session[s].kind = "deposit" =>
      session[s].note \in commitments \/ s \in overtaken

\* A withdrawal of a session that could not be sent, or failed when it was mined,
\* though the sync was in order: its note is spent, its token delisted, or its
\* root no longer known.
RefusedForAReason(s) ==
  session[s].kind = "withdraw" /\ session[s].pc \in {"refused", "done"} =>
    \/ Nullifier(session[s].note) \in nullifierHashes
    \/ session[s].note.token \notin admin.supportedTokens
    \/ tree.nextIndex - LeavesUpTo(session[s].latest) >= ROOT_HISTORY_SIZE

\* A proof made in the session is accepted until ROOT_HISTORY_SIZE leaves have
\* followed the sync, however long making it takes, unless the note is spent or
\* its token delisted.
FreshProofsAccepted ==
  \A s \in Sessions : session[s].source = "generate" => RefusedForAReason(s)

-------------------------------------------------------------------------------
(* What documents say of the system and the code does not do *)

\* CP4101-final.tex:901, a root rotates out and "the proof must be regenerated"
\* "if more than 30 new deposits occur between proof generation and on-chain
\* submission": a proof that was made before the sync is good until then.
ProofsLastTheWindow ==
  \A s \in Sessions :
    /\ session[s].source = "file" /\ session[s].pc = "refused"
    /\ proofFile.note = session[s].note
    /\ \E k \in 1 .. LeavesUpTo(session[s].latest) - 1 : proofFile.root = RootAfter(tree, k)
    /\ IsKnownRoot(tree, proofFile.root)
    => \/ Nullifier(session[s].note) \in nullifierHashes
       \/ session[s].note.token \notin admin.supportedTokens
===============================================================================
