------------------------------ MODULE ClientProofs ------------------------------
(***************************************************************************)
(* Proofs about Client for any number of sessions and files, any chunks,   *)
(* window and deposits before, and any transactions of others: what a      *)
(* session waits for, what becomes of the notes it paid for and saved, that*)
(* a sync rebuilds the tree of its latest block, and that the proofs made  *)
(* from it are accepted while its root is known.                           *)
(***************************************************************************)
EXTENDS Client, PoolProofs

-------------------------------------------------------------------------------
(* The invariant's parts *)

\* The states of a session that deposits, and of one that withdraws.
DepositPcs  == {"approving", "depositing", "saving", "done", "died", "refused"}
WithdrawPcs == {"fetching", "proving", "withdrawing", "done", "died",
                "unreadable", "mismatch", "notFound", "noProof", "refused"}

\* The notes a session can draw.
SessionNotes(s) == [nn : {s}, token : {Token}, amount : Amounts]

\* A session that has begun a deposit, or a withdrawal.
BegunDeposit(s)  == session[s].pc \in DepositPcs /\ session[s].kind = "deposit"
BegunWithdraw(s) == session[s].pc \in WithdrawPcs /\ session[s].kind = "withdraw"

\* A session has begun one of the two commands, or nothing.
SessionOK(s) ==
  /\ DOMAIN session[s] = DOMAIN Idle
  /\ \/ session[s] = Idle
     \/ /\ BegunDeposit(s) /\ session[s].note \in SessionNotes(s) /\ session[s].file \in Files
        /\ session[s].root = NONE
     \/ BegunWithdraw(s)

\* The leaves are in blocks, in the order of the log.
ChainOK ==
  /\ head \in Nat /\ heights \in Seq(Nat) /\ Len(heights) = tree.nextIndex
  /\ \A i \in 1 .. Len(heights) : heights[i] <= head
  /\ \A i, j \in 1 .. Len(heights) : i <= j => heights[i] <= heights[j]

\* Transactions of a session that are not mined.
Unmined(s) == { i \in 1 .. Len(pending) : pending[i].by = s }

\* What a session has sent is what it waits for, unless it died.
TxOK(tx) ==
  /\ tx.by \in Sessions
  /\ \/ /\ tx.kind = "approve" /\ BegunDeposit(tx.by)
        /\ session[tx.by].pc \in {"approving", "died"}
        /\ tx.amount = session[tx.by].note.amount
     \/ /\ tx.kind = "deposit" /\ BegunDeposit(tx.by)
        /\ session[tx.by].pc \in {"depositing", "died"}
        /\ tx.note = session[tx.by].note
     \/ /\ tx.kind = "withdraw" /\ BegunWithdraw(tx.by)
        /\ session[tx.by].pc \in {"withdrawing", "died"}

\* The transactions that are not mined.
Sent == { pending[i] : i \in 1 .. Len(pending) }

PendingOK ==
  /\ \E S : pending \in Seq(S)
  /\ \A tx \in Sent : TxOK(tx)
  /\ \A i, j \in 1 .. Len(pending) : pending[i].by = pending[j].by => i = j

\* Commitments with a session's secrets are the session's.
SecretsKept ==
  \A note \in commitments :
    note.nn \in Sessions => BegunDeposit(note.nn) /\ note = session[note.nn].note

\* A note is not deposited before its transaction is mined, nor if it is never sent.
NotYetPaid(s) ==
  BegunDeposit(s) /\ (session[s].pc \in {"approving", "refused"} \/ Unmined(s) # {}) =>
    session[s].note \notin commitments

\* Who overwrites a file with another note.
Overwrites(t, s) ==
  /\ session[t].kind = "deposit" /\ session[t].file = session[s].file
  /\ session[t].pc \in {"saving", "done", "died"}

\* A file holds what the last deposit saved to it.
DoneSaved(s) ==
  BegunDeposit(s) /\ session[s].pc = "done" =>
    \/ noteFile[session[s].file] = session[s].note
    \/ \E t \in Sessions \ {s} : Overwrites(t, s)

\* What the estimate of a deposit finds, but that its commitment is new.
Payable(note) ==
  /\ wallet.balance >= note.amount /\ wallet.allowance >= note.amount
  /\ note.token \in admin.supportedTokens /\ HasRoom(tree, 1)

\* A deposit that was estimated to succeed does, unless it is overtaken.
EstimateHolds(s) ==
  BegunDeposit(s) /\ s \notin overtaken =>
    /\ session[s].pc = "depositing" /\ Unmined(s) # {} => Payable(session[s].note)
    /\ session[s].pc \in {"depositing", "saving", "done"} /\ Unmined(s) = {} =>
         session[s].note \in commitments

\* The types of what the wallet and the files hold.
StorageOK ==
  /\ wallet \in [balance : Nat, allowance : Nat]
  /\ noteFile \in [Files -> Leaves \cup {NONE, TORN}]

SessionsOK == DOMAIN session = Sessions /\ \A s \in Sessions : SessionOK(s)

ClientInv ==
  /\ ChainOK /\ StorageOK /\ SessionsOK /\ PendingOK
  /\ SecretsKept
  /\ \A s \in Sessions : NotYetPaid(s) /\ DoneSaved(s) /\ EstimateHolds(s)

-------------------------------------------------------------------------------
(* One session's steps *)

\* What a step that is not the chain's does to a session that has begun.
Moves(s, pc) ==
  /\ DOMAIN session' = Sessions
  /\ \A t \in Sessions \ {s} : session'[t] = session[t]
  /\ DOMAIN session'[s] = DOMAIN Idle
  /\ session'[s].pc = pc
  /\ session'[s].kind = session[s].kind
  /\ session'[s].note = session[s].note
  /\ session'[s].file = session[s].file

LEMMA GoesMoves ==
  ASSUME SessionsOK, NEW s \in Sessions, NEW pc, Goes(s, pc)
  PROVE  /\ Moves(s, pc)
         /\ session'[s].source = session[s].source /\ session'[s].latest = session[s].latest
         /\ session'[s].start = session[s].start /\ session'[s].from = session[s].from
         /\ session'[s].indexed = session[s].indexed
         /\ session'[s].path = session[s].path /\ session'[s].root = session[s].root
<1>1. session' = [session EXCEPT ![s] = [session[s] EXCEPT !.pc = pc]]
  BY DEF Goes
<1>2. DOMAIN session = Sessions /\ DOMAIN session[s] = DOMAIN Idle
  BY DEF SessionsOK, SessionOK
<1> DEFINE r == [session[s] EXCEPT !.pc = pc]
<1>3. /\ DOMAIN r = DOMAIN Idle /\ r.pc = pc
      /\ r.kind = session[s].kind /\ r.note = session[s].note /\ r.file = session[s].file
      /\ r.source = session[s].source /\ r.latest = session[s].latest
      /\ r.start = session[s].start /\ r.from = session[s].from
      /\ r.indexed = session[s].indexed
      /\ r.path = session[s].path /\ r.root = session[s].root
  BY <1>2 DEF Idle
<1>4. DOMAIN session' = Sessions /\ session'[s] = r /\ \A t \in Sessions \ {s} : session'[t] = session[t]
  BY <1>1, <1>2
<1>5. QED
  BY <1>3, <1>4 DEF Moves

LEMMA DiesMoves ==
  ASSUME SessionsOK, NEW s \in Sessions, Dies(s)
  PROVE  Moves(s, "died") /\ session'[s].root = NONE /\ session'[s].source = NONE
<1> DEFINE r == [Idle EXCEPT !.pc = "died", !.kind = session[s].kind,
                             !.note = session[s].note, !.file = session[s].file]
<1>1. session' = [session EXCEPT ![s] = r]
  BY DEF Dies
<1>2. DOMAIN session = Sessions
  BY DEF SessionsOK
<1>3. /\ DOMAIN r = DOMAIN Idle /\ r.pc = "died" /\ r.root = NONE /\ r.source = NONE
      /\ r.kind = session[s].kind /\ r.note = session[s].note /\ r.file = session[s].file
  BY DEF Idle
<1>4. DOMAIN session' = Sessions /\ session'[s] = r /\ \A t \in Sessions \ {s} : session'[t] = session[t]
  BY <1>1, <1>2
<1>5. QED
  BY <1>3, <1>4 DEF Moves

LEMMA FetchMoves ==
  ASSUME SessionsOK, NEW s \in Sessions, FetchChunk(s)
  PROVE  Moves(s, "fetching")
<1> DEFINE to == ChunkEnd(session[s].from, session[s].latest)
           more == session[s].indexed \o Events(session[s].from, to)
           r == [session[s] EXCEPT !.indexed = more, !.from = to + 1]
<1>1. session' = [session EXCEPT ![s] = r] /\ session[s].pc = "fetching"
  BY DEF FetchChunk
<1>2. DOMAIN session = Sessions /\ DOMAIN session[s] = DOMAIN Idle
  BY DEF SessionsOK, SessionOK
<1> HIDE DEF more, to
<1>3. /\ DOMAIN r = DOMAIN Idle /\ r.pc = session[s].pc
      /\ r.kind = session[s].kind /\ r.note = session[s].note /\ r.file = session[s].file
  BY <1>2 DEF Idle
<1>4. DOMAIN session' = Sessions /\ session'[s] = r /\ \A t \in Sessions \ {s} : session'[t] = session[t]
  BY <1>1, <1>2
<1>5. QED
  BY <1>1, <1>3, <1>4 DEF Moves

\* The three ways a rebuild ends.
LEMMA RebuildMoves ==
  ASSUME SessionsOK, NEW s \in Sessions, Rebuild(s)
  PROVE  session[s].pc = "fetching" /\ \E pc \in {"mismatch", "notFound", "proving"} : Moves(s, pc)
<1> DEFINE events == SortedByIndex(session[s].indexed)
           copy == TreeOf([i \in 1 .. Len(events) |-> events[i].leaf])
           found == { i \in 1 .. Len(events) : events[i].leaf = session[s].note }
           path == ProofOf(copy, Max(found) - 1)
           root == copy.root
           r == [session[s] EXCEPT !.pc = "proving", !.indexed = << >>, !.root = root, !.path = path]
<1>1. /\ session[s].pc = "fetching"
      /\ \/ Goes(s, "mismatch") \/ Goes(s, "notFound") \/ session' = [session EXCEPT ![s] = r]
  BY DEF Rebuild
<1> HIDE DEF events, copy, found, path, root
<1>2. CASE Goes(s, "mismatch")
  BY <1>1, <1>2, GoesMoves
<1>3. CASE Goes(s, "notFound")
  BY <1>1, <1>3, GoesMoves
<1>4. CASE session' = [session EXCEPT ![s] = r]
  <2>1. DOMAIN session = Sessions /\ DOMAIN session[s] = DOMAIN Idle
    BY DEF SessionsOK, SessionOK
  <2>2. /\ DOMAIN r = DOMAIN Idle /\ r.pc = "proving"
        /\ r.kind = session[s].kind /\ r.note = session[s].note /\ r.file = session[s].file
    BY <2>1 DEF Idle
  <2>3. DOMAIN session' = Sessions /\ session'[s] = r /\ \A t \in Sessions \ {s} : session'[t] = session[t]
    BY <1>4, <2>1
  <2>4. Moves(s, "proving")
    BY <2>2, <2>3 DEF Moves
  <2>5. QED
    BY <1>1, <2>4
<1>5. QED
  BY <1>1, <1>2, <1>3, <1>4

\* A step keeps a session to the command it began.
KeepsTo(s, pc) ==
  /\ session[s].pc # "idle"
  /\ BegunDeposit(s) => pc \in DepositPcs
  /\ BegunWithdraw(s) => pc \in WithdrawPcs

LEMMA BegunIsDoing ==
  ASSUME SessionsOK, NEW s \in Sessions, session[s].pc # "idle"
  PROVE  \/ /\ BegunDeposit(s) /\ session[s].note \in SessionNotes(s) /\ session[s].file \in Files
            /\ session[s].root = NONE
         \/ BegunWithdraw(s)
BY DEF SessionsOK, SessionOK, Idle

LEMMA OthersKeptTo ==
  ASSUME NEW s \in Sessions, NEW pc, Moves(s, pc), NEW t \in Sessions \ {s}
  PROVE  /\ session'[t] = session[t]
         /\ BegunDeposit(t)' <=> BegunDeposit(t)
         /\ BegunWithdraw(t)' <=> BegunWithdraw(t)
BY DEF Moves, BegunDeposit, BegunWithdraw

LEMMA SessionKeptTo ==
  ASSUME NEW s \in Sessions, NEW pc, Moves(s, pc), KeepsTo(s, pc), SessionsOK
  PROVE  /\ BegunDeposit(s)' <=> BegunDeposit(s)
         /\ BegunWithdraw(s)' <=> BegunWithdraw(s)
<1>1. session'[s].pc = pc /\ session'[s].kind = session[s].kind
  BY DEF Moves
<1>2. BegunDeposit(s) => BegunDeposit(s)'
  BY <1>1 DEF KeepsTo, BegunDeposit
<1>3. BegunWithdraw(s) => BegunWithdraw(s)'
  BY <1>1 DEF KeepsTo, BegunWithdraw
<1>4. ~(BegunDeposit(s) /\ BegunWithdraw(s)) /\ ~(BegunDeposit(s)' /\ BegunWithdraw(s)')
  BY DEF BegunDeposit, BegunWithdraw
<1>5. BegunDeposit(s) \/ BegunWithdraw(s)
  BY BegunIsDoing DEF KeepsTo
<1>6. QED
  BY <1>2, <1>3, <1>4, <1>5

LEMMA SessionsKept ==
  ASSUME SessionsOK, NEW s \in Sessions, NEW pc, Moves(s, pc), KeepsTo(s, pc),
         session'[s].root = session[s].root \/ session'[s].root = NONE \/ BegunWithdraw(s)
  PROVE  SessionsOK'
<1>1. DOMAIN session' = Sessions
  BY DEF Moves
<1>2. ASSUME NEW t \in Sessions \ {s} PROVE SessionOK(t)'
  <2>1. session'[t] = session[t] /\ SessionOK(t)
    BY DEF Moves, SessionsOK
  <2>2. QED
    BY <2>1 DEF SessionOK, BegunDeposit, BegunWithdraw
<1>3. SessionOK(s)'
  <2>1. /\ DOMAIN session'[s] = DOMAIN Idle /\ session'[s].note = session[s].note
        /\ session'[s].file = session[s].file
    BY DEF Moves
  <2>2. \/ /\ BegunDeposit(s) /\ session[s].note \in SessionNotes(s) /\ session[s].file \in Files
           /\ session[s].root = NONE
        \/ BegunWithdraw(s)
    BY BegunIsDoing DEF KeepsTo
  <2>3. (BegunDeposit(s)' <=> BegunDeposit(s)) /\ (BegunWithdraw(s)' <=> BegunWithdraw(s))
    BY SessionKeptTo
  <2>4. CASE BegunWithdraw(s)
    BY <2>1, <2>3, <2>4 DEF SessionOK
  <2>5. CASE ~BegunWithdraw(s)
    BY <2>1, <2>2, <2>3, <2>5 DEF SessionOK
  <2>6. QED
    BY <2>4, <2>5
<1>4. QED
  BY <1>1, <1>2, <1>3 DEF SessionsOK

\* The transactions there are stay what their sessions wait for.
LEMMA PendingKept ==
  ASSUME SessionsOK, PendingOK, NEW s \in Sessions, NEW pc, Moves(s, pc), KeepsTo(s, pc),
         pc = "died" \/ Unmined(s) = {}
  PROVE  \A tx \in Sent : TxOK(tx)'
<1> SUFFICES ASSUME NEW tx \in Sent PROVE TxOK(tx)'
  OBVIOUS
<1>1. TxOK(tx)
  BY DEF PendingOK
<1>2. CASE tx.by # s
  <2>1. tx.by \in Sessions \ {s}
    BY <1>1, <1>2 DEF TxOK
  <2>2. /\ session'[tx.by] = session[tx.by]
        /\ BegunDeposit(tx.by)' <=> BegunDeposit(tx.by)
        /\ BegunWithdraw(tx.by)' <=> BegunWithdraw(tx.by)
    BY <2>1, OthersKeptTo
  <2>3. QED
    BY <1>1, <2>2 DEF TxOK
<1>3. CASE tx.by = s
  <2>1. pc = "died"
    BY <1>3 DEF Unmined, Sent
  <2>2. (BegunDeposit(s)' <=> BegunDeposit(s)) /\ (BegunWithdraw(s)' <=> BegunWithdraw(s))
    BY SessionKeptTo
  <2>3. session'[s].pc = "died" /\ session'[s].note = session[s].note
    BY <2>1 DEF Moves
  <2>4. QED
    BY <1>1, <1>3, <2>2, <2>3 DEF TxOK
<1>4. QED
  BY <1>2, <1>3

LEMMA PendingStays ==
  ASSUME SessionsOK, PendingOK, NEW s \in Sessions, NEW pc, Moves(s, pc), KeepsTo(s, pc),
         pc = "died" \/ Unmined(s) = {}, pending' = pending
  PROVE  PendingOK' /\ \A t \in Sessions : Unmined(t)' = Unmined(t)
<1>1. \A tx \in Sent : TxOK(tx)'
  BY PendingKept
<1>2. Sent' = Sent
  BY DEF Sent
<1>3. (\A tx \in Sent : TxOK(tx))'
  BY <1>1, <1>2
<1>4. QED
  BY <1>3 DEF PendingOK, Unmined

LEMMA IsMinedMeans == ASSUME NEW s PROVE IsMined(s) <=> Unmined(s) = {}
BY DEF IsMined, Unmined

\* A session that waits for nothing sends one transaction.
LEMMA PendingGrows ==
  ASSUME SessionsOK, PendingOK, NEW s \in Sessions, Unmined(s) = {},
         \A sent \in Sent : TxOK(sent)', NEW tx, tx.by = s, TxOK(tx)', Send(tx)
  PROVE  /\ PendingOK' /\ Unmined(s)' # {}
         /\ \A t \in Sessions \ {s} : Unmined(t)' = Unmined(t)
<1> DEFINE n == Len(pending)
<1>1. PICK S : pending \in Seq(S)
  BY DEF PendingOK
<1>2. pending \in Seq(S \cup {tx}) /\ pending' = Append(pending, tx)
  BY <1>1 DEF Send
<1>3. /\ pending' \in Seq(S \cup {tx}) /\ n \in Nat /\ Len(pending') = n + 1
      /\ pending'[n + 1] = tx /\ \A i \in 1 .. n : pending'[i] = pending[i]
  BY <1>2
<1> HIDE DEF n
<1>4. \A i \in 1 .. n + 1 : i # n + 1 => i \in 1 .. n
  BY <1>3
<1>5. \A i \in 1 .. n : pending[i].by # s
  BY DEF Unmined, n
<1>6. (\A sent \in Sent : TxOK(sent))'
  <2>1. Sent' = Sent \cup {tx}
    <3>1. n + 1 \in 1 .. n + 1 /\ 1 .. n \subseteq 1 .. n + 1
      BY <1>3
    <3>2. Sent' = { pending'[i] : i \in 1 .. n + 1 } /\ Sent = { pending[i] : i \in 1 .. n }
      BY <1>3 DEF Sent, n
    <3>3. QED
      BY <1>3, <1>4, <3>1, <3>2
  <2>2. QED
    BY <2>1
<1>7. \A i, j \in 1 .. n : pending[i].by = pending[j].by => i = j
  BY DEF PendingOK, n
<1>8. \A i, j \in 1 .. n + 1 : pending'[i].by = pending'[j].by => i = j
  BY <1>3, <1>4, <1>5, <1>7
<1>9. PendingOK'
  <2>1. \E T : pending' \in Seq(T)
    BY <1>3
  <2>2. QED
    BY <1>3, <1>6, <1>8, <2>1 DEF PendingOK
<1>10. n + 1 \in 1 .. n + 1 /\ 1 .. n \subseteq 1 .. n + 1
  BY <1>3
<1>11. Unmined(s)' # {}
  BY <1>3, <1>10 DEF Unmined
<1>12. ASSUME NEW t \in Sessions \ {s} PROVE Unmined(t)' = Unmined(t)
  <2>1. Unmined(t) = { i \in 1 .. n : pending[i].by = t }
    BY DEF Unmined, n
  <2>2. Unmined(t)' = { i \in 1 .. n + 1 : pending'[i].by = t }
    BY <1>3 DEF Unmined
  <2>3. QED
    BY <1>3, <1>4, <1>10, <2>1, <2>2
<1>13. QED
  BY <1>9, <1>11, <1>12

\* A step of one session leaves what is said of the chain and of the others.
LEMMA OffChainKeeps ==
  ASSUME ClientInv, OffChain, NEW s \in Sessions, NEW pc, Moves(s, pc), KeepsTo(s, pc),
         \A t \in Sessions \ {s} : Unmined(t)' = Unmined(t),
         session[s].pc \in {"saving", "done", "died"} => pc \in {"saving", "done", "died"}
  PROVE  /\ ChainOK' /\ SecretsKept'
         /\ \A t \in Sessions \ {s} : NotYetPaid(t)' /\ EstimateHolds(t)'
         /\ noteFile' = noteFile => \A t \in Sessions \ {s} : DoneSaved(t)'
<1>1. /\ tree' = tree /\ commitments' = commitments /\ head' = head /\ admin' = admin
      /\ heights' = heights /\ wallet' = wallet /\ overtaken' = overtaken
  BY DEF OffChain, poolVars
<1>2. ChainOK'
  BY <1>1 DEF ClientInv, ChainOK
<1>3. /\ session'[s].note = session[s].note /\ session'[s].kind = session[s].kind
      /\ session'[s].file = session[s].file /\ session'[s].pc = pc
      /\ \A t \in Sessions \ {s} : session'[t] = session[t]
  BY DEF Moves
<1>4. \A t \in Sessions : (BegunDeposit(t) <=> BegunDeposit(t)') /\ session'[t].note = session[t].note
  <2>1. SessionsOK
    BY DEF ClientInv
  <2>2. QED
    BY <1>3, <2>1, OthersKeptTo, SessionKeptTo
<1>5. SecretsKept'
  BY <1>1, <1>4 DEF ClientInv, SecretsKept
<1>6. ASSUME NEW t \in Sessions \ {s} PROVE NotYetPaid(t)'
  <2>1. NotYetPaid(t)
    BY DEF ClientInv
  <2>2. QED
    BY <1>1, <1>3, <1>4, <2>1 DEF NotYetPaid
<1>7. ASSUME NEW t \in Sessions \ {s} PROVE EstimateHolds(t)'
  <2>1. EstimateHolds(t)
    BY DEF ClientInv
  <2>2. session'[t] = session[t] /\ (Payable(session[t].note) => Payable(session[t].note)')
    BY <1>1, <1>3 DEF Payable
  <2>3. QED
    BY <1>1, <1>3, <1>4, <2>1, <2>2 DEF EstimateHolds
<1>8. ASSUME noteFile' = noteFile, NEW t \in Sessions \ {s} PROVE DoneSaved(t)'
  <2>1. DoneSaved(t)
    BY DEF ClientInv
  <2>2. \A x \in Sessions : Overwrites(x, t) => Overwrites(x, t)'
    BY <1>3 DEF Overwrites
  <2>3. QED
    BY <1>3, <1>4, <1>8, <2>1, <2>2 DEF DoneSaved
<1>9. QED
  BY <1>2, <1>5, <1>6, <1>7, <1>8

\* A withdrawing session's step, but for the transaction it may send.
LEMMA WithdrawStep ==
  ASSUME ClientInv, OffChain, UNCHANGED noteFile,
         NEW s \in Sessions, BegunWithdraw(s), NEW pc \in WithdrawPcs, Moves(s, pc),
         PendingOK', \A t \in Sessions \ {s} : Unmined(t)' = Unmined(t),
         session[s].pc \in {"saving", "done", "died"} => pc \in {"saving", "done", "died"}
  PROVE  ClientInv'
<1>1. KeepsTo(s, pc) /\ SessionsOK
  BY DEF ClientInv, KeepsTo, BegunWithdraw, BegunDeposit, WithdrawPcs
<1>2. /\ ChainOK' /\ SecretsKept'
      /\ \A t \in Sessions \ {s} : NotYetPaid(t)' /\ EstimateHolds(t)' /\ DoneSaved(t)'
  BY <1>1, OffChainKeeps
<1>3. SessionsOK'
  BY <1>1, SessionsKept
<1>4. ~BegunDeposit(s)'
  BY <1>1, SessionKeptTo DEF BegunWithdraw, BegunDeposit
<1>5. NotYetPaid(s)' /\ EstimateHolds(s)' /\ DoneSaved(s)'
  BY <1>4 DEF NotYetPaid, EstimateHolds, DoneSaved
<1>6. StorageOK'
  BY DEF ClientInv, StorageOK, OffChain, poolVars
<1>7. QED
  BY <1>2, <1>3, <1>5, <1>6 DEF ClientInv

LEMMA WhoWaits ==
  ASSUME SessionsOK, PendingOK, NEW s \in Sessions, Unmined(s) # {}
  PROVE  session[s].pc \in {"approving", "depositing", "withdrawing", "died"}
<1>1. PICK i \in 1 .. Len(pending) : pending[i].by = s
  BY DEF Unmined
<1>2. TxOK(pending[i])
  BY DEF PendingOK, Sent
<1>3. QED
  BY <1>1, <1>2 DEF TxOK

LEMMA WhoWithdraws ==
  ASSUME SessionsOK, NEW s \in Sessions,
         session[s].pc \in {"fetching", "proving", "withdrawing"}
  PROVE  BegunWithdraw(s)
BY BegunIsDoing DEF BegunDeposit, DepositPcs

LEMMA WhoDeposits ==
  ASSUME SessionsOK, NEW s \in Sessions,
         session[s].pc \in {"approving", "depositing", "saving"}
  PROVE  BegunDeposit(s) /\ session[s].note \in SessionNotes(s) /\ session[s].file \in Files
         /\ session[s].root = NONE
BY BegunIsDoing DEF BegunWithdraw, WithdrawPcs

LEMMA FetchStep == ASSUME ClientInv, NEW s \in Sessions, FetchChunk(s) PROVE ClientInv'
<1>1. OffChain /\ UNCHANGED << pending, noteFile >> /\ session[s].pc = "fetching"
  BY DEF FetchChunk
<1>2. SessionsOK /\ PendingOK
  BY DEF ClientInv
<1>3. BegunWithdraw(s) /\ "fetching" \in WithdrawPcs
  BY <1>1, <1>2, WhoWithdraws DEF WithdrawPcs
<1>4. Moves(s, "fetching")
  BY <1>2, FetchMoves
<1>5. KeepsTo(s, "fetching") /\ Unmined(s) = {}
  BY <1>1, <1>2, <1>3, WhoWaits DEF KeepsTo, BegunDeposit, BegunWithdraw
<1>6. PendingOK' /\ \A t \in Sessions : Unmined(t)' = Unmined(t)
  BY <1>1, <1>2, <1>4, <1>5, PendingStays
<1>7. QED
  BY <1>1, <1>3, <1>4, <1>6, WithdrawStep

LEMMA RebuildStep == ASSUME ClientInv, NEW s \in Sessions, Rebuild(s) PROVE ClientInv'
<1>1. OffChain /\ UNCHANGED << pending, noteFile >>
  BY DEF Rebuild
<1>2. SessionsOK /\ PendingOK
  BY DEF ClientInv
<1>3. session[s].pc = "fetching" /\ \E pc \in {"mismatch", "notFound", "proving"} : Moves(s, pc)
  BY <1>2, RebuildMoves
<1>4. PICK pc \in {"mismatch", "notFound", "proving"} : Moves(s, pc)
  BY <1>3
<1>5. BegunWithdraw(s) /\ pc \in WithdrawPcs
  BY <1>2, <1>3, WhoWithdraws DEF WithdrawPcs
<1>6. KeepsTo(s, pc) /\ Unmined(s) = {}
  BY <1>2, <1>3, <1>5, WhoWaits DEF KeepsTo, BegunDeposit, BegunWithdraw
<1>7. PendingOK' /\ \A t \in Sessions : Unmined(t)' = Unmined(t)
  BY <1>1, <1>2, <1>4, <1>6, PendingStays
<1>8. QED
  BY <1>1, <1>3, <1>4, <1>5, <1>7, WithdrawStep

\* Sending a withdrawal, whatever the estimate of it is.
LEMMA SendWithdrawStep == ASSUME ClientInv, NEW s \in Sessions, SendWithdraw(s) PROVE ClientInv'
<1>1. PICK tx :
        /\ tx.by = s /\ tx.kind = "withdraw" /\ session[s].pc = "proving"
        /\ \/ Send(tx) /\ Goes(s, "withdrawing")
           \/ \E pc \in {"noProof", "refused"} : Goes(s, pc) /\ UNCHANGED pending
        /\ OffChain /\ UNCHANGED noteFile
  <2> DEFINE proof == ProofFor(session[s])
             tx == WithdrawTx(s, session[s].note, session[s].root, proof)
  <2> HIDE DEF proof
  <2>1. tx.by = s /\ tx.kind = "withdraw"
    BY DEF WithdrawTx
  <2>2. /\ session[s].pc = "proving"
        /\ \/ Send(tx) /\ Goes(s, "withdrawing")
           \/ \E pc \in {"noProof", "refused"} : Goes(s, pc) /\ UNCHANGED pending
        /\ OffChain /\ UNCHANGED noteFile
    BY DEF SendWithdraw, proof
  <2> HIDE DEF tx
  <2>3. QED
    BY <2>1, <2>2
<1>2. SessionsOK /\ PendingOK
  BY DEF ClientInv
<1>3. BegunWithdraw(s) /\ Unmined(s) = {}
  BY <1>1, <1>2, WhoWithdraws, WhoWaits
<1>4. ASSUME NEW pc \in WithdrawPcs PROVE KeepsTo(s, pc)
  BY <1>1, <1>3 DEF KeepsTo, BegunDeposit, BegunWithdraw
<1>5. CASE Send(tx) /\ Goes(s, "withdrawing")
  <2>1. Moves(s, "withdrawing") /\ "withdrawing" \in WithdrawPcs
    BY <1>2, <1>5, GoesMoves DEF WithdrawPcs
  <2>2. KeepsTo(s, "withdrawing")
    BY <2>1, <1>4
  <2>3. \A sent \in Sent : TxOK(sent)'
    BY <1>2, <1>3, <2>1, <2>2, PendingKept
  <2>4. BegunWithdraw(s)' /\ session'[s].pc = "withdrawing"
    BY <1>2, <1>3, <2>1, <2>2, SessionKeptTo DEF Moves
  <2>5. TxOK(tx)'
    BY <1>1, <2>4 DEF TxOK
  <2>6. PendingOK' /\ \A t \in Sessions \ {s} : Unmined(t)' = Unmined(t)
    BY <1>1, <1>2, <1>3, <1>5, <2>3, <2>5, PendingGrows
  <2>7. QED
    BY <1>1, <1>3, <2>1, <2>6, WithdrawStep
<1>6. ASSUME NEW pc \in {"noProof", "refused"}, Goes(s, pc), UNCHANGED pending
      PROVE  ClientInv'
  <2>1. Moves(s, pc) /\ pc \in WithdrawPcs
    BY <1>2, <1>6, GoesMoves DEF WithdrawPcs
  <2>2. KeepsTo(s, pc)
    BY <2>1, <1>4
  <2>3. PendingOK' /\ \A t \in Sessions : Unmined(t)' = Unmined(t)
    BY <1>2, <1>3, <1>6, <2>1, <2>2, PendingStays
  <2>4. QED
    BY <1>1, <1>3, <2>1, <2>3, WithdrawStep
<1>7. QED
  BY <1>1, <1>5, <1>6

LEMMA WithdrawEndsStep == ASSUME ClientInv, NEW s \in Sessions, WithdrawEnds(s) PROVE ClientInv'
<1>1. /\ OffChain /\ UNCHANGED << pending, noteFile >>
      /\ session[s].pc = "withdrawing" /\ IsMined(s) /\ Goes(s, "done")
  BY DEF WithdrawEnds
<1>2. SessionsOK /\ PendingOK
  BY DEF ClientInv
<1>3. BegunWithdraw(s) /\ "done" \in WithdrawPcs
  BY <1>1, <1>2, WhoWithdraws DEF WithdrawPcs
<1>4. Moves(s, "done")
  BY <1>1, <1>2, GoesMoves
<1>5. KeepsTo(s, "done") /\ Unmined(s) = {}
  BY <1>1, <1>3, IsMinedMeans DEF KeepsTo, BegunDeposit, BegunWithdraw
<1>6. PendingOK' /\ \A t \in Sessions : Unmined(t)' = Unmined(t)
  BY <1>1, <1>2, <1>4, <1>5, PendingStays
<1>7. QED
  BY <1>1, <1>3, <1>4, <1>6, WithdrawStep

-------------------------------------------------------------------------------
(* A session begins *)

\* What beginning does to the other sessions.
Begins(s) ==
  /\ session[s].pc = "idle"
  /\ DOMAIN session' = Sessions
  /\ \A t \in Sessions \ {s} : session'[t] = session[t]

LEMMA IdleIsIdle ==
  ASSUME SessionsOK, NEW s \in Sessions, session[s].pc = "idle"
  PROVE  session[s] = Idle /\ ~BegunDeposit(s) /\ ~BegunWithdraw(s) /\ session[s].kind # "deposit"
<1>1. ~BegunDeposit(s) /\ ~BegunWithdraw(s)
  BY DEF BegunDeposit, BegunWithdraw, DepositPcs, WithdrawPcs
<1>2. session[s] = Idle
  BY <1>1 DEF SessionsOK, SessionOK
<1>3. Idle.kind = NONE
  BY DEF Idle
<1>4. QED
  BY <1>1, <1>2, <1>3, ClientAssumption

LEMMA BeginStep ==
  ASSUME ClientInv, OffChain, UNCHANGED noteFile, NEW s \in Sessions, Begins(s),
         SessionOK(s)', PendingOK', \A t \in Sessions \ {s} : Unmined(t)' = Unmined(t),
         session'[s].pc \in {"approving", "fetching", "unreadable"}
  PROVE  ClientInv'
<1>1. /\ tree' = tree /\ commitments' = commitments /\ head' = head /\ admin' = admin
      /\ heights' = heights /\ wallet' = wallet /\ overtaken' = overtaken
  BY DEF OffChain, poolVars
<1>2. ChainOK' /\ StorageOK'
  BY <1>1 DEF ClientInv, ChainOK, StorageOK
<1>3. /\ session[s] = Idle /\ ~BegunDeposit(s) /\ ~BegunWithdraw(s) /\ session[s].kind # "deposit"
      /\ DOMAIN session' = Sessions /\ \A t \in Sessions \ {s} : session'[t] = session[t]
  BY IdleIsIdle DEF ClientInv, Begins
<1>4. \A t \in Sessions \ {s} : (BegunDeposit(t)' <=> BegunDeposit(t)) /\ (BegunWithdraw(t)' <=> BegunWithdraw(t))
  BY <1>3 DEF BegunDeposit, BegunWithdraw
<1>5. SessionsOK'
  <2>1. ASSUME NEW t \in Sessions \ {s} PROVE SessionOK(t)'
    BY <1>3, <1>4 DEF ClientInv, SessionsOK, SessionOK
  <2>2. QED
    BY <1>3, <2>1 DEF SessionsOK
<1>6. \A note \in commitments : note.nn # s
  BY <1>3 DEF ClientInv, SecretsKept
<1>7. SecretsKept'
  BY <1>1, <1>3, <1>4, <1>6 DEF ClientInv, SecretsKept
<1>8. ASSUME NEW t \in Sessions \ {s} PROVE NotYetPaid(t)' /\ DoneSaved(t)' /\ EstimateHolds(t)'
  <2>1. NotYetPaid(t) /\ DoneSaved(t) /\ EstimateHolds(t)
    BY DEF ClientInv
  <2>2. NotYetPaid(t)'
    BY <1>1, <1>3, <1>4, <2>1 DEF NotYetPaid
  <2>3. \A x \in Sessions : Overwrites(x, t) => Overwrites(x, t)'
    BY <1>3 DEF Overwrites
  <2>4. DoneSaved(t)'
    BY <1>3, <1>4, <2>1, <2>3 DEF DoneSaved
  <2>5. session'[t] = session[t] /\ (Payable(session[t].note) => Payable(session[t].note)')
    BY <1>1, <1>3 DEF Payable
  <2>6. EstimateHolds(t)'
    BY <1>1, <1>3, <1>4, <2>1, <2>5 DEF EstimateHolds
  <2>7. QED
    BY <2>2, <2>4, <2>6
<1>9. BegunDeposit(s)' => session'[s].note \notin commitments
  <2>1. ASSUME BegunDeposit(s)' PROVE session'[s].note.nn = s
    <3>1. session'[s] # Idle /\ ~BegunWithdraw(s)'
      BY <2>1 DEF BegunDeposit, BegunWithdraw, Idle, DepositPcs
    <3>2. session'[s].note \in SessionNotes(s)
      BY <3>1 DEF SessionOK
    <3>3. QED
      BY <3>2 DEF SessionNotes
  <2>2. QED
    BY <1>6, <2>1
<1>10. NotYetPaid(s)' /\ DoneSaved(s)' /\ EstimateHolds(s)'
  BY <1>1, <1>9 DEF NotYetPaid, DoneSaved, EstimateHolds
<1>11. QED
  BY <1>2, <1>5, <1>7, <1>8, <1>10 DEF ClientInv

LEMMA IdleSentNothing ==
  ASSUME SessionsOK, PendingOK, NEW s \in Sessions, session[s].pc = "idle"
  PROVE  Unmined(s) = {}
BY WhoWaits

\* The transactions of the others are still theirs.
LEMMA PendingOfOthers ==
  ASSUME SessionsOK, PendingOK, NEW s \in Sessions, Begins(s)
  PROVE  \A tx \in Sent : TxOK(tx)'
<1> SUFFICES ASSUME NEW tx \in Sent PROVE TxOK(tx)'
  OBVIOUS
<1>1. TxOK(tx) /\ Unmined(s) = {}
  BY IdleSentNothing DEF PendingOK, Begins
<1>2. tx.by \in Sessions \ {s}
  BY <1>1 DEF TxOK, Unmined, Sent
<1>3. session'[tx.by] = session[tx.by]
  BY <1>2 DEF Begins
<1>4. QED
  BY <1>1, <1>2, <1>3 DEF TxOK, BegunDeposit, BegunWithdraw

LEMMA DepositBeginsStep ==
  ASSUME ClientInv, NEW s \in Sessions, NEW file \in Files, NEW amount \in Amounts,
         DepositBegins(s, file, amount)
  PROVE  ClientInv'
<1> DEFINE tx == Approve(s, amount)
           note == Note(s, Token, amount)
           r == [session[s] EXCEPT !.kind = "deposit", !.pc = "approving",
                                   !.file = file, !.note = note]
<1>1. /\ session[s].pc = "idle" /\ Send(tx) /\ OffChain /\ UNCHANGED noteFile
      /\ session' = [session EXCEPT ![s] = r]
  BY DEF DepositBegins
<1>2. SessionsOK /\ PendingOK
  BY DEF ClientInv
<1>3. session[s] = Idle /\ DOMAIN session = Sessions /\ Unmined(s) = {}
  BY <1>1, <1>2, IdleIsIdle, IdleSentNothing DEF SessionsOK
<1>4. /\ DOMAIN r = DOMAIN Idle /\ r.kind = "deposit" /\ r.pc = "approving"
      /\ r.file = file /\ r.note = note /\ r.root = NONE
  BY <1>3 DEF Idle
<1>5. note \in SessionNotes(s) /\ note.amount = amount
  BY DEF Note, SessionNotes
<1> HIDE DEF r, note
<1>6. session'[s] = r /\ Begins(s)
  BY <1>1, <1>3 DEF Begins
<1>7. BegunDeposit(s)' /\ SessionOK(s)'
  BY <1>4, <1>5, <1>6 DEF BegunDeposit, DepositPcs, SessionOK
<1>8. \A sent \in Sent : TxOK(sent)'
  BY <1>2, <1>6, PendingOfOthers
<1>9. tx.by = s /\ tx.kind = "approve" /\ tx.amount = amount
  BY DEF Approve
<1> HIDE DEF tx
<1>10. TxOK(tx)'
  BY <1>4, <1>5, <1>6, <1>7, <1>9 DEF TxOK
<1>11. PendingOK' /\ \A t \in Sessions \ {s} : Unmined(t)' = Unmined(t)
  BY <1>1, <1>2, <1>3, <1>8, <1>9, <1>10, PendingGrows
<1>12. QED
  BY <1>1, <1>4, <1>6, <1>7, <1>11, BeginStep

LEMMA WithdrawBeginsStep ==
  ASSUME ClientInv, NEW s \in Sessions, NEW file, NEW source, NEW deployBlock,
         WithdrawBegins(s, file, source, deployBlock)
  PROVE  ClientInv'
<1> DEFINE start == StartBlock(deployBlock, head)
           note == noteFile[file]
           good == [session[s] EXCEPT !.kind = "withdraw", !.pc = "fetching", !.note = note,
                      !.source = source, !.latest = head, !.start = start, !.from = start]
           bad == [session[s] EXCEPT !.kind = "withdraw", !.pc = "unreadable"]
<1>1. /\ session[s].pc = "idle" /\ OffChain /\ UNCHANGED << pending, noteFile >>
      /\ \E r \in {good, bad} : session' = [session EXCEPT ![s] = r]
  BY DEF WithdrawBegins
<1>2. SessionsOK /\ PendingOK
  BY DEF ClientInv
<1>3. session[s] = Idle /\ DOMAIN session = Sessions /\ Unmined(s) = {}
  BY <1>1, <1>2, IdleIsIdle, IdleSentNothing DEF SessionsOK
<1> HIDE DEF start, note
<1>4. \A r \in {good, bad} :
        DOMAIN r = DOMAIN Idle /\ r.kind = "withdraw" /\ r.pc \in {"fetching", "unreadable"}
  <2>1. DOMAIN good = DOMAIN Idle /\ good.kind = "withdraw" /\ good.pc = "fetching"
    BY <1>3 DEF Idle
  <2>2. DOMAIN bad = DOMAIN Idle /\ bad.kind = "withdraw" /\ bad.pc = "unreadable"
    BY <1>3 DEF Idle
  <2>3. QED
    BY <2>1, <2>2
<1>5. PICK r \in {good, bad} : session' = [session EXCEPT ![s] = r]
  BY <1>1
<1>6. DOMAIN r = DOMAIN Idle /\ r.kind = "withdraw" /\ r.pc \in {"fetching", "unreadable"}
  BY <1>4, <1>5
<1> HIDE DEF good, bad
<1>7. session'[s] = r /\ Begins(s)
  BY <1>1, <1>3, <1>5 DEF Begins
<1>8. SessionOK(s)'
  BY <1>6, <1>7 DEF SessionOK, BegunWithdraw, WithdrawPcs
<1>9. PendingOK' /\ \A t \in Sessions : Unmined(t)' = Unmined(t)
  <2>1. \A tx \in Sent : TxOK(tx)'
    BY <1>2, <1>7, PendingOfOthers
  <2>2. Sent' = Sent
    BY <1>1 DEF Sent
  <2>3. (\A tx \in Sent : TxOK(tx))'
    BY <2>1, <2>2
  <2>4. QED
    BY <1>1, <1>2, <2>3 DEF PendingOK, Unmined
<1>10. QED
  BY <1>1, <1>6, <1>7, <1>8, <1>9, BeginStep

-------------------------------------------------------------------------------
(* A deposit goes on, and a session dies *)

LEMMA DiesStep == ASSUME ClientInv, NEW s \in Sessions, Dies(s) PROVE ClientInv'
<1>1. /\ OffChain /\ UNCHANGED << pending, noteFile >>
      /\ session[s].pc \notin Ended \cup {"idle"}
  BY DEF Dies
<1>2. SessionsOK /\ PendingOK
  BY DEF ClientInv
<1>3. Moves(s, "died") /\ session'[s].root = NONE
  BY <1>2, DiesMoves
<1>4. KeepsTo(s, "died")
  BY <1>1 DEF KeepsTo, DepositPcs, WithdrawPcs
<1>5. PendingOK' /\ \A t \in Sessions : Unmined(t)' = Unmined(t)
  BY <1>1, <1>2, <1>3, <1>4, PendingStays
<1>6. SessionsOK'
  BY <1>2, <1>3, <1>4, SessionsKept
<1>7. /\ ChainOK' /\ SecretsKept'
      /\ \A t \in Sessions \ {s} : NotYetPaid(t)' /\ EstimateHolds(t)' /\ DoneSaved(t)'
  BY <1>1, <1>3, <1>4, <1>5, OffChainKeeps
<1>8. session'[s].pc = "died" /\ session'[s].note = session[s].note /\ commitments' = commitments
  BY <1>1, <1>3 DEF Moves, OffChain, poolVars
<1>9. (BegunDeposit(s)' <=> BegunDeposit(s)) /\ NotYetPaid(s)
  BY <1>2, <1>3, <1>4, SessionKeptTo DEF ClientInv
<1>10. NotYetPaid(s)' /\ EstimateHolds(s)' /\ DoneSaved(s)'
  BY <1>5, <1>8, <1>9 DEF NotYetPaid, EstimateHolds, DoneSaved
<1>11. StorageOK'
  BY <1>1 DEF ClientInv, StorageOK, OffChain, poolVars
<1>12. QED
  BY <1>5, <1>6, <1>7, <1>10, <1>11 DEF ClientInv

LEMMA SendDepositStep == ASSUME ClientInv, NEW s \in Sessions, SendDeposit(s) PROVE ClientInv'
<1>1. PICK note, tx :
        /\ note = session[s].note /\ tx = DepositTx(s, note)
        /\ session[s].pc = "approving" /\ IsMined(s) /\ OffChain /\ UNCHANGED noteFile
        /\ \/ Succeeds(tx) /\ Send(tx) /\ Goes(s, "depositing")
           \/ Goes(s, "refused") /\ UNCHANGED pending
  BY DEF SendDeposit
<1>2. SessionsOK /\ PendingOK
  BY DEF ClientInv
<1>3. /\ BegunDeposit(s) /\ session[s].note \in SessionNotes(s) /\ session[s].file \in Files
      /\ session[s].root = NONE /\ ~BegunWithdraw(s)
  BY <1>1, <1>2, WhoDeposits DEF BegunWithdraw, WithdrawPcs
<1>4. Unmined(s) = {} /\ KeepsTo(s, "depositing") /\ KeepsTo(s, "refused")
  BY <1>1, <1>3, IsMinedMeans DEF KeepsTo, DepositPcs
<1>5. /\ tree' = tree /\ commitments' = commitments /\ wallet' = wallet /\ admin' = admin
      /\ StorageOK'
  BY <1>1 DEF ClientInv, StorageOK, OffChain, poolVars
<1>6. note \notin commitments
  BY <1>1, <1>3 DEF ClientInv, NotYetPaid
<1>7. CASE Succeeds(tx) /\ Send(tx) /\ Goes(s, "depositing")
  <2>1. Moves(s, "depositing") /\ session'[s].root = session[s].root
    BY <1>2, <1>7, GoesMoves
  <2>2. session'[s].pc = "depositing" /\ session'[s].note = note
    BY <1>1, <2>1 DEF Moves
  <2>3. BegunDeposit(s)'
    BY <1>2, <1>3, <1>4, <2>1, SessionKeptTo
  <2>4. \A sent \in Sent : TxOK(sent)'
    BY <1>2, <1>4, <2>1, PendingKept
  <2>5. tx.kind = "deposit" /\ tx.by = s /\ tx.note = note
    BY <1>1 DEF DepositTx
  <2>6. TxOK(tx)'
    BY <2>2, <2>3, <2>5 DEF TxOK
  <2>7. PendingOK' /\ Unmined(s)' # {} /\ \A t \in Sessions \ {s} : Unmined(t)' = Unmined(t)
    BY <1>2, <1>4, <1>7, <2>4, <2>5, <2>6, PendingGrows
  <2>8. SessionsOK'
    BY <1>2, <1>4, <2>1, SessionsKept
  <2>9. /\ ChainOK' /\ SecretsKept'
        /\ \A t \in Sessions \ {s} : NotYetPaid(t)' /\ EstimateHolds(t)' /\ DoneSaved(t)'
    BY <1>1, <1>4, <2>1, <2>7, OffChainKeeps
  <2>10. Payable(note)
    BY <1>7, <2>5 DEF Succeeds, DepositAccepted, Payable
  <2>11. Payable(session[s].note)'
    BY <1>5, <2>2, <2>10 DEF Payable
  <2>12. NotYetPaid(s)' /\ EstimateHolds(s)' /\ DoneSaved(s)'
    BY <1>5, <1>6, <2>2, <2>7, <2>11 DEF NotYetPaid, EstimateHolds, DoneSaved
  <2>13. QED
    BY <1>5, <2>7, <2>8, <2>9, <2>12 DEF ClientInv
<1>8. CASE Goes(s, "refused") /\ UNCHANGED pending
  <2>1. Moves(s, "refused") /\ session'[s].root = session[s].root
    BY <1>2, <1>8, GoesMoves
  <2>2. session'[s].pc = "refused" /\ session'[s].note = note
    BY <1>1, <2>1 DEF Moves
  <2>3. PendingOK' /\ \A t \in Sessions : Unmined(t)' = Unmined(t)
    BY <1>2, <1>4, <1>8, <2>1, PendingStays
  <2>4. SessionsOK'
    BY <1>2, <1>4, <2>1, SessionsKept
  <2>5. /\ ChainOK' /\ SecretsKept'
        /\ \A t \in Sessions \ {s} : NotYetPaid(t)' /\ EstimateHolds(t)' /\ DoneSaved(t)'
    BY <1>1, <1>4, <2>1, <2>3, OffChainKeeps
  <2>6. NotYetPaid(s)' /\ EstimateHolds(s)' /\ DoneSaved(s)'
    BY <1>5, <1>6, <2>2 DEF NotYetPaid, EstimateHolds, DoneSaved
  <2>7. QED
    BY <1>5, <2>3, <2>4, <2>5, <2>6 DEF ClientInv
<1>9. QED
  BY <1>1, <1>7, <1>8

\* Writing to a file: it is this session's, so others' are overwritten.
LEMMA OthersOverwritten ==
  ASSUME ClientInv, NEW s \in Sessions, NEW pc \in {"saving", "done"}, Moves(s, pc), BegunDeposit(s),
         session[s].pc # "done", NEW value, noteFile' = [noteFile EXCEPT ![session[s].file] = value],
         NEW t \in Sessions \ {s}
  PROVE  DoneSaved(t)'
<1>1. /\ session'[t] = session[t] /\ session'[s].kind = "deposit" /\ session'[s].pc = pc
      /\ session'[s].file = session[s].file
      /\ \A x \in Sessions \ {s} : session'[x] = session[x]
  BY DEF Moves, BegunDeposit
<1>2. SUFFICES ASSUME BegunDeposit(t)', session'[t].pc = "done"
               PROVE  \/ noteFile'[session'[t].file] = session'[t].note
                      \/ \E x \in Sessions \ {t} : Overwrites(x, t)'
  BY DEF DoneSaved
<1>3. BegunDeposit(t) /\ session[t].pc = "done"
  BY <1>1, <1>2 DEF BegunDeposit
<1>4. CASE session[t].file = session[s].file
  <2>1. Overwrites(s, t)'
    BY <1>1, <1>4 DEF Overwrites
  <2>2. QED
    BY <2>1
<1>5. CASE session[t].file # session[s].file
  <2>1. /\ session[t].file \in Files
        /\ noteFile[session[t].file] = session[t].note \/ \E x \in Sessions \ {t} : Overwrites(x, t)
    <3>1. SessionsOK /\ DoneSaved(t)
      BY DEF ClientInv
    <3>2. ~BegunWithdraw(t)
      BY <1>3 DEF BegunDeposit, BegunWithdraw
    <3>3. session[t].file \in Files
      BY <1>3, <3>1, <3>2, BegunIsDoing DEF BegunDeposit, DepositPcs
    <3>4. QED
      BY <1>3, <3>1, <3>3 DEF DoneSaved
  <2>2. noteFile'[session[t].file] = noteFile[session[t].file]
    BY <1>5, <2>1 DEF ClientInv, StorageOK
  <2>3. \A x \in Sessions : Overwrites(x, t) => Overwrites(x, t)'
    BY <1>1 DEF Overwrites
  <2>4. QED
    BY <1>1, <2>1, <2>2, <2>3
<1>6. QED
  BY <1>4, <1>5

\* Both halves of the saving.
LEMMA SaveStep ==
  ASSUME ClientInv, NEW s \in Sessions, OffChain, UNCHANGED pending,
         session[s].pc \in {"depositing", "saving"}, Unmined(s) = {},
         NEW pc \in {"saving", "done"}, Goes(s, pc),
         NEW value, value \in Leaves \cup {NONE, TORN}, pc = "done" => value = session[s].note,
         noteFile' = [noteFile EXCEPT ![session[s].file] = value]
  PROVE  ClientInv'
<1>1. SessionsOK /\ PendingOK
  BY DEF ClientInv
<1>2. /\ BegunDeposit(s) /\ session[s].file \in Files /\ ~BegunWithdraw(s)
      /\ session[s].root = NONE
  BY <1>1, WhoDeposits DEF BegunWithdraw, WithdrawPcs
<1>3. Moves(s, pc) /\ session'[s].root = session[s].root
  BY <1>1, GoesMoves
<1>4. KeepsTo(s, pc)
  BY <1>2 DEF KeepsTo, DepositPcs
<1>5. PendingOK' /\ \A t \in Sessions : Unmined(t)' = Unmined(t)
  BY <1>1, <1>3, <1>4, PendingStays
<1>6. SessionsOK'
  BY <1>1, <1>3, <1>4, SessionsKept
<1>7. /\ ChainOK' /\ SecretsKept'
      /\ \A t \in Sessions \ {s} : NotYetPaid(t)' /\ EstimateHolds(t)'
  BY <1>3, <1>4, <1>5, OffChainKeeps
<1>8. \A t \in Sessions \ {s} : DoneSaved(t)'
  BY <1>2, <1>3, OthersOverwritten
<1>9. /\ session'[s].pc = pc /\ session'[s].note = session[s].note /\ commitments' = commitments
      /\ overtaken' = overtaken /\ session'[s].file = session[s].file
  BY <1>3 DEF Moves, OffChain, poolVars
<1>10. noteFile'[session'[s].file] = value
  BY <1>2, <1>9 DEF ClientInv, StorageOK
<1>11. NotYetPaid(s)' /\ DoneSaved(s)'
  BY <1>5, <1>9, <1>10 DEF NotYetPaid, DoneSaved
<1>12. EstimateHolds(s)'
  <2>1. EstimateHolds(s)
    BY DEF ClientInv
  <2>2. s \notin overtaken => session[s].note \in commitments
    BY <1>2, <2>1 DEF EstimateHolds
  <2>3. QED
    BY <1>5, <1>9, <2>2 DEF EstimateHolds
<1>13. StorageOK'
  BY DEF ClientInv, StorageOK, OffChain, poolVars
<1>14. QED
  BY <1>5, <1>6, <1>7, <1>8, <1>11, <1>12, <1>13 DEF ClientInv

LEMMA SaveBeginsStep == ASSUME ClientInv, NEW s \in Sessions, SaveBegins(s) PROVE ClientInv'
<1>1. /\ session[s].pc = "depositing" /\ IsMined(s) /\ Goes(s, "saving")
      /\ OffChain /\ UNCHANGED pending
      /\ noteFile' = [noteFile EXCEPT ![session[s].file] = TORN]
  BY DEF SaveBegins
<1>2. Unmined(s) = {}
  BY <1>1, IsMinedMeans
<1>3. QED
  BY <1>1, <1>2, SaveStep

LEMMA SaveEndsStep == ASSUME ClientInv, NEW s \in Sessions, SaveEnds(s) PROVE ClientInv'
<1>1. /\ session[s].pc = "saving" /\ Goes(s, "done") /\ OffChain /\ UNCHANGED pending
      /\ noteFile' = [noteFile EXCEPT ![session[s].file] = session[s].note]
  BY DEF SaveEnds
<1>2. SessionsOK /\ PendingOK
  BY DEF ClientInv
<1>3. Unmined(s) = {}
  BY <1>1, <1>2, WhoWaits
<1>4. session[s].note \in SessionNotes(s)
  BY <1>1, <1>2, WhoDeposits
<1>5. session[s].note \in Leaves
  BY <1>4, ClientAssumption DEF SessionNotes
<1>6. QED
  BY <1>1, <1>3, <1>5, SaveStep

-------------------------------------------------------------------------------
(* Blocks *)

LEMMA NoteOfSession ==
  ASSUME SessionsOK, NEW s \in Sessions, BegunDeposit(s)
  PROVE  /\ session[s].note \in SessionNotes(s) /\ session[s].note.nn = s
         /\ session[s].file \in Files /\ session[s].root = NONE
         /\ session[s].note.amount \in Nat \ {0} /\ session[s].note.token = Token
<1>1. session[s].pc # "idle" /\ ~BegunWithdraw(s)
  BY DEF BegunDeposit, BegunWithdraw, DepositPcs
<1>2. session[s].note \in SessionNotes(s) /\ session[s].file \in Files /\ session[s].root = NONE
  BY <1>1, BegunIsDoing
<1>3. QED
  BY <1>2, PoolAssumption DEF SessionNotes

\* A block holds the leaves inserted in its step, and no earlier leaf moves.
LEMMA BlockKeepsChain ==
  ASSUME ChainOK, Block, tree'.nextIndex = tree.nextIndex \/ tree'.nextIndex = tree.nextIndex + 1
  PROVE  /\ ChainOK' /\ head' = head + 1
         /\ \A i \in 1 .. Len(heights) : heights'[i] = heights[i]
         /\ \A i \in 1 .. Len(heights') : i \notin 1 .. Len(heights) => heights'[i] = head + 1
<1> DEFINE n == Len(heights)
           d == tree'.nextIndex - tree.nextIndex
           new == [i \in 1 .. d |-> head + 1]
<1>1. /\ head \in Nat /\ heights \in Seq(Nat) /\ n = tree.nextIndex /\ n \in Nat
      /\ \A i \in 1 .. n : heights[i] <= head
      /\ \A i, j \in 1 .. n : i <= j => heights[i] <= heights[j]
  BY DEF ChainOK
<1>2. d \in {0, 1} /\ tree'.nextIndex = n + d
  BY <1>1
<1> HIDE DEF d
<1>3. new \in Seq(Nat) /\ Len(new) = d /\ \A i \in 1 .. d : new[i] = head + 1
  BY <1>1, <1>2
<1>4. heights' = heights \o new /\ head' = head + 1
  BY DEF Block, d
<1> HIDE DEF new
<1>5. /\ heights' \in Seq(Nat) /\ Len(heights') = n + d
      /\ \A i \in 1 .. n : heights'[i] = heights[i]
      /\ \A i \in n + 1 .. n + d : heights'[i] = head + 1
  <2>1. heights' \in Seq(Nat) /\ Len(heights') = n + d
    BY <1>1, <1>3, <1>4
  <2>2. \A i \in 1 .. n : heights'[i] = heights[i]
    BY <1>1, <1>3, <1>4
  <2>3. \A i \in n + 1 .. n + d : heights'[i] = new[i - n] /\ i - n \in 1 .. d
    BY <1>1, <1>2, <1>3, <1>4
  <2>4. QED
    BY <1>3, <2>1, <2>2, <2>3
<1> HIDE DEF n
<1>6. \A i \in 1 .. n + d : i \notin 1 .. n => i \in n + 1 .. n + d
  BY <1>1, <1>2
<1>7. \A i \in 1 .. n + d : heights'[i] <= head + 1 /\ (i \notin 1 .. n => heights'[i] = head + 1)
  <2>1. ASSUME NEW i \in 1 .. n + d
        PROVE  heights'[i] <= head + 1 /\ (i \notin 1 .. n => heights'[i] = head + 1)
    <3>1. CASE i \in 1 .. n
      <4>1. heights[i] <= head /\ heights'[i] = heights[i] /\ heights[i] \in Nat
        BY <1>1, <1>5, <3>1 DEF n
      <4>2. QED
        BY <1>1, <3>1, <4>1
    <3>2. CASE i \notin 1 .. n
      BY <1>1, <1>5, <1>6, <3>2
    <3>3. QED
      BY <3>1, <3>2
  <2>2. QED
    BY <2>1
<1>8. \A i, j \in 1 .. n + d : i <= j => heights'[i] <= heights'[j]
  <2>1. ASSUME NEW i \in 1 .. n + d, NEW j \in 1 .. n + d, i <= j PROVE heights'[i] <= heights'[j]
    <3>1. CASE j \in 1 .. n
      <4>1. i \in 1 .. n
        BY <1>1, <1>2, <2>1, <3>1
      <4>2. QED
        BY <1>1, <1>5, <2>1, <3>1, <4>1
    <3>2. CASE j \notin 1 .. n
      BY <1>7, <3>2
    <3>3. QED
      BY <3>1, <3>2
  <2>2. QED
    BY <2>1
<1>9. ChainOK'
  BY <1>1, <1>2, <1>4, <1>5, <1>7, <1>8 DEF ChainOK
<1>10. QED
  BY <1>4, <1>5, <1>7, <1>9 DEF n

\* A block in which what the estimate went by stays, or which marks the deposits
\* that wait as overtaken.
LEMMA BlockKeepsEstimate ==
  ASSUME ClientInv, PendingOK', session' = session, Block, commitments \subseteq commitments',
         NEW s \in Sessions, Unmined(s)' # {} => Unmined(s) # {},
         BegunDeposit(s) /\ s \notin overtaken /\ session[s].pc = "depositing"
           /\ Unmined(s) # {} /\ Unmined(s)' = {} => session[s].note \in commitments'
  PROVE  EstimateHolds(s)'
<1>1. BegunDeposit(s)' <=> BegunDeposit(s)
  BY DEF BegunDeposit
<1>2. overtaken \subseteq overtaken'
  BY DEF Block
<1>3. SessionsOK /\ PendingOK /\ EstimateHolds(s)
  BY DEF ClientInv
<1>4. ASSUME s \notin overtaken', BegunDeposit(s), session[s].pc = "depositing", Unmined(s)' # {}
      PROVE  Payable(session[s].note)'
  <2>1. Payable(session[s].note)
    BY <1>2, <1>3, <1>4 DEF EstimateHolds
  <2>2. PICK i \in 1 .. Len(pending') : pending'[i].by = s
    BY <1>4 DEF Unmined
  <2>3. pending'[i].kind = "deposit"
    <3>1. TxOK(pending[i])'
      BY <2>2 DEF PendingOK, Sent
    <3>2. QED
      BY <1>4, <2>2, <3>1 DEF TxOK
  <2>4. s \in Depositing'
    BY <2>2, <2>3 DEF Depositing
  <2>5. EstimatedBy' = EstimatedBy
    BY <1>4, <2>4 DEF Block
  <2>6. wallet' = wallet /\ admin' = admin /\ HasRoom(tree, 1)' = HasRoom(tree, 1)
    BY <2>5, Zenon DEF EstimatedBy
  <2>7. HasRoom(tree, 1)'
    BY <2>1, <2>6, Zenon DEF Payable
  <2>8. QED
    BY <2>1, <2>6, <2>7 DEF Payable
<1>5. ASSUME s \notin overtaken', BegunDeposit(s), Unmined(s)' = {},
             session[s].pc \in {"depositing", "saving", "done"}
      PROVE  session[s].note \in commitments'
  <2>1. CASE Unmined(s) = {}
    BY <1>2, <1>3, <1>5, <2>1 DEF EstimateHolds
  <2>2. CASE Unmined(s) # {}
    <3>1. session[s].pc = "depositing"
      BY <1>3, <1>5, <2>2, WhoWaits
    <3>2. QED
      BY <1>2, <1>5, <2>2, <3>1
  <2>3. QED
    BY <2>1, <2>2
<1>6. QED
  BY <1>1, <1>4, <1>5 DEF EstimateHolds

LEMMA NoLeafStep ==
  ASSUME ClientInv, EmptyBlock \/ OwnerDelists
  PROVE  ClientInv'
<1>1. /\ Block /\ tree' = tree /\ commitments' = commitments
      /\ UNCHANGED << wallet, pending, noteFile, session >>
  BY DEF EmptyBlock, OwnerDelists, RemoveSupportedToken, AdminCall, poolVars
<1>2. ChainOK'
  BY <1>1, BlockKeepsChain DEF ClientInv
<1>3. StorageOK' /\ SessionsOK' /\ PendingOK' /\ SecretsKept'
  BY <1>1 DEF ClientInv, StorageOK, SessionsOK, SessionOK, PendingOK, SecretsKept, TxOK, Sent,
              BegunDeposit, BegunWithdraw
<1>4. ASSUME NEW s \in Sessions PROVE NotYetPaid(s)' /\ DoneSaved(s)' /\ EstimateHolds(s)'
  <2>1. NotYetPaid(s)'
    BY <1>1 DEF ClientInv, NotYetPaid, BegunDeposit, Unmined
  <2>2. DoneSaved(s)'
    BY <1>1 DEF ClientInv, DoneSaved, BegunDeposit, Overwrites
  <2>3. EstimateHolds(s)'
    BY <1>1, <1>3, BlockKeepsEstimate DEF Unmined
  <2>4. QED
    BY <2>1, <2>2, <2>3
<1>5. QED
  BY <1>2, <1>3, <1>4 DEF ClientInv

LEMMA OthersDepositStep == ASSUME ClientInv, OthersDeposit PROVE ClientInv'
<1>1. PICK amount \in Amounts : DepositNote(Note(FreshNN, Token, amount))
  BY DEF OthersDeposit
<1>2. PICK note : note = Note(FreshNN, Token, amount)
  OBVIOUS
<1>3. /\ Block /\ UNCHANGED << wallet, pending, noteFile, session >>
      /\ tree' = Inserted(tree, note) /\ commitments' = commitments \cup {note}
      /\ tree.nextIndex + 1 <= MAX_LEAVES /\ note.nn = tree.nextIndex + 1
  BY <1>1, <1>2 DEF OthersDeposit, DepositNote, Deposit, DepositAccepted, HasRoom, Note, FreshNN
<1>4. tree'.nextIndex = tree.nextIndex + 1 /\ tree.nextIndex \in Nat
  BY <1>3 DEF ClientInv, ChainOK, Inserted
<1>5. ChainOK'
  BY <1>3, <1>4, BlockKeepsChain DEF ClientInv
<1>6. note.nn \notin Sessions
  BY <1>3, <1>4, ClientAssumption, MaxLeavesNat
<1>7. StorageOK' /\ SessionsOK' /\ PendingOK'
  BY <1>3 DEF ClientInv, StorageOK, SessionsOK, SessionOK, PendingOK, TxOK, Sent,
              BegunDeposit, BegunWithdraw
<1>8. SecretsKept'
  BY <1>3, <1>6 DEF ClientInv, SecretsKept, BegunDeposit
<1>9. ASSUME NEW s \in Sessions PROVE NotYetPaid(s)' /\ DoneSaved(s)' /\ EstimateHolds(s)'
  <2>1. BegunDeposit(s) => session[s].note # note
    BY <1>6, NoteOfSession DEF ClientInv
  <2>2. NotYetPaid(s)'
    BY <1>3, <2>1 DEF ClientInv, NotYetPaid, BegunDeposit, Unmined
  <2>3. DoneSaved(s)'
    BY <1>3 DEF ClientInv, DoneSaved, BegunDeposit, Overwrites
  <2>4. EstimateHolds(s)'
    BY <1>3, <1>7, BlockKeepsEstimate DEF Unmined
  <2>5. QED
    BY <2>2, <2>3, <2>4
<1>10. QED
  BY <1>5, <1>7, <1>8, <1>9 DEF ClientInv

\* The next transaction leaves the mempool.
LEMMA PendingShrinks ==
  ASSUME PendingOK, UNCHANGED session, pending # << >>, NEW first, first = Head(pending),
         pending' = Tail(pending)
  PROVE  /\ PendingOK' /\ first \in Sent /\ Sent' \subseteq Sent
         /\ Unmined(first.by) # {} /\ Unmined(first.by)' = {}
         /\ \A t : t # first.by => (Unmined(t)' = {} <=> Unmined(t) = {})
<1> DEFINE n == Len(pending)
<1>1. PICK S : pending \in Seq(S)
  BY DEF PendingOK
<1>2. /\ n \in Nat /\ n >= 1 /\ pending' \in Seq(S) /\ Len(pending') = n - 1
      /\ \A i \in 1 .. n - 1 : pending'[i] = pending[i + 1]
      /\ first = pending[1]
  BY <1>1
<1>3. \A i, j \in 1 .. n : pending[i].by = pending[j].by => i = j
  BY DEF PendingOK
<1>4. Sent = { pending[i] : i \in 1 .. n } /\ Sent' = { pending'[i] : i \in 1 .. n - 1 }
  BY <1>2 DEF Sent
<1>5. \A t : /\ Unmined(t) = { i \in 1 .. n : pending[i].by = t }
             /\ Unmined(t)' = { i \in 1 .. n - 1 : pending'[i].by = t }
  BY <1>2 DEF Unmined
<1> HIDE DEF n
<1>6. \A i \in 1 .. n - 1 : i + 1 \in 1 .. n /\ i + 1 # 1
  BY <1>2
<1>7. 1 \in 1 .. n /\ \A i \in 1 .. n : i # 1 => i - 1 \in 1 .. n - 1 /\ (i - 1) + 1 = i
  BY <1>2
<1>8. Sent' \subseteq Sent
  BY <1>2, <1>4, <1>6
<1>9. PendingOK'
  <2>1. (\A tx \in Sent : TxOK(tx))'
    BY <1>8 DEF PendingOK, TxOK, BegunDeposit, BegunWithdraw
  <2>2. \A i, j \in 1 .. n - 1 : pending'[i].by = pending'[j].by => i = j
    <3>1. ASSUME NEW i \in 1 .. n - 1, NEW j \in 1 .. n - 1, pending'[i].by = pending'[j].by
          PROVE  i = j
      <4>1. i + 1 = j + 1
        BY <1>2, <1>3, <1>6, <3>1
      <4>2. QED
        BY <4>1
    <3>2. QED
      BY <3>1
  <2>3. \E T : pending' \in Seq(T)
    BY <1>2
  <2>4. QED
    BY <1>2, <2>1, <2>2, <2>3 DEF PendingOK
<1>10. first \in Sent /\ 1 \in Unmined(first.by)
  BY <1>2, <1>4, <1>5, <1>7
<1>11. Unmined(first.by)' = {}
  BY <1>2, <1>3, <1>5, <1>6, <1>7
<1>12. ASSUME NEW t, t # first.by PROVE Unmined(t)' = {} <=> Unmined(t) = {}
  <2>1. ASSUME NEW i \in Unmined(t)' PROVE i + 1 \in Unmined(t)
    BY <1>2, <1>5, <1>6
  <2>2. ASSUME NEW i \in Unmined(t) PROVE i - 1 \in Unmined(t)'
    <3>1. i \in 1 .. n /\ i # 1 /\ pending[i].by = t
      BY <1>2, <1>5, <1>12
    <3>2. i - 1 \in 1 .. n - 1 /\ pending'[i - 1] = pending[i]
      BY <1>2, <1>7, <3>1
    <3>3. QED
      BY <1>5, <3>1, <3>2
  <2>3. QED
    BY <2>1, <2>2
<1>13. QED
  BY <1>8, <1>9, <1>10, <1>11, <1>12

LEMMA MineFails ==
  ASSUME ClientInv, pending # << >>, ~Succeeds(Head(pending)),
         pending' = Tail(pending), UNCHANGED << poolVars, wallet, noteFile, session >>, Block
  PROVE  ClientInv'
<1>1. PICK tx : tx = Head(pending)
  OBVIOUS
<1>2. /\ tree' = tree /\ commitments' = commitments /\ admin' = admin
      /\ wallet' = wallet /\ noteFile' = noteFile /\ session' = session
  BY DEF poolVars
<1>3. /\ PendingOK' /\ tx \in Sent /\ Unmined(tx.by) # {} /\ Unmined(tx.by)' = {}
      /\ \A t : t # tx.by => (Unmined(t)' = {} <=> Unmined(t) = {})
  BY <1>1, <1>2, PendingShrinks DEF ClientInv
<1>4. TxOK(tx)
  BY <1>3 DEF ClientInv, PendingOK
<1>5. ChainOK'
  BY <1>2, BlockKeepsChain DEF ClientInv
<1>6. StorageOK' /\ SessionsOK' /\ SecretsKept'
  BY <1>2 DEF ClientInv, StorageOK, SessionsOK, SessionOK, SecretsKept, BegunDeposit, BegunWithdraw
<1>7. ASSUME NEW s \in Sessions PROVE NotYetPaid(s)' /\ DoneSaved(s)' /\ EstimateHolds(s)'
  <2>1. Unmined(s)' # {} => Unmined(s) # {}
    BY <1>3
  <2>2. NotYetPaid(s)'
    BY <1>2, <2>1 DEF ClientInv, NotYetPaid, BegunDeposit
  <2>3. DoneSaved(s)'
    BY <1>2 DEF ClientInv, DoneSaved, BegunDeposit, Overwrites
  <2>4. ASSUME BegunDeposit(s), s \notin overtaken, session[s].pc = "depositing",
               Unmined(s) # {}, Unmined(s)' = {}
        PROVE  FALSE
    <3>1. s = tx.by
      BY <1>3, <2>4
    <3>2. tx.kind = "deposit" /\ tx.note = session[s].note
      BY <1>4, <2>4, <3>1 DEF TxOK, BegunWithdraw, BegunDeposit
    <3>3. Payable(tx.note)
      BY <2>4, <3>2 DEF ClientInv, EstimateHolds
    <3>4. tx.note \notin commitments
      BY <2>4, <3>2 DEF ClientInv, NotYetPaid
    <3>5. tx.note.amount > 0
      BY <2>4, <3>2, NoteOfSession DEF ClientInv
    <3>6. DepositAccepted(tx.note, tx.note.token, tx.note.amount)
      BY <3>3, <3>4, <3>5 DEF DepositAccepted, Payable
    <3>7. Succeeds(tx)
      BY <3>2, <3>3, <3>6 DEF Succeeds, Payable
    <3>8. QED
      BY <1>1, <3>7
  <2>5. EstimateHolds(s)'
    BY <1>2, <1>3, <2>1, <2>4, BlockKeepsEstimate
  <2>6. QED
    BY <2>2, <2>3, <2>5
<1>8. QED
  BY <1>3, <1>5, <1>6, <1>7 DEF ClientInv

LEMMA MineSucceeds ==
  ASSUME ClientInv, pending # << >>, Succeeds(Head(pending)), Effect(Head(pending)),
         pending' = Tail(pending), UNCHANGED << noteFile, session >>, Block
  PROVE  ClientInv'
<1>1. PICK tx : tx = Head(pending)
  OBVIOUS
<1>2. noteFile' = noteFile /\ session' = session
  OBVIOUS
<1>3. /\ PendingOK' /\ tx \in Sent /\ Unmined(tx.by) # {} /\ Unmined(tx.by)' = {}
      /\ \A t : t # tx.by => (Unmined(t)' = {} <=> Unmined(t) = {})
  BY <1>1, <1>2, PendingShrinks DEF ClientInv
<1>4. TxOK(tx) /\ Succeeds(tx) /\ Effect(tx)
  BY <1>1, <1>3 DEF ClientInv, PendingOK
<1>5. SessionsOK'
  BY <1>2 DEF ClientInv, SessionsOK, SessionOK, BegunDeposit, BegunWithdraw
<1>6. \A s \in Sessions : DoneSaved(s)'
  BY <1>2 DEF ClientInv, DoneSaved, BegunDeposit, Overwrites
<1>7. wallet \in [balance : Nat, allowance : Nat] /\ noteFile \in [Files -> Leaves \cup {NONE, TORN}]
  BY DEF ClientInv, StorageOK
<1>8. CASE tx.kind = "approve"
  <2>1. /\ tree' = tree /\ commitments' = commitments /\ admin' = admin
        /\ wallet' = [wallet EXCEPT !.allowance = tx.amount]
    BY <1>4, <1>8 DEF Effect, poolVars
  <2>2. /\ BegunDeposit(tx.by) /\ session[tx.by].pc \in {"approving", "died"} /\ tx.by \in Sessions
        /\ tx.amount = session[tx.by].note.amount
    BY <1>4, <1>8 DEF TxOK
  <2>3. tx.amount \in Nat
    BY <2>2, NoteOfSession DEF ClientInv
  <2>4. StorageOK'
    BY <1>2, <1>7, <2>1, <2>3 DEF StorageOK
  <2>5. ChainOK' /\ SecretsKept'
    BY <1>2, <2>1, BlockKeepsChain DEF ClientInv, SecretsKept, BegunDeposit
  <2>6. ASSUME NEW s \in Sessions PROVE NotYetPaid(s)' /\ EstimateHolds(s)'
    <3>1. NotYetPaid(s)'
      BY <1>2, <1>3, <2>1 DEF ClientInv, NotYetPaid, BegunDeposit
    <3>2. EstimateHolds(s)'
      BY <1>2, <1>3, <2>1, <2>2, BlockKeepsEstimate
    <3>3. QED
      BY <3>1, <3>2
  <2>7. QED
    BY <1>3, <1>5, <1>6, <2>4, <2>5, <2>6 DEF ClientInv
<1>9. CASE tx.kind = "deposit"
  <2>1. PICK note : note = tx.note
    OBVIOUS
  <2>2. /\ tree' = Inserted(tree, note) /\ commitments' = commitments \cup {note}
        /\ wallet' = [balance |-> wallet.balance - note.amount, allowance |-> wallet.allowance - note.amount]
    BY <1>4, <1>9, <2>1 DEF Effect, DepositNote, Deposit
  <2>3. /\ BegunDeposit(tx.by) /\ session[tx.by].pc \in {"depositing", "died"} /\ tx.by \in Sessions
        /\ note = session[tx.by].note
    BY <1>4, <1>9, <2>1 DEF TxOK
  <2>4. note.nn = tx.by /\ note.amount \in Nat \ {0}
    BY <2>3, NoteOfSession DEF ClientInv
  <2>5. wallet.balance >= note.amount /\ wallet.allowance >= note.amount
    BY <1>4, <1>9, <2>1 DEF Succeeds
  <2>6. wallet' \in [balance : Nat, allowance : Nat]
    BY <1>7, <2>2, <2>4, <2>5
  <2>7. StorageOK'
    BY <1>2, <1>7, <2>2, <2>6 DEF StorageOK
  <2>8. tree'.nextIndex = tree.nextIndex + 1 /\ tree.nextIndex \in Nat
    BY <2>2 DEF ClientInv, ChainOK, Inserted
  <2>9. ChainOK'
    BY <2>8, BlockKeepsChain DEF ClientInv
  <2>10. SecretsKept'
    BY <1>2, <2>2, <2>3, <2>4 DEF ClientInv, SecretsKept, BegunDeposit
  <2>11. ASSUME NEW s \in Sessions PROVE NotYetPaid(s)' /\ EstimateHolds(s)'
    <3>1. CASE s = tx.by
      <4>1. NotYetPaid(s)'
        BY <1>2, <1>3, <2>3, <3>1 DEF NotYetPaid
      <4>2. EstimateHolds(s)'
        BY <1>2, <1>3, <2>2, <2>3, <3>1, BlockKeepsEstimate
      <4>3. QED
        BY <4>1, <4>2
    <3>2. CASE s # tx.by
      <4>1. BegunDeposit(s) => session[s].note # note
        BY <2>4, <3>2, NoteOfSession DEF ClientInv
      <4>2. NotYetPaid(s)'
        BY <1>2, <1>3, <2>2, <3>2, <4>1 DEF ClientInv, NotYetPaid, BegunDeposit
      <4>3. EstimateHolds(s)'
        BY <1>2, <1>3, <2>2, <3>2, BlockKeepsEstimate
      <4>4. QED
        BY <4>2, <4>3
    <3>3. QED
      BY <3>1, <3>2
  <2>12. QED
    BY <1>3, <1>5, <1>6, <2>7, <2>9, <2>10, <2>11 DEF ClientInv
<1>10. CASE tx.kind = "withdraw"
  <2>1. /\ tree' = tree /\ commitments' = commitments /\ admin' = admin /\ wallet' = wallet
    BY <1>4, <1>10 DEF Effect, Withdraw
  <2>2. BegunWithdraw(tx.by) /\ tx.by \in Sessions
    BY <1>4, <1>10 DEF TxOK
  <2>3. StorageOK' /\ SecretsKept'
    BY <1>2, <1>7, <2>1 DEF ClientInv, StorageOK, SecretsKept, BegunDeposit
  <2>4. ChainOK'
    BY <2>1, BlockKeepsChain DEF ClientInv
  <2>5. ASSUME NEW s \in Sessions PROVE NotYetPaid(s)' /\ EstimateHolds(s)'
    <3>1. BegunDeposit(s) => s # tx.by
      BY <2>2 DEF BegunDeposit, BegunWithdraw
    <3>2. NotYetPaid(s)'
      BY <1>2, <1>3, <2>1, <3>1 DEF ClientInv, NotYetPaid, BegunDeposit
    <3>3. EstimateHolds(s)'
      BY <1>2, <1>3, <2>1, <3>1, BlockKeepsEstimate
    <3>4. QED
      BY <3>2, <3>3
  <2>6. QED
    BY <1>3, <1>5, <1>6, <2>3, <2>4, <2>5 DEF ClientInv
<1>11. QED
  BY <1>4, <1>8, <1>9, <1>10 DEF TxOK

LEMMA MineStep == ASSUME ClientInv, MineNext PROVE ClientInv'
<1>1. /\ pending # << >> /\ pending' = Tail(pending) /\ Block /\ UNCHANGED << noteFile, session >>
      /\ \/ Succeeds(Head(pending)) /\ Effect(Head(pending))
         \/ ~Succeeds(Head(pending)) /\ UNCHANGED << poolVars, wallet >>
  BY DEF MineNext
<1>2. CASE Succeeds(Head(pending)) /\ Effect(Head(pending))
  BY <1>1, <1>2, MineSucceeds
<1>3. CASE ~Succeeds(Head(pending)) /\ UNCHANGED << poolVars, wallet >>
  BY <1>1, <1>3, MineFails
<1>4. QED
  BY <1>1, <1>2, <1>3

\* Nothing said of the sessions, the chain and the files changes.
LEMMA NothingStep ==
  ASSUME ClientInv, OffChain, UNCHANGED << pending, noteFile, session >>
  PROVE  ClientInv'
<1>1. /\ tree' = tree /\ commitments' = commitments /\ admin' = admin /\ head' = head
      /\ heights' = heights /\ wallet' = wallet /\ overtaken' = overtaken
      /\ pending' = pending /\ noteFile' = noteFile /\ session' = session
  BY DEF OffChain, poolVars
<1>2. ChainOK' /\ StorageOK' /\ SessionsOK' /\ PendingOK' /\ SecretsKept'
  BY <1>1 DEF ClientInv, ChainOK, StorageOK, SessionsOK, SessionOK, PendingOK, SecretsKept, TxOK, Sent,
              BegunDeposit, BegunWithdraw
<1>3. ASSUME NEW s \in Sessions PROVE NotYetPaid(s)' /\ DoneSaved(s)' /\ EstimateHolds(s)'
  <2>1. NotYetPaid(s)'
    BY <1>1 DEF ClientInv, NotYetPaid, BegunDeposit, Unmined
  <2>2. DoneSaved(s)'
    BY <1>1 DEF ClientInv, DoneSaved, BegunDeposit, Overwrites
  <2>3. EstimateHolds(s)'
    BY <1>1 DEF ClientInv, EstimateHolds, BegunDeposit, Unmined, Payable
  <2>4. QED
    BY <2>1, <2>2, <2>3
<1>4. QED
  BY <1>2, <1>3 DEF ClientInv

-------------------------------------------------------------------------------
(* The invariant *)

\* The number of the first sessions' latest block, which no leaf is after.
LEMMA FirstHead ==
  LET first == Max(ToSet(InitialHeights) \cup {0})
  IN  first \in Nat /\ \A i \in 1 .. Len(InitialHeights) : InitialHeights[i] <= first
<1> DEFINE n == Len(InitialHeights)
           S == ToSet(InitialHeights) \cup {0}
<1>1. /\ InitialHeights \in Seq(Nat) /\ n \in Nat
      /\ \A i, j \in 1 .. n : i <= j => InitialHeights[i] <= InitialHeights[j]
      /\ \A i \in 1 .. n : InitialHeights[i] \in Nat
  BY HistoryAssumption
<1>2. ToSet(InitialHeights) = { InitialHeights[i] : i \in 1 .. n }
  BY <1>1 DEF ToSet
<1> HIDE DEF n
<1>3. S \subseteq Nat
  BY <1>1, <1>2
<1>4. \E x \in S : \A y \in S : x >= y
  <2>1. CASE n = 0
    <3>1. S = {0}
      BY <1>2, <2>1
    <3>2. QED
      BY <3>1
  <2>2. CASE n # 0
    <3>1. n \in 1 .. n /\ \A i \in 1 .. n : i <= n
      BY <1>1, <2>2
    <3>2. InitialHeights[n] \in S /\ \A i \in 1 .. n : InitialHeights[n] >= InitialHeights[i]
      BY <1>1, <1>2, <3>1
    <3>3. InitialHeights[n] >= 0
      BY <1>1, <3>1
    <3>4. \A y \in S : InitialHeights[n] >= y
      BY <1>2, <3>2, <3>3
    <3>5. QED
      BY <3>2, <3>4
  <2>3. QED
    BY <2>1, <2>2
<1> HIDE DEF S
<1>5. Max(S) \in S /\ \A y \in S : Max(S) >= y
  BY <1>4 DEF Max
<1>6. \A i \in 1 .. n : InitialHeights[i] \in S
  BY <1>2 DEF S
<1>7. Max(S) \in Nat /\ \A i \in 1 .. n : InitialHeights[i] <= Max(S)
  BY <1>1, <1>3, <1>5, <1>6
<1>8. QED
  BY <1>7 DEF S, n

\* The pool the sessions find.
LEMMA FirstPool ==
  ASSUME ClientInit
  PROVE  /\ PoolInv /\ LeafSet = ToSet(InitialDeposits)
         /\ tree.nextIndex = Len(InitialDeposits)
         /\ \A note \in ToSet(InitialDeposits) : note.nn \in 1 .. Len(InitialDeposits)
<1>1. /\ InitialDeposits \in Seq([nn : 1 .. MAX_LEAVES, token : Tokens, amount : Amounts])
      /\ Len(InitialDeposits) <= MAX_LEAVES
      /\ \A i \in 1 .. Len(InitialDeposits) : InitialDeposits[i].nn = i
      /\ \A token \in Tokens : FundsOf(InitialDeposits)[token] <= Supply
  BY HistoryAssumption
<1> DEFINE First == [nn : 1 .. MAX_LEAVES, token : Tokens, amount : Amounts]
<1>2. First \subseteq NoteSet /\ InitialDeposits \in Seq(First)
  <2>1. 1 .. MAX_LEAVES \subseteq Nat /\ Amounts \subseteq Nat \ {0}
    BY PoolAssumption
  <2>2. First \subseteq NoteSet
    BY ONLY <2>1 DEF NoteSet, First
  <2>3. QED
    BY <1>1, <2>2
<1> HIDE DEF First
<1>3. InitialDeposits \in Seq(NoteSet)
  BY <1>2
<1>4. \A i, j \in 1 .. Len(InitialDeposits) : InitialDeposits[i].nn = InitialDeposits[j].nn => i = j
  BY <1>1
<1>5. PoolHolding(InitialDeposits)
  BY DEF ClientInit
<1>6. PoolInv /\ LeafSet = ToSet(InitialDeposits) /\ tree.nextIndex = Len(InitialDeposits)
  BY <1>1, <1>3, <1>4, <1>5, PoolHoldsDeposits
<1>7. \A note \in ToSet(InitialDeposits) : note.nn \in 1 .. Len(InitialDeposits)
  <2>1. ToSet(InitialDeposits) = { InitialDeposits[i] : i \in 1 .. Len(InitialDeposits) }
    BY <1>1 DEF ToSet
  <2>2. QED
    BY <1>1, <2>1
<1>8. QED
  BY <1>6, <1>7

LEMMA ClientInvInit == ClientInit => ClientInv
<1> SUFFICES ASSUME ClientInit PROVE ClientInv
  OBVIOUS
<1>1. /\ heights = InitialHeights /\ head = Max(ToSet(InitialHeights) \cup {0})
      /\ wallet = [balance |-> Balance, allowance |-> 0] /\ pending = << >>
      /\ noteFile = InitialFiles /\ session = [s \in Sessions |-> Idle]
      /\ commitments = ToSet(InitialDeposits)
  BY DEF ClientInit, PoolHolding
<1>2. /\ tree.nextIndex = Len(InitialDeposits)
      /\ \A note \in commitments : note.nn \in 1 .. Len(InitialDeposits)
  BY <1>1, FirstPool
<1>3. ChainOK
  BY <1>1, <1>2, FirstHead, HistoryAssumption DEF ChainOK
<1>5. StorageOK
  BY <1>1, ClientAssumption DEF StorageOK
<1>6. SessionsOK
  BY <1>1 DEF SessionsOK, SessionOK
<1>7. PendingOK
  <2>1. pending \in Seq({}) /\ Len(pending) = 0
    BY <1>1
  <2>2. Sent = {}
    BY <2>1 DEF Sent
  <2>3. QED
    BY <2>1, <2>2 DEF PendingOK
<1>8. SecretsKept
  <2>1. Len(InitialDeposits) \in Nat /\ Len(InitialDeposits) <= MAX_LEAVES
    BY HistoryAssumption
  <2>2. 1 .. Len(InitialDeposits) \subseteq 1 .. MAX_LEAVES + 1
    BY <2>1, MaxLeavesNat
  <2>3. \A note \in commitments : note.nn \notin Sessions
    BY <1>2, <2>2, ClientAssumption
  <2>4. QED
    BY <2>3 DEF SecretsKept
<1>9. ASSUME NEW s \in Sessions PROVE NotYetPaid(s) /\ DoneSaved(s) /\ EstimateHolds(s)
  <2>1. ~BegunDeposit(s)
    BY <1>1 DEF BegunDeposit, Idle, DepositPcs
  <2>2. QED
    BY <2>1 DEF NotYetPaid, DoneSaved, EstimateHolds
<1>10. QED
  BY <1>3, <1>5, <1>6, <1>7, <1>8, <1>9 DEF ClientInv

LEMMA ClientInvStep == ClientInv /\ [ClientNext]_clientVars => ClientInv'
<1> SUFFICES ASSUME ClientInv, [ClientNext]_clientVars PROVE ClientInv'
  OBVIOUS
<1>1. CASE UNCHANGED clientVars
  BY <1>1, NothingStep DEF clientVars, OffChain
<1>2. CASE MineNext
  BY <1>2, MineStep
<1>3. CASE EmptyBlock \/ OwnerDelists
  BY <1>3, NoLeafStep
<1>4. CASE OthersDeposit
  BY <1>4, OthersDepositStep
<1>5. ASSUME NEW file \in Files, ScriptProves(file) PROVE ClientInv'
  BY <1>5, NothingStep DEF ScriptProves
<1>6. ASSUME NEW s \in Sessions, NEW file \in Files, NEW amount \in Amounts,
             DepositBegins(s, file, amount)
      PROVE  ClientInv'
  BY <1>6, DepositBeginsStep
<1>7. ASSUME NEW s \in Sessions, NEW file \in Files, NEW source \in {"generate", "file", "none"},
             NEW deployBlock \in DeployBlocks, WithdrawBegins(s, file, source, deployBlock)
      PROVE  ClientInv'
  BY <1>7, WithdrawBeginsStep
<1>8. ASSUME NEW s \in Sessions,
             SendDeposit(s) \/ SaveBegins(s) \/ SaveEnds(s) \/ FetchChunk(s) \/ Rebuild(s)
               \/ SendWithdraw(s) \/ WithdrawEnds(s) \/ Dies(s)
      PROVE  ClientInv'
  BY <1>8, SendDepositStep, SaveBeginsStep, SaveEndsStep, FetchStep, RebuildStep,
     SendWithdrawStep, WithdrawEndsStep, DiesStep
<1>9. QED
  BY <1>1, <1>2, <1>3, <1>4, <1>5, <1>6, <1>7, <1>8 DEF ClientNext

\* What is true of the chain, the mempool, the files and the sessions together.
THEOREM ClientInvariant == ClientSpec => []ClientInv
BY ClientInvInit, ClientInvStep, PTL DEF ClientSpec

\* Type correctness, for any number of sessions: a session has one transaction
\* at most that is not mined, and waits for it unless it died.
THEOREM ClientTypeCorrect == ClientSpec => []ClientTypeOK
<1>1. ClientInv => ClientTypeOK
  <2> SUFFICES ASSUME ClientInv PROVE ClientTypeOK
    OBVIOUS
  <2>1. /\ Len(heights) = tree.nextIndex /\ \A i \in 1 .. Len(heights) : heights[i] <= head
        /\ wallet.balance \in Nat /\ wallet.allowance \in Nat
        /\ SessionsOK /\ PendingOK
    BY DEF ClientInv, ChainOK, StorageOK
  <2>2. ASSUME NEW s \in Sessions
        PROVE  /\ session[s].pc \in {"idle", "approving", "depositing", "saving",
                                     "fetching", "proving", "withdrawing"} \cup Ended
               /\ Cardinality({ i \in 1 .. Len(pending) : pending[i].by = s }) <= 1
               /\ ~IsMined(s) => session[s].pc \in {"approving", "depositing", "withdrawing", "died"}
    <3>1. session[s].pc = "idle" \/ BegunDeposit(s) \/ BegunWithdraw(s)
      BY <2>1, BegunIsDoing
    <3>2. session[s].pc \in {"idle", "approving", "depositing", "saving",
                             "fetching", "proving", "withdrawing"} \cup Ended
      BY <3>1 DEF BegunDeposit, BegunWithdraw, DepositPcs, WithdrawPcs, Ended
    <3>3. Cardinality(Unmined(s)) <= 1
      <4>1. CASE Unmined(s) = {}
        BY <4>1, FS_EmptySet
      <4>2. CASE Unmined(s) # {}
        <5>1. PICK i : i \in Unmined(s)
          BY <4>2
        <5>2. Unmined(s) = {i}
          BY <2>1, <5>1 DEF Unmined, PendingOK
        <5>3. QED
          BY <5>2, FS_Singleton
      <4>3. QED
        BY <4>1, <4>2
    <3>4. QED
      BY <2>1, <3>2, <3>3, IsMinedMeans, WhoWaits DEF Unmined
  <2>3. QED
    BY <2>1, <2>2 DEF ClientTypeOK
<1>2. QED
  BY <1>1, ClientInvariant, PTL

\* The secrets of a deposit that was paid for are kept, whatever the other runs
\* do and wherever they die.
THEOREM PaidNotesAreKept == ClientSpec => []PaidNotesKept
<1>1. ClientInv => PaidNotesKept
  <2> SUFFICES ASSUME ClientInv, NEW s \in Sessions,
                      session[s].kind = "deposit", session[s].note \in commitments
               PROVE  \/ session[s].pc \in {"depositing", "saving", "died"}
                      \/ \E file \in Files : noteFile[file] = session[s].note
                      \/ \E t \in Sessions \ {s} :
                           /\ session[t].kind = "deposit" /\ session[t].file = session[s].file
                           /\ session[t].pc \in {"saving", "done", "died"}
    BY DEF PaidNotesKept
  <2>1. SessionsOK /\ NotYetPaid(s) /\ DoneSaved(s)
    BY DEF ClientInv
  <2>2. BegunDeposit(s)
    <3>1. session[s].pc # "idle"
      BY <2>1, IdleIsIdle
    <3>2. QED
      BY <2>1, <3>1, BegunIsDoing DEF BegunWithdraw
  <2>3. session[s].file \in Files
    BY <2>1, <2>2, NoteOfSession
  <2>4. CASE session[s].pc = "done"
    BY <2>1, <2>2, <2>3, <2>4 DEF DoneSaved, Overwrites
  <2>5. CASE session[s].pc # "done"
    BY <2>1, <2>2, <2>5 DEF NotYetPaid, BegunDeposit, DepositPcs
  <2>6. QED
    BY <2>4, <2>5
<1>2. QED
  BY <1>1, ClientInvariant, PTL

\* A note is saved without having been paid for only if, while its deposit
\* waited, a block changed what the estimate had gone by.
THEOREM SavedNotesArePaid == ClientSpec => []SavedNotesPaid
<1>1. ClientInv => SavedNotesPaid
  <2> SUFFICES ASSUME ClientInv, NEW s \in Sessions,
                      session[s].pc = "done", session[s].kind = "deposit", s \notin overtaken
               PROVE  session[s].note \in commitments
    BY DEF SavedNotesPaid
  <2>1. SessionsOK /\ PendingOK /\ EstimateHolds(s)
    BY DEF ClientInv
  <2>2. BegunDeposit(s)
    BY DEF BegunDeposit, DepositPcs
  <2>3. Unmined(s) = {}
    BY <2>1, WhoWaits
  <2>4. QED
    BY <2>1, <2>2, <2>3 DEF EstimateHolds
<1>2. QED
  BY <1>1, ClientInvariant, PTL

-------------------------------------------------------------------------------
(* Blocks, events and sorting *)

\* How many leaves there are up to a block, when no leaf is in an earlier block
\* than the leaf before it.
CountUpTo(h, b) == Cardinality({ i \in 1 .. Len(h) : h[i] <= b })

Ascending(h) == h \in Seq(Nat) /\ \A i, j \in 1 .. Len(h) : i <= j => h[i] <= h[j]

LEMMA CountSplits ==
  ASSUME NEW h, Ascending(h), NEW b \in Int
  PROVE  /\ CountUpTo(h, b) \in 0 .. Len(h)
         /\ \A i \in 1 .. Len(h) : h[i] <= b <=> i <= CountUpTo(h, b)
<1> DEFINE n == Len(h)
           S == { i \in 1 .. n : h[i] <= b }
<1>1. n \in Nat /\ (\A i \in 1 .. n : h[i] \in Nat)
      /\ \A i, j \in 1 .. n : i <= j => h[i] <= h[j]
  BY DEF Ascending
<1> HIDE DEF n
<1>2. PICK k \in 0 .. n : S = 1 .. k
  <2>1. CASE S = {}
    BY <1>1, <2>1
  <2>2. CASE S # {}
    <3>1. S \subseteq Nat /\ IsFiniteSet(S)
      <4>1. IsFiniteSet(1 .. n) /\ S \subseteq 1 .. n /\ 1 .. n \subseteq Nat
        BY <1>1, FS_Interval
      <4>2. QED
        BY <4>1, FS_Subset
    <3>2. PICK m \in S : \A x \in S : x <= m
      <4> HIDE DEF S
      <4>1. QED
        BY <2>2, <3>1, GreatestExists
    <3>3. m \in 1 .. n /\ h[m] <= b
      BY <3>2
    <3>4. \A i \in 1 .. n : i <= m => h[i] <= b
      BY <1>1, <3>3
    <3>5. S = 1 .. m
      BY <1>1, <3>2, <3>3, <3>4
    <3>6. QED
      BY <1>1, <3>3, <3>5
  <2>3. QED
    BY <2>1, <2>2
<1>3. Cardinality(S) = k
  <2>1. Cardinality(1 .. k) = k
    BY <1>1, FS_Interval
  <2>2. QED
    BY <1>2, <2>1
<1>4. \A i \in 1 .. n : h[i] <= b <=> i <= k
  BY <1>1, <1>2
<1>5. QED
  BY <1>3, <1>4 DEF CountUpTo, n

\* The count is determined by what it says of the leaves.
LEMMA CountUnique ==
  ASSUME NEW n \in Nat, NEW k \in 0 .. n, NEW m \in 0 .. n, \A i \in 1 .. n : i <= k <=> i <= m
  PROVE  k = m
<1>1. CASE k < m
  <2>1. m \in 1 .. n /\ m <= m /\ ~(m <= k)
    BY <1>1
  <2>2. QED
    BY <2>1
<1>2. CASE m < k
  <2>1. k \in 1 .. n /\ k <= k /\ ~(k <= m)
    BY <1>2
  <2>2. QED
    BY <2>1
<1>3. QED
  BY <1>1, <1>2

LEMMA CountRises ==
  ASSUME NEW h, Ascending(h), NEW b \in Int, NEW c \in Int, b <= c
  PROVE  CountUpTo(h, b) <= CountUpTo(h, c)
<1>1. /\ CountUpTo(h, b) \in 0 .. Len(h) /\ CountUpTo(h, c) \in 0 .. Len(h)
      /\ \A i \in 1 .. Len(h) : h[i] <= b <=> i <= CountUpTo(h, b)
      /\ \A i \in 1 .. Len(h) : h[i] <= c <=> i <= CountUpTo(h, c)
  BY CountSplits
<1>1a. Len(h) \in Nat /\ \A i \in 1 .. Len(h) : h[i] \in Nat
  BY DEF Ascending
<1>2. CASE CountUpTo(h, b) = 0
  BY <1>1, <1>1a, <1>2
<1>3. CASE CountUpTo(h, b) # 0
  <2>1. CountUpTo(h, b) \in 1 .. Len(h)
    BY <1>1, <1>1a, <1>3
  <2>2. h[CountUpTo(h, b)] <= c
    BY <1>1, <1>1a, <2>1
  <2>3. QED
    BY <1>1, <2>1, <2>2
<1>4. QED
  BY <1>2, <1>3

\* Leaves in later blocks do not change the count up to a block.
LEMMA CountStays ==
  ASSUME NEW h, Ascending(h), NEW g, Ascending(g), NEW b \in Int,
         Len(h) <= Len(g), \A i \in 1 .. Len(h) : g[i] = h[i],
         \A i \in 1 .. Len(g) : i \notin 1 .. Len(h) => g[i] > b
  PROVE  CountUpTo(g, b) = CountUpTo(h, b)
<1>1. /\ CountUpTo(h, b) \in 0 .. Len(h) /\ CountUpTo(g, b) \in 0 .. Len(g)
      /\ \A i \in 1 .. Len(h) : h[i] <= b <=> i <= CountUpTo(h, b)
      /\ \A i \in 1 .. Len(g) : g[i] <= b <=> i <= CountUpTo(g, b)
  BY CountSplits
<1>1a. Len(h) \in Nat /\ Len(g) \in Nat /\ \A i \in 1 .. Len(g) : g[i] \in Nat
  BY DEF Ascending
<1>2. \A i \in 1 .. Len(g) : i <= CountUpTo(g, b) <=> i <= CountUpTo(h, b)
  <2>1. ASSUME NEW i \in 1 .. Len(g) PROVE i <= CountUpTo(g, b) <=> i <= CountUpTo(h, b)
    <3>1. CASE i \in 1 .. Len(h)
      BY <1>1, <3>1
    <3>2. CASE i \notin 1 .. Len(h)
      <4>1. g[i] > b /\ i > Len(h)
        BY <1>1a, <3>2
      <4>2. QED
        BY <1>1, <1>1a, <4>1
    <3>3. QED
      BY <3>1, <3>2
  <2>2. QED
    BY <2>1
<1>3. CountUpTo(h, b) \in 0 .. Len(g)
  BY <1>1, <1>1a
<1>4. QED
  BY <1>1, <1>1a, <1>2, <1>3, CountUnique

LEMMA LeavesUpToIsCount == \A b : LeavesUpTo(b) = CountUpTo(heights, b)
BY DEF LeavesUpTo, CountUpTo

\* The events of consecutive leaves.
LEMMA EventsOfSlice ==
  ASSUME NEW a \in Nat, NEW b \in Nat, a <= b
  PROVE  /\ EventsOf(a, b) \in Seq({ EventsOf(a, b)[i] : i \in 1 .. b - a })
         /\ Len(EventsOf(a, b)) = b - a /\ b - a \in Nat
         /\ DOMAIN EventsOf(a, b) = 1 .. b - a
         /\ \A i \in 1 .. b - a : /\ EventsOf(a, b)[i].idx = a + i - 1
                                  /\ EventsOf(a, b)[i].leaf = tree.log[a + i].leaf
                                  /\ EventsOf(a, b)[i] = [idx |-> a + i - 1, leaf |-> tree.log[a + i].leaf]
<1> DEFINE e == EventsOf(a, b)
<1>1. b - a \in Nat
  OBVIOUS
<1>2. e = [i \in 1 .. b - a |-> [idx |-> a + i - 1, leaf |-> tree.log[a + i].leaf]]
  BY DEF EventsOf
<1>3. DOMAIN e = 1 .. b - a
      /\ \A i \in 1 .. b - a : /\ e[i].idx = a + i - 1 /\ e[i].leaf = tree.log[a + i].leaf
                               /\ e[i] = [idx |-> a + i - 1, leaf |-> tree.log[a + i].leaf]
  BY <1>2
<1>4. e \in [1 .. b - a -> { e[i] : i \in 1 .. b - a }]
  BY <1>2
<1> HIDE DEF e
<1>5. e \in Seq({ e[i] : i \in 1 .. b - a })
  BY <1>1, <1>4
<1>6. Len(e) = b - a
  BY <1>1, <1>5 DEF e, EventsOf
<1>7. QED
  BY <1>1, <1>3, <1>5, <1>6 DEF e

LEMMA CardOfSegment == ASSUME NEW m \in Nat PROVE Cardinality(1 .. m) = m
BY FS_Interval

LEMMA EventsJoin ==
  ASSUME NEW a \in Nat, NEW b \in Nat, NEW c \in Nat, a <= b, b <= c
  PROVE  EventsOf(a, b) \o EventsOf(b, c) = EventsOf(a, c)
<1> DEFINE e == EventsOf(a, b)
           f == EventsOf(b, c)
           g == EventsOf(a, c)
           E == { e[i] : i \in 1 .. b - a }
           F == { f[i] : i \in 1 .. c - b }
           G == { g[i] : i \in 1 .. c - a }
<1>1. /\ e \in Seq(E) /\ Len(e) = b - a
      /\ \A i \in 1 .. b - a : e[i] = [idx |-> a + i - 1, leaf |-> tree.log[a + i].leaf]
  BY EventsOfSlice
<1>2. /\ f \in Seq(F) /\ Len(f) = c - b
      /\ \A i \in 1 .. c - b : f[i] = [idx |-> b + i - 1, leaf |-> tree.log[b + i].leaf]
  BY EventsOfSlice
<1>3. /\ g \in Seq(G) /\ Len(g) = c - a
      /\ \A i \in 1 .. c - a : g[i] = [idx |-> a + i - 1, leaf |-> tree.log[a + i].leaf]
  <2>1. a <= c
    OBVIOUS
  <2>2. QED
    BY <2>1, EventsOfSlice
<1> HIDE DEF e, f, g, E, F, G
<1>4. PICK s : s = e \o f
  OBVIOUS
<1>4a. /\ s \in Seq(E \cup F) /\ Len(s) = c - a
       /\ \A i \in 1 .. b - a : s[i] = e[i]
       /\ \A i \in b - a + 1 .. c - a : s[i] = f[i - (b - a)]
  <2>1. e \in Seq(E \cup F) /\ f \in Seq(E \cup F)
    BY <1>1, <1>2
  <2>2. Len(s) = Len(e) + Len(f) /\ s \in Seq(E \cup F)
    BY <1>4, <2>1
  <2>2a. Len(s) = c - a
    BY <1>1, <1>2, <2>2
  <2>3. \A i \in 1 .. Len(e) : s[i] = e[i]
    BY <1>4, <2>1
  <2>4. \A i \in Len(e) + 1 .. Len(e) + Len(f) : s[i] = f[i - Len(e)]
    BY <1>4, <2>1
  <2>5. Len(e) = b - a /\ Len(e) + Len(f) = c - a
    BY <1>1, <1>2
  <2>6. QED
    BY <2>2, <2>2a, <2>3, <2>4, <2>5
<1>5. ASSUME NEW i \in 1 .. c - a PROVE s[i] = g[i]
  <2>1. CASE i <= b - a
    <3>1. i \in 1 .. b - a
      BY <2>1
    <3>2. QED
      BY <1>1, <1>3, <1>4a, <3>1
  <2>2. CASE i > b - a
    <3>1. PICK j \in 1 .. c - b : j = i - (b - a)
      BY <2>2
    <3>2. i \in b - a + 1 .. c - a /\ b + j = a + i
      BY <2>2, <3>1
    <3>3. s[i] = f[j]
      BY <1>4a, <3>1, <3>2
    <3>4. f[j] = [idx |-> b + j - 1, leaf |-> tree.log[b + j].leaf]
      BY <1>2, <3>1
    <3>5. g[i] = [idx |-> a + i - 1, leaf |-> tree.log[a + i].leaf]
      BY <1>3
    <3>6. QED
      BY <3>2, <3>3, <3>4, <3>5
  <2>3. QED
    BY <2>1, <2>2
<1>6. g = [i \in 1 .. c - a |-> g[i]]
  BY <1>3
<1>7. s = [i \in 1 .. c - a |-> s[i]]
  BY <1>4a
<1>8. s = g
  BY <1>5, <1>6, <1>7
<1>9. QED
  BY <1>4, <1>8 DEF e, f, g

\* Sorting what is in order changes nothing.
LEMMA SortedStays ==
  ASSUME NEW events, NEW n \in Nat, NEW a \in Nat, Len(events) = n, DOMAIN events = 1 .. n,
         \A i \in 1 .. n : events[i].idx = a + i - 1,
         events = [i \in 1 .. n |-> events[i]]
  PROVE  SortedByIndex(events) = events
<1> DEFINE Before(j, i) == events[j].idx < events[i].idx \/ (events[j].idx = events[i].idx /\ j < i)
           rank(i) == Cardinality({ j \in 1 .. n : Before(j, i) })
<1>1. ASSUME NEW i \in 1 .. n PROVE rank(i) = i - 1
  <2>1. \A j \in 1 .. n : Before(j, i) <=> j < i
    BY <1>1
  <2>2. PICK m \in Nat : m = i - 1
    BY <1>1
  <2>3. { j \in 1 .. n : Before(j, i) } = 1 .. m
    BY <2>1, <2>2
  <2>3a. Cardinality(1 .. m) = m
    BY CardOfSegment
  <2>4. QED
    BY <2>2, <2>3, <2>3a
<1>2. SortedByIndex(events) = [k \in 1 .. n |-> events[CHOOSE i \in 1 .. n : rank(i) = k - 1]]
  BY DEF SortedByIndex
<1> HIDE DEF rank
<1>3. ASSUME NEW k \in 1 .. n PROVE (CHOOSE i \in 1 .. n : rank(i) = k - 1) = k
  <2>1. rank(k) = k - 1
    BY <1>1
  <2>2. \A i \in 1 .. n : rank(i) = k - 1 => i = k
    BY <1>1
  <2>3. QED
    BY <2>1, <2>2
<1>4. SortedByIndex(events) = [k \in 1 .. n |-> events[k]]
  BY <1>2, <1>3
<1>5. QED
  BY <1>4

-------------------------------------------------------------------------------
(* The pool under the sessions *)

\* The pool's invariant and the tree's, with the secrets known of others' notes.
ClientPoolOK ==
  /\ PoolInv /\ HashInv
  /\ \A leaf \in LeafSet : leaf.nn \in 1 .. tree.nextIndex \cup Sessions

\* How the chain goes on: leaves, nullifiers and blocks are only added, no leaf
\* is added to a block there was, and tokens are only delisted.
Advances ==
  /\ ClientPoolOK'
  /\ tree'.nextIndex >= tree.nextIndex
  /\ \A i \in 1 .. tree.nextIndex : tree'.log[i] = tree.log[i]
  /\ head' >= head /\ Len(heights') >= Len(heights)
  /\ \A i \in 1 .. Len(heights) : heights'[i] = heights[i]
  /\ \A b \in Int : b <= head => LeavesUpTo(b)' = LeavesUpTo(b)
  /\ nullifierHashes \subseteq nullifierHashes'
  /\ admin'.supportedTokens \subseteq admin.supportedTokens

LEMMA PoolHasRing == PoolInv => RingInv /\ tree.nextIndex \in Nat /\ Len(tree.log) = tree.nextIndex
BY DEF PoolInv, TreeOfNotes, RingInv, RingOK

\* A deposit of a note with secrets of its own.
LEMMA DepositKept ==
  ASSUME ClientPoolOK, NEW note \in NoteSet, note \in Leaves, \A leaf \in LeafSet : leaf.nn # note.nn,
         note.nn \in 1 .. tree.nextIndex + 1 \cup Sessions, DepositNote(note)
  PROVE  /\ ClientPoolOK' /\ tree'.nextIndex = tree.nextIndex + 1
         /\ \A i \in 1 .. tree.nextIndex : tree'.log[i] = tree.log[i]
         /\ nullifierHashes' = nullifierHashes
<1>1. PoolInv /\ HashInv /\ \A leaf \in LeafSet : leaf.nn \in 1 .. tree.nextIndex \cup Sessions
  BY DEF ClientPoolOK
<1>2. PoolInv'
  BY <1>1, DepositIssues
<1>3. RingInv /\ tree.nextIndex \in Nat /\ Len(tree.log) = tree.nextIndex
  BY <1>1, PoolHasRing
<1>4. tree' = Inserted(tree, note) /\ HasRoom(tree, 1) /\ nullifierHashes' = nullifierHashes
  BY DEF DepositNote, Deposit, DepositAccepted
<1>5. RingOK(tree) /\ HashOK(tree)
  BY <1>1, <1>3 DEF RingInv, HashInv
<1>6. HashOK(tree')
  BY <1>4, <1>5, HashOKInserted
<1>7. /\ tree'.nextIndex = tree.nextIndex + 1 /\ Len(tree'.log) = tree.nextIndex + 1
      /\ \A i \in 1 .. tree.nextIndex : tree'.log[i] = tree.log[i]
      /\ tree'.log[tree.nextIndex + 1].leaf = note
  BY <1>4, <1>5, LogOfInserted
<1>8. ASSUME NEW leaf \in LeafSet' PROVE leaf.nn \in 1 .. tree'.nextIndex \cup Sessions
  <2>1. PICK i \in 1 .. tree.nextIndex + 1 : leaf = tree'.log[i].leaf
    BY <1>7 DEF LeafSet
  <2>2. CASE i = tree.nextIndex + 1
    BY <1>7, <2>1, <2>2
  <2>3. CASE i # tree.nextIndex + 1
    <3>1. i \in 1 .. tree.nextIndex
      BY <1>3, <2>3
    <3>2. leaf \in LeafSet
      BY <1>3, <1>7, <2>1, <3>1 DEF LeafSet
    <3>3. leaf.nn \in 1 .. tree.nextIndex \cup Sessions
      BY <1>1, <3>2
    <3>4. QED
      BY <1>3, <1>7, <3>3
  <2>4. QED
    BY <2>2, <2>3
<1>9. (\A leaf \in LeafSet : leaf.nn \in 1 .. tree.nextIndex \cup Sessions)'
  BY <1>8
<1>10. ClientPoolOK'
  BY <1>2, <1>6, <1>9 DEF ClientPoolOK, HashInv
<1>11. QED
  BY <1>4, <1>7, <1>10

LEMMA WithdrawKept ==
  ASSUME ClientPoolOK, NEW note, NEW root, NEW amount \in Nat, Withdraw(note, root, amount)
  PROVE  ClientPoolOK' /\ tree' = tree /\ nullifierHashes' = nullifierHashes \cup {Nullifier(note)}
<1>1. PoolInv'
  BY WithdrawPays DEF ClientPoolOK
<1>2. tree' = tree /\ nullifierHashes' = nullifierHashes \cup {Nullifier(note)}
  BY DEF Withdraw
<1>3. QED
  BY <1>1, <1>2 DEF ClientPoolOK, HashInv, LeafSet

LEMMA PoolKept == ASSUME ClientPoolOK, UNCHANGED poolVars PROVE ClientPoolOK'
<1>1. PoolInv' /\ LeafSet' = LeafSet
  BY PoolUnchanged DEF ClientPoolOK
<1>2. tree' = tree
  BY DEF poolVars
<1>3. QED
  BY <1>1, <1>2 DEF ClientPoolOK, HashInv

\* The count up to a block that is there is not changed by the next block.
LEMMA BlockKeepsCounts ==
  ASSUME ChainOK, Block, tree'.nextIndex = tree.nextIndex \/ tree'.nextIndex = tree.nextIndex + 1
  PROVE  /\ head' >= head /\ Len(heights') >= Len(heights)
         /\ \A i \in 1 .. Len(heights) : heights'[i] = heights[i]
         /\ \A b \in Int : b <= head => LeavesUpTo(b)' = LeavesUpTo(b)
<1>1. /\ ChainOK' /\ head' = head + 1
      /\ \A i \in 1 .. Len(heights) : heights'[i] = heights[i]
      /\ \A i \in 1 .. Len(heights') : i \notin 1 .. Len(heights) => heights'[i] = head + 1
  BY BlockKeepsChain
<1>2. head \in Nat /\ Ascending(heights) /\ Len(heights) = tree.nextIndex /\ Len(heights) \in Nat
  BY DEF ChainOK, Ascending
<1>3. Ascending(heights') /\ Len(heights') = tree'.nextIndex
  BY <1>1 DEF ChainOK, Ascending
<1>4. Len(heights') >= Len(heights)
  BY <1>2, <1>3
<1>5. ASSUME NEW b \in Int, b <= head PROVE LeavesUpTo(b)' = LeavesUpTo(b)
  <2>1. \A i \in 1 .. Len(heights') : i \notin 1 .. Len(heights) => heights'[i] > b
    BY <1>1, <1>2, <1>5
  <2>2. CountUpTo(heights', b) = CountUpTo(heights, b)
    BY <1>1, <1>2, <1>3, <1>4, <2>1, CountStays
  <2>3. LeavesUpTo(b) = CountUpTo(heights, b) /\ LeavesUpTo(b)' = CountUpTo(heights', b)
    BY DEF LeavesUpTo, CountUpTo
  <2>4. QED
    BY <2>2, <2>3
<1>6. QED
  BY <1>1, <1>2, <1>4, <1>5

LEMMA OffChainAdvances == ASSUME ClientInv, ClientPoolOK, OffChain PROVE Advances
<1>1. UNCHANGED poolVars /\ tree' = tree /\ head' = head /\ heights' = heights
      /\ nullifierHashes' = nullifierHashes /\ admin' = admin
  BY DEF OffChain, poolVars
<1>2. ClientPoolOK'
  BY <1>1, PoolKept
<1>3. tree.nextIndex \in Nat /\ head \in Nat /\ Len(heights) \in Nat
  BY DEF ClientInv, ChainOK
<1>4. \A b \in Int : LeavesUpTo(b)' = LeavesUpTo(b)
  BY <1>1 DEF LeavesUpTo
<1>5. QED
  BY <1>1, <1>2, <1>3, <1>4 DEF Advances

LEMMA SameTreeAdvances ==
  ASSUME ClientInv, ClientPoolOK, ClientPoolOK', Block, tree' = tree,
         nullifierHashes \subseteq nullifierHashes',
         admin'.supportedTokens \subseteq admin.supportedTokens
  PROVE  Advances
<1>1. ChainOK /\ tree.nextIndex \in Nat
  BY DEF ClientInv, ChainOK
<1>2. /\ head' >= head /\ Len(heights') >= Len(heights)
      /\ \A i \in 1 .. Len(heights) : heights'[i] = heights[i]
      /\ \A b \in Int : b <= head => LeavesUpTo(b)' = LeavesUpTo(b)
  BY <1>1, BlockKeepsCounts
<1>3. QED
  BY <1>1, <1>2 DEF Advances

LEMMA DepositAdvances ==
  ASSUME ClientInv, ClientPoolOK, Block, NEW note \in NoteSet, note \in Leaves,
         \A leaf \in LeafSet : leaf.nn # note.nn,
         note.nn \in 1 .. tree.nextIndex + 1 \cup Sessions, DepositNote(note)
  PROVE  Advances
<1>1. ChainOK /\ tree.nextIndex \in Nat
  BY DEF ClientInv, ChainOK
<1>2. /\ ClientPoolOK' /\ tree'.nextIndex = tree.nextIndex + 1
      /\ \A i \in 1 .. tree.nextIndex : tree'.log[i] = tree.log[i]
      /\ nullifierHashes' = nullifierHashes
  BY DepositKept
<1>3. /\ head' >= head /\ Len(heights') >= Len(heights)
      /\ \A i \in 1 .. Len(heights) : heights'[i] = heights[i]
      /\ \A b \in Int : b <= head => LeavesUpTo(b)' = LeavesUpTo(b)
  BY <1>1, <1>2, BlockKeepsCounts
<1>4. admin' = admin
  BY DEF DepositNote, Deposit
<1>5. QED
  BY <1>1, <1>2, <1>3, <1>4 DEF Advances

LEMMA EmptyBlockAdvances == ASSUME ClientInv, ClientPoolOK, EmptyBlock PROVE Advances
<1>1. Block /\ UNCHANGED poolVars
  BY DEF EmptyBlock
<1>2. ClientPoolOK'
  BY <1>1, PoolKept
<1>3. QED
  BY <1>1, <1>2, SameTreeAdvances DEF poolVars

LEMMA DelistingAdvances == ASSUME ClientInv, ClientPoolOK, OwnerDelists PROVE Advances
<1>1. /\ Block /\ UNCHANGED << tree, nullifierHashes, commitments, vault >>
      /\ admin' = [admin EXCEPT !.supportedTokens = admin.supportedTokens \ {Token}]
  BY DEF OwnerDelists, RemoveSupportedToken, AdminCall
<1>2. LeafSet' = LeafSet /\ Unspent' = Unspent
  BY <1>1 DEF LeafSet, Unspent
<1>3. Solvent' <=> Solvent
  <2>1. Solvent' <=> (\A token \in Tokens : vault[token] >= ClaimOf(Unspent, token))'
    BY SolventMeans, PTL
  <2>2. QED
    BY <1>1, <1>2, <2>1, SolventMeans
<1>4. PoolInv'
  BY <1>1, <1>2, <1>3 DEF ClientPoolOK, PoolInv, TreeOfNotes
<1>5. ClientPoolOK'
  BY <1>1, <1>2, <1>4 DEF ClientPoolOK, HashInv
<1>6. admin'.supportedTokens \subseteq admin.supportedTokens
  BY <1>1
<1>7. QED
  BY <1>1, <1>5, <1>6, SameTreeAdvances

LEMMA OthersAdvance == ASSUME ClientInv, ClientPoolOK, OthersDeposit PROVE Advances
<1>1. PICK amount \in Amounts : DepositNote(Note(FreshNN, Token, amount))
  BY DEF OthersDeposit
<1>2. PICK note : note = Note(FreshNN, Token, amount)
  OBVIOUS
<1>3. Block /\ DepositNote(note) /\ tree.nextIndex + 1 <= MAX_LEAVES /\ tree.nextIndex \in Nat
  <2>1. Block
    BY DEF OthersDeposit
  <2>2. DepositNote(note)
    BY <1>1, <1>2
  <2>3. HasRoom(tree, 1)
    BY <2>2 DEF DepositNote, Deposit, DepositAccepted
  <2>4. tree.nextIndex \in Nat
    BY DEF ClientInv, ChainOK
  <2>5. QED
    BY <2>1, <2>2, <2>3, <2>4 DEF HasRoom
<1>4. note = [nn |-> tree.nextIndex + 1, token |-> Token, amount |-> amount]
  BY <1>2 DEF Note, FreshNN
<1>5. tree.nextIndex + 1 \in 1 .. MAX_LEAVES /\ MAX_LEAVES \in Nat
  BY <1>3, MaxLeavesNat
<1>6. note \in NoteSet /\ note \in [nn : 1 .. MAX_LEAVES, token : Tokens, amount : Amounts]
  BY <1>4, <1>5, PoolAssumption, ClientAssumption DEF NoteSet
<1>7. note \in Leaves
  BY <1>6, PoolAssumption
<1>8. \A leaf \in LeafSet : leaf.nn # note.nn
  <2>1. ASSUME NEW leaf \in LeafSet PROVE leaf.nn # tree.nextIndex + 1
    <3>1. leaf.nn \in 1 .. tree.nextIndex \cup Sessions
      BY DEF ClientPoolOK
    <3>2. tree.nextIndex + 1 \notin Sessions
      BY <1>5, ClientAssumption
    <3>3. tree.nextIndex + 1 \notin 1 .. tree.nextIndex
      BY <1>3
    <3>4. QED
      BY <3>1, <3>2, <3>3
  <2>2. QED
    BY <1>4, <2>1
<1>9. note.nn \in 1 .. tree.nextIndex + 1 \cup Sessions
  BY <1>3, <1>4
<1>10. QED
  BY <1>3, <1>6, <1>7, <1>8, <1>9, DepositAdvances

\* A transaction of a session that succeeds.
LEMMA EffectAdvances ==
  ASSUME ClientInv, ClientPoolOK, NEW tx \in Sent, Succeeds(tx), Effect(tx), Block
  PROVE  Advances
<1>1. TxOK(tx) /\ SessionsOK /\ SecretsKept /\ \A s \in Sessions : NotYetPaid(s)
  BY DEF ClientInv, PendingOK
<1>2. CASE tx.kind = "approve"
  <2>1. UNCHANGED poolVars
    BY <1>2 DEF Effect
  <2>2. ClientPoolOK'
    BY <2>1, PoolKept
  <2>3. QED
    BY <2>1, <2>2, SameTreeAdvances DEF poolVars
<1>3. CASE tx.kind = "deposit"
  <2>1. PICK s \in Sessions : s = tx.by
    BY <1>1 DEF TxOK
  <2>2. BegunDeposit(s) /\ tx.note = session[s].note /\ DepositNote(tx.note)
    BY <1>1, <1>3, <2>1 DEF TxOK, Effect
  <2>3. PICK note : note = session[s].note
    OBVIOUS
  <2>4. note \in SessionNotes(s) /\ note.nn = s
    BY <1>1, <2>2, <2>3, NoteOfSession
  <2>5. note \in NoteSet
    <3>1. s \in Nat /\ Token \in Tokens /\ Amounts \subseteq Nat \ {0}
      BY PoolAssumption, ClientAssumption
    <3>2. QED
      BY <2>4, <3>1 DEF SessionNotes, NoteSet
  <2>6. note \in Leaves
    <3>1. note \in [nn : Sessions, token : {Token}, amount : Amounts]
      BY <2>4 DEF SessionNotes
    <3>2. QED
      BY <3>1, ClientAssumption
  <2>7. note \notin commitments /\ commitments = LeafSet
    BY <2>2, <2>3 DEF DepositNote, Deposit, DepositAccepted, ClientPoolOK, PoolInv
  <2>8. \A leaf \in LeafSet : leaf.nn # note.nn
    BY <1>1, <2>3, <2>4, <2>7 DEF SecretsKept
  <2>9. DepositNote(note) /\ note.nn \in 1 .. tree.nextIndex + 1 \cup Sessions
    BY <2>2, <2>3, <2>4
  <2>10. QED
    BY <2>5, <2>6, <2>8, <2>9, DepositAdvances
<1>4. CASE tx.kind = "withdraw"
  <2>1. Withdraw(tx.note, tx.root, tx.note.amount)
    BY <1>4 DEF Effect
  <2>2. tx.note.amount \in Nat
    <3>1. ProofValid(tx.note, Nullifier(tx.note), tx.root, tx.note.token, ProvedAmount(tx.note.amount))
      BY <2>1 DEF Withdraw, WithdrawAccepted
    <3>2. tree.nextIndex \in Nat /\ Len(tree.log) = tree.nextIndex /\ PoolInv
      BY PoolHasRing DEF ClientPoolOK
    <3>3. \E i \in 1 .. tree.nextIndex : tree.log[i].leaf = tx.note
      BY <3>1, <3>2 DEF ProofValid
    <3>4. tx.note \in LeafSet
      BY <3>2, <3>3 DEF LeafSet
    <3>5. tx.note \in NoteSet
      BY <3>2, <3>4, UnspentNotes
    <3>6. QED
      BY <3>5 DEF NoteSet
  <2>3. ClientPoolOK' /\ tree' = tree /\ nullifierHashes' = nullifierHashes \cup {Nullifier(tx.note)}
    BY <2>1, <2>2, WithdrawKept
  <2>4. admin' = admin
    BY <2>1 DEF Withdraw
  <2>5. QED
    BY <2>3, <2>4, SameTreeAdvances
<1>5. QED
  BY <1>1, <1>2, <1>3, <1>4 DEF TxOK

LEMMA MineAdvances == ASSUME ClientInv, ClientPoolOK, MineNext PROVE Advances
<1>1. PICK tx : tx = Head(pending)
  OBVIOUS
<1>2. /\ Block /\ pending # << >>
      /\ (Succeeds(tx) /\ Effect(tx)) \/ UNCHANGED poolVars
  BY <1>1 DEF MineNext
<1>3. tx \in Sent
  <2>1. PICK S : pending \in Seq(S)
    BY DEF ClientInv, PendingOK
  <2>2. tx = pending[1] /\ 1 \in 1 .. Len(pending)
    BY <1>1, <1>2, <2>1
  <2>3. QED
    BY <2>2 DEF Sent
<1>4. CASE Succeeds(tx) /\ Effect(tx)
  BY <1>2, <1>3, <1>4, EffectAdvances
<1>5. CASE UNCHANGED poolVars
  <2>1. ClientPoolOK'
    BY <1>5, PoolKept
  <2>2. QED
    BY <1>2, <1>5, <2>1, SameTreeAdvances DEF poolVars
<1>6. QED
  BY <1>2, <1>4, <1>5

\* The tree of the deposits made before is hashed right.
LEMMA HashOfDeposits ==
  ASSUME NEW deposits, Len(deposits) \in Nat, Len(deposits) <= MAX_LEAVES,
         \A i \in 1 .. Len(deposits) : deposits[i] \in Leaves,
         DOMAIN deposits = 1 .. Len(deposits), deposits = [i \in 1 .. Len(deposits) |-> deposits[i]],
         tree = FoldLeft(Inserted, EmptyTree, deposits)
  PROVE  HashInv
<1> DEFINE n == Len(deposits)
           Good(t, k) == RingOK(t) /\ HashOK(t) /\ t.nextIndex = k
           T == { k \in Nat : k <= n => Good(TreeAt(deposits, k), k) }
<1>1. 0 \in T
  <2>1. TreeAt(deposits, 0) = EmptyTree
    BY OneDepositMore
  <2>2. RingOK(EmptyTree) /\ HashOK(EmptyTree) /\ EmptyTree.nextIndex = 0
    BY RingOKEmpty, HashOKEmpty DEF EmptyTree
  <2>3. QED
    BY <2>1, <2>2
<1>2. ASSUME NEW k \in Nat, k \in T PROVE k + 1 \in T
  <2>1. SUFFICES ASSUME k + 1 <= n PROVE Good(TreeAt(deposits, k + 1), k + 1)
    OBVIOUS
  <2>2. PICK t, u, leaf : t = TreeAt(deposits, k) /\ u = TreeAt(deposits, k + 1) /\ leaf = deposits[k + 1]
    OBVIOUS
  <2>3. RingOK(t) /\ HashOK(t) /\ t.nextIndex = k
    <3>1. k <= n
      BY <2>1
    <3>2. QED
      BY <1>2, <2>2, <3>1
  <2>4. leaf \in Leaves
    BY <2>1, <2>2
  <2>5. u = Inserted(t, leaf)
    BY <2>2, OneDepositMore
  <2>6. HasRoom(t, 1)
    BY <2>1, <2>3, MaxLeavesNat DEF HasRoom
  <2>7. RingOK(u) /\ HashOK(u)
    BY <2>3, <2>4, <2>5, <2>6, RingOKInserted, HashOKInserted
  <2>8. u.nextIndex = k + 1
    BY <2>3, <2>5 DEF Inserted
  <2>9. QED
    BY <2>2, <2>7, <2>8
<1>3. Nat \subseteq T
  <2> HIDE DEF T
  <2>1. QED
    BY <1>1, <1>2, SetInduction
<1>4. Good(TreeAt(deposits, n), n)
  BY <1>3
<1>5. FirstOf(deposits, n) = deposits
  BY DEF FirstOf
<1>6. tree = TreeAt(deposits, n)
  BY <1>5, FoldsAreFolded DEF TreeAt
<1>7. QED
  BY <1>4, <1>6 DEF HashInv

LEMMA ClientPoolInit == ClientInit => ClientPoolOK
<1> SUFFICES ASSUME ClientInit PROVE ClientPoolOK
  OBVIOUS
<1>1. /\ PoolInv /\ LeafSet = ToSet(InitialDeposits) /\ tree.nextIndex = Len(InitialDeposits)
      /\ \A note \in ToSet(InitialDeposits) : note.nn \in 1 .. Len(InitialDeposits)
  BY FirstPool
<1>2. HashInv
  <2> DEFINE First == [nn : 1 .. MAX_LEAVES, token : Tokens, amount : Amounts]
  <2>1. InitialDeposits \in Seq(First) /\ Len(InitialDeposits) <= MAX_LEAVES
    BY HistoryAssumption
  <2>2. First \subseteq Leaves
    BY PoolAssumption
  <2> HIDE DEF First
  <2>3. /\ Len(InitialDeposits) \in Nat /\ DOMAIN InitialDeposits = 1 .. Len(InitialDeposits)
        /\ InitialDeposits = [i \in 1 .. Len(InitialDeposits) |-> InitialDeposits[i]]
        /\ \A i \in 1 .. Len(InitialDeposits) : InitialDeposits[i] \in Leaves
    BY <2>1, <2>2
  <2>4. tree = FoldLeft(Inserted, EmptyTree, InitialDeposits)
    BY DEF ClientInit, PoolHolding
  <2>5. QED
    BY <2>1, <2>3, <2>4, HashOfDeposits
<1>3. QED
  BY <1>1, <1>2 DEF ClientPoolOK

-------------------------------------------------------------------------------
(* The sync *)

\* What is fetched so far: the events from the first block to the last one
\* asked for, which may be none when the first block is after the latest.
FetchOK(r) ==
  /\ r.latest \in Nat /\ r.latest <= head
  /\ r.start \in Nat /\ r.from \in Nat /\ r.start <= r.from
  /\ r.from = r.start \/ r.from <= r.latest + 1
  /\ r.indexed = EventsOf(LeavesUpTo(r.start - 1), LeavesUpTo(r.from - 1))

\* What a sync in order leaves: the root of the version of its latest block,
\* which has the note, and until the withdrawal is sent a path to it.
SyncedOK(r) ==
  /\ r.latest \in Nat /\ r.latest <= head
  /\ LeavesUpTo(r.latest) \in 1 .. tree.nextIndex
  /\ r.root = RootAfter(tree, LeavesUpTo(r.latest))
  /\ \E i \in 1 .. LeavesUpTo(r.latest) : tree.log[i].leaf = r.note
  /\ r.pc = "proving" => Verify(r.path, r.note, r.root)

\* Why a sync failed.
FailedOK(r) ==
  /\ r.latest \in Nat /\ r.latest <= head /\ r.start \in Nat
  /\ \/ Len(heights) >= 1 /\ r.start > heights[1]
     \/ \A i \in 1 .. LeavesUpTo(r.latest) : tree.log[i].leaf # r.note

\* The states after a sync in order.
Synced(r) ==
  \/ r.pc \in {"proving", "withdrawing"}
  \/ r.kind = "withdraw" /\ r.pc \in {"refused", "done", "noProof"}

SyncOK(r) ==
  /\ r.pc = "fetching" => FetchOK(r)
  /\ r.pc \in {"mismatch", "notFound"} => FailedOK(r)
  /\ IF Synced(r) THEN SyncedOK(r) ELSE r.root = NONE

\* What the count up to a block there is says.
LEMMA CountsOfChain ==
  ASSUME ClientInv
  PROVE  /\ tree.nextIndex \in Nat /\ head \in Nat /\ Len(heights) = tree.nextIndex
         /\ \A b \in Int : LeavesUpTo(b) \in 0 .. tree.nextIndex
         /\ \A b \in Int : \A i \in 1 .. tree.nextIndex : heights[i] <= b <=> i <= LeavesUpTo(b)
         /\ \A b, c \in Int : b <= c => LeavesUpTo(b) <= LeavesUpTo(c)
<1>1. /\ Ascending(heights) /\ Len(heights) = tree.nextIndex /\ head \in Nat /\ tree.nextIndex \in Nat
  BY DEF ClientInv, ChainOK, Ascending
<1>2. ASSUME NEW b \in Int
      PROVE  /\ LeavesUpTo(b) \in 0 .. tree.nextIndex
             /\ \A i \in 1 .. tree.nextIndex : heights[i] <= b <=> i <= LeavesUpTo(b)
  <2>1. /\ CountUpTo(heights, b) \in 0 .. Len(heights)
        /\ \A i \in 1 .. Len(heights) : heights[i] <= b <=> i <= CountUpTo(heights, b)
    BY <1>1, CountSplits
  <2>2. QED
    BY <1>1, <2>1, LeavesUpToIsCount
<1>3. ASSUME NEW b \in Int, NEW c \in Int, b <= c PROVE LeavesUpTo(b) <= LeavesUpTo(c)
  <2>1. CountUpTo(heights, b) <= CountUpTo(heights, c)
    BY <1>1, <1>3, CountRises
  <2>2. QED
    BY <2>1, LeavesUpToIsCount
<1>4. QED
  BY <1>1, <1>2, <1>3

\* The same of the next state.
LEMMA CountsOfNext ==
  ASSUME ClientInv'
  PROVE  /\ tree'.nextIndex \in Nat /\ head' \in Nat /\ Len(heights') = tree'.nextIndex
         /\ \A b \in Int : LeavesUpTo(b)' \in 0 .. tree'.nextIndex
<1>1. Ascending(heights') /\ Len(heights') = tree'.nextIndex /\ head' \in Nat /\ tree'.nextIndex \in Nat
  BY DEF ClientInv, ChainOK, Ascending
<1>2. ASSUME NEW b \in Int PROVE LeavesUpTo(b)' \in 0 .. tree'.nextIndex
  <2>1. CountUpTo(heights', b) \in 0 .. Len(heights')
    BY <1>1, CountSplits
  <2>2. LeavesUpTo(b)' = CountUpTo(heights', b)
    BY DEF LeavesUpTo, CountUpTo
  <2>3. QED
    BY <1>1, <2>1, <2>2
<1>3. QED
  BY <1>1, <1>2

\* Events of leaves there are do not change.
LEMMA EventsKept ==
  ASSUME Advances, tree.nextIndex \in Nat, NEW a \in Nat, NEW b \in Nat, b <= tree.nextIndex
  PROVE  EventsOf(a, b)' = EventsOf(a, b)
<1>1. \A i \in 1 .. b - a : a + i \in 1 .. b
  OBVIOUS
<1>2. \A i \in 1 .. b : tree'.log[i] = tree.log[i]
  BY DEF Advances
<1>3. \A i \in 1 .. b - a : tree'.log[a + i].leaf = tree.log[a + i].leaf
  BY <1>1, <1>2
<1>4. QED
  BY <1>3 DEF EventsOf

LEMMA NoEvents == ASSUME NEW k \in Nat PROVE EventsOf(k, k) = << >> /\ EventsOf(k, k)' = << >>
<1>1. EventsOf(k, k) = [i \in {} |-> [idx |-> k + i - 1, leaf |-> tree.log[k + i].leaf]]
  BY DEF EventsOf
<1>2. EventsOf(k, k)' = [i \in {} |-> [idx |-> k + i - 1, leaf |-> tree'.log[k + i].leaf]]
  BY DEF EventsOf
<1>3. QED
  BY <1>1, <1>2

\* Roots and leaves of a version do not change.
LEMMA VersionsKept ==
  ASSUME Advances, tree.nextIndex \in Nat
  PROVE  /\ \A k \in 0 .. tree.nextIndex : RootAfter(tree', k) = RootAfter(tree, k)
         /\ \A i \in 1 .. tree.nextIndex : tree'.log[i].leaf = tree.log[i].leaf
<1>1. \A i \in 1 .. tree.nextIndex : tree'.log[i] = tree.log[i]
  BY DEF Advances
<1>2. QED
  BY <1>1 DEF RootAfter

LEMMA FetchKept ==
  ASSUME ClientInv, ClientInv', Advances, NEW r, FetchOK(r)
  PROVE  FetchOK(r)'
<1>1. PICK start, from, latest :
        start = r.start /\ from = r.from /\ latest = r.latest
  OBVIOUS
<1>2. /\ latest \in Nat /\ latest <= head /\ start \in Nat /\ from \in Nat /\ start <= from
      /\ from = start \/ from <= latest + 1
      /\ r.indexed = EventsOf(LeavesUpTo(start - 1), LeavesUpTo(from - 1))
  BY <1>1 DEF FetchOK
<1>3. head' >= head /\ head' \in Nat /\ head \in Nat /\ tree.nextIndex \in Nat
  BY CountsOfChain, CountsOfNext DEF Advances
<1>4. start - 1 \in Int /\ from - 1 \in Int
  BY <1>2
<1>5. LeavesUpTo(start - 1) \in 0 .. tree.nextIndex /\ LeavesUpTo(from - 1) \in 0 .. tree.nextIndex
  BY <1>4, CountsOfChain
<1>6. EventsOf(LeavesUpTo(start - 1), LeavesUpTo(from - 1))'
        = EventsOf(LeavesUpTo(start - 1), LeavesUpTo(from - 1))
  <2>1. PICK k, m : k = LeavesUpTo(start - 1) /\ m = LeavesUpTo(from - 1)
    OBVIOUS
  <2>2. PICK l, n : l = LeavesUpTo(start - 1)' /\ n = LeavesUpTo(from - 1)'
    OBVIOUS
  <2>3. EventsOf(LeavesUpTo(start - 1), LeavesUpTo(from - 1))' = EventsOf(l, n)'
    BY <2>2
  <2>4. CASE from = start
    <3>1. k = m /\ l = n /\ k \in Nat
      BY <1>5, <2>1, <2>2, <2>4
    <3>2. l \in Nat
      <4>1. LeavesUpTo(start - 1)' \in 0 .. tree'.nextIndex
        BY <1>4, CountsOfNext
      <4>2. QED
        BY <2>2, <4>1
    <3>3. EventsOf(k, k) = << >> /\ EventsOf(l, l)' = << >>
      BY <3>1, <3>2, NoEvents
    <3>4. QED
      BY <2>1, <2>3, <3>1, <3>3
  <2>5. CASE from <= latest + 1
    <3>1. start - 1 <= head /\ from - 1 <= head
      BY <1>2, <1>3, <2>5
    <3>2. k = l /\ m = n
      BY <1>4, <2>1, <2>2, <3>1 DEF Advances
    <3>3. EventsOf(k, m)' = EventsOf(k, m)
      BY <1>3, <1>5, <2>1, EventsKept
    <3>4. QED
      BY <2>1, <2>3, <3>2, <3>3
  <2>6. QED
    BY <1>2, <2>4, <2>5
<1>7. latest <= head'
  BY <1>2, <1>3
<1>8. QED
  BY <1>1, <1>2, <1>6, <1>7 DEF FetchOK

LEMMA SyncedKept ==
  ASSUME ClientInv, ClientInv', Advances, NEW r, SyncedOK(r)
  PROVE  SyncedOK(r)'
<1>1. PICK latest, version : latest = r.latest /\ version = LeavesUpTo(latest)
  OBVIOUS
<1>2. /\ latest \in Nat /\ latest <= head
      /\ version \in 1 .. tree.nextIndex
      /\ r.root = RootAfter(tree, version)
      /\ \E i \in 1 .. version : tree.log[i].leaf = r.note
      /\ r.pc = "proving" => Verify(r.path, r.note, r.root)
  BY <1>1 DEF SyncedOK
<1>3. /\ head' >= head /\ head' \in Nat /\ head \in Nat /\ tree.nextIndex \in Nat
      /\ tree'.nextIndex >= tree.nextIndex /\ tree'.nextIndex \in Nat
  BY CountsOfChain, CountsOfNext DEF Advances
<1>4. LeavesUpTo(latest)' = version
  BY <1>1, <1>2 DEF Advances
<1>5. /\ RootAfter(tree', version) = RootAfter(tree, version)
      /\ \A i \in 1 .. version : tree'.log[i].leaf = tree.log[i].leaf
  BY <1>2, <1>3, VersionsKept
<1>6. latest <= head' /\ version \in 1 .. tree'.nextIndex
  BY <1>2, <1>3
<1>7. SyncedOK(r)' <=>
        /\ latest \in Nat /\ latest <= head'
        /\ version \in 1 .. tree'.nextIndex
        /\ r.root = RootAfter(tree', version)
        /\ \E i \in 1 .. version : tree'.log[i].leaf = r.note
        /\ r.pc = "proving" => Verify(r.path, r.note, r.root)
  BY <1>1, <1>4 DEF SyncedOK, Verify
<1>8. QED
  BY <1>2, <1>5, <1>6, <1>7

LEMMA FailedKept ==
  ASSUME ClientInv, ClientInv', Advances, NEW r, FailedOK(r)
  PROVE  FailedOK(r)'
<1>1. PICK latest, version : latest = r.latest /\ version = LeavesUpTo(latest)
  OBVIOUS
<1>2. /\ latest \in Nat /\ latest <= head /\ r.start \in Nat
      /\ \/ Len(heights) >= 1 /\ r.start > heights[1]
         \/ \A i \in 1 .. version : tree.log[i].leaf # r.note
  BY <1>1 DEF FailedOK
<1>3. /\ head' >= head /\ head' \in Nat /\ head \in Nat /\ tree.nextIndex \in Nat
      /\ Len(heights') >= Len(heights) /\ Len(heights) \in Nat /\ Len(heights') \in Nat
      /\ \A i \in 1 .. Len(heights) : heights'[i] = heights[i]
  BY CountsOfChain, CountsOfNext DEF Advances
<1>4. /\ LeavesUpTo(latest)' = version
      /\ version \in 0 .. tree.nextIndex
  <2>1. LeavesUpTo(latest)' = version
    BY <1>1, <1>2 DEF Advances
  <2>2. latest \in Int
    BY <1>2
  <2>3. LeavesUpTo(latest) \in 0 .. tree.nextIndex
    BY <2>2, CountsOfChain
  <2>4. QED
    BY <1>1, <2>1, <2>3
<1>5. \A i \in 1 .. version : tree'.log[i].leaf = tree.log[i].leaf
  BY <1>3, <1>4, VersionsKept
<1>6. latest <= head'
  BY <1>2, <1>3
<1>7. Len(heights) >= 1 => Len(heights') >= 1 /\ heights'[1] = heights[1]
  BY <1>3
<1>8. FailedOK(r)' <=>
        /\ latest \in Nat /\ latest <= head' /\ r.start \in Nat
        /\ \/ Len(heights') >= 1 /\ r.start > heights'[1]
           \/ \A i \in 1 .. version : tree'.log[i].leaf # r.note
  BY <1>1, <1>4 DEF FailedOK
<1>9. QED
  BY <1>2, <1>5, <1>6, <1>7, <1>8

\* Whatever the chain and the other sessions do, a sync stays in order.
LEMMA SyncKept ==
  ASSUME ClientInv, ClientInv', Advances, NEW r, SyncOK(r)
  PROVE  SyncOK(r)'
<1>1. FetchOK(r) => FetchOK(r)'
  BY FetchKept
<1>2. SyncedOK(r) => SyncedOK(r)'
  BY SyncedKept
<1>3. FailedOK(r) => FailedOK(r)'
  BY FailedKept
<1>4. QED
  BY <1>1, <1>2, <1>3 DEF SyncOK

\* While the chain stands still, so does what is said of a sync.
LEMMA OffChainSame == ASSUME OffChain, NEW r PROVE SyncOK(r)' <=> SyncOK(r)
<1>1. tree' = tree /\ head' = head /\ heights' = heights
  BY DEF OffChain, poolVars
<1>2. \A b : LeavesUpTo(b)' = LeavesUpTo(b)
  BY <1>1 DEF LeavesUpTo
<1>3. \A a, b : EventsOf(a, b)' = EventsOf(a, b)
  BY <1>1 DEF EventsOf
<1>4. FetchOK(r)' <=> FetchOK(r)
  <2>1. PICK a, b : a = LeavesUpTo(r.start - 1) /\ b = LeavesUpTo(r.from - 1)
    OBVIOUS
  <2>2. LeavesUpTo(r.start - 1)' = a /\ LeavesUpTo(r.from - 1)' = b
    BY <1>2, <2>1
  <2>3. EventsOf(LeavesUpTo(r.start - 1), LeavesUpTo(r.from - 1))' = EventsOf(a, b)'
    BY <2>2
  <2>4. EventsOf(a, b)' = EventsOf(LeavesUpTo(r.start - 1), LeavesUpTo(r.from - 1))
    BY <1>3, <2>1
  <2>5. QED
    BY <1>1, <2>3, <2>4 DEF FetchOK
<1>5. SyncedOK(r)' <=> SyncedOK(r)
  <2>1. PICK a : a = LeavesUpTo(r.latest) /\ LeavesUpTo(r.latest)' = a
    BY <1>2
  <2>2. RootAfter(tree', a) = RootAfter(tree, a)
    BY <1>1
  <2>3. QED
    BY <1>1, <2>1, <2>2 DEF SyncedOK, Verify
<1>6. FailedOK(r)' <=> FailedOK(r)
  <2>1. PICK a : a = LeavesUpTo(r.latest) /\ LeavesUpTo(r.latest)' = a
    BY <1>2
  <2>2. QED
    BY <1>1, <2>1 DEF FailedOK
<1>7. QED
  BY <1>4, <1>5, <1>6 DEF SyncOK

\* Of a session's record after a step off the chain, in order.
LEMMA SyncOfNext ==
  ASSUME OffChain, NEW s, NEW r, session'[s] = r, SyncOK(r)
  PROVE  SyncOK(session[s])'
<1>1. SyncOK(r)'
  BY OffChainSame
<1>2. QED
  BY <1>1

\* A session that has not begun, deposits or died has no sync.
Unsynced(r) ==
  /\ r.pc \notin {"fetching", "proving", "withdrawing", "mismatch", "notFound"}
  /\ r.kind = "withdraw" => r.pc \notin {"refused", "done", "noProof"}
  /\ r.root = NONE

LEMMA UnsyncedIsOK == ASSUME NEW r, Unsynced(r) PROVE SyncOK(r)
BY DEF Unsynced, SyncOK, Synced

LEMMA IdleIsOK == SyncOK(Idle)
<1>1. Unsynced(Idle)
  BY DEF Unsynced, Idle
<1>2. QED
  BY <1>1, UnsyncedIsOK

\* What begins a deposit, and its steps.
LEMMA DepositBeginsSync ==
  ASSUME ClientInv, NEW s \in Sessions, NEW file, NEW amount, DepositBegins(s, file, amount)
  PROVE  SyncOK(session[s])'
<1> DEFINE note == Note(s, Token, amount)
           r == [session[s] EXCEPT !.kind = "deposit", !.pc = "approving",
                                   !.file = file, !.note = note]
<1>1. OffChain /\ session[s].pc = "idle" /\ session' = [session EXCEPT ![s] = r]
  BY DEF DepositBegins
<1>2. session[s] = Idle /\ DOMAIN session = Sessions
  BY <1>1, IdleIsIdle DEF ClientInv, SessionsOK
<1> HIDE DEF note
<1>3. Unsynced(r)
  BY <1>2 DEF Unsynced, Idle
<1>4. session'[s] = r
  BY <1>1, <1>2
<1> HIDE DEF r
<1>5. SyncOK(r)
  BY <1>3, UnsyncedIsOK
<1>6. QED
  BY <1>1, <1>4, <1>5, SyncOfNext

LEMMA DepositSync ==
  ASSUME ClientInv, NEW s \in Sessions, BegunDeposit(s), SendDeposit(s) \/ SaveBegins(s) \/ SaveEnds(s)
  PROVE  SyncOK(session[s])'
<1>1. PICK pc \in {"depositing", "refused", "saving", "done"} : OffChain /\ Goes(s, pc)
  BY DEF SendDeposit, SaveBegins, SaveEnds
<1>2. /\ session'[s].pc = pc /\ session'[s].kind = "deposit" /\ session'[s].root = session[s].root
      /\ session[s].root = NONE
  <2>1. SessionsOK
    BY DEF ClientInv
  <2>2. session[s].root = NONE /\ session[s].kind = "deposit"
    BY <2>1, BegunIsDoing DEF BegunDeposit, BegunWithdraw, DepositPcs
  <2>3. QED
    BY <1>1, <2>1, <2>2, GoesMoves DEF Moves
<1>3. PICK r : r = session'[s]
  OBVIOUS
<1>4. Unsynced(r)
  BY <1>2, <1>3 DEF Unsynced
<1>5. SyncOK(r)
  BY <1>4, UnsyncedIsOK
<1>6. QED
  BY <1>1, <1>3, <1>5, SyncOfNext

LEMMA DiesSync ==
  ASSUME ClientInv, NEW s \in Sessions, Dies(s)
  PROVE  SyncOK(session[s])'
<1>1. OffChain /\ session'[s].pc = "died" /\ session'[s].root = NONE
  BY DiesMoves DEF ClientInv, Dies, Moves
<1>2. PICK r : r = session'[s]
  OBVIOUS
<1>3. Unsynced(r)
  BY <1>1, <1>2 DEF Unsynced
<1>4. SyncOK(r)
  BY <1>3, UnsyncedIsOK
<1>5. QED
  BY <1>1, <1>2, <1>4, SyncOfNext

\* The first block is a number, whatever is set.
LEMMA StartIsBlock ==
  ASSUME NEW deployBlock \in DeployBlocks, NEW latest \in Nat
  PROVE  StartBlock(deployBlock, latest) \in Nat
BY ClientAssumption DEF StartBlock

LEMMA WithdrawBeginsSync ==
  ASSUME ClientInv, NEW s \in Sessions, NEW file, NEW source, NEW deployBlock \in DeployBlocks,
         WithdrawBegins(s, file, source, deployBlock)
  PROVE  SyncOK(session[s])'
<1> DEFINE start == StartBlock(deployBlock, head)
           note == noteFile[file]
           good == [session[s] EXCEPT !.kind = "withdraw", !.pc = "fetching", !.note = note,
                      !.source = source, !.latest = head, !.start = start, !.from = start]
           bad == [session[s] EXCEPT !.kind = "withdraw", !.pc = "unreadable"]
<1>1. /\ OffChain /\ session[s].pc = "idle"
      /\ session' = [session EXCEPT ![s] = IF HoldsNote(file) THEN good ELSE bad]
  BY DEF WithdrawBegins
<1>2. session[s] = Idle /\ DOMAIN session = Sessions /\ head \in Nat
  BY <1>1, IdleIsIdle DEF ClientInv, SessionsOK, ChainOK
<1>3. start \in Nat
  BY <1>2, StartIsBlock
<1> HIDE DEF start, note
<1>4. SyncOK(bad)
  <2>1. Unsynced(bad)
    BY <1>2 DEF Unsynced, Idle
  <2> HIDE DEF bad
  <2>2. QED
    BY <2>1, UnsyncedIsOK
<1>5. SyncOK(good)
  <2>1. /\ good.pc = "fetching" /\ good.latest = head /\ good.start = start /\ good.from = start
        /\ good.indexed = << >> /\ good.root = NONE
    BY <1>2 DEF Idle
  <2> HIDE DEF good
  <2>2. PICK k : k = LeavesUpTo(start - 1)
    OBVIOUS
  <2>3. k \in Nat
    <3>1. start - 1 \in Int
      BY <1>3
    <3>2. LeavesUpTo(start - 1) \in 0 .. tree.nextIndex
      BY <3>1, CountsOfChain
    <3>3. QED
      BY <2>2, <3>2
  <2>4. EventsOf(k, k) = << >>
    BY <2>3, NoEvents
  <2>5. FetchOK(good)
    BY <1>2, <1>3, <2>1, <2>2, <2>4 DEF FetchOK
  <2>6. QED
    BY <2>1, <2>5 DEF SyncOK, Synced
<1>6. PICK r : r = IF HoldsNote(file) THEN good ELSE bad
  OBVIOUS
<1>7. SyncOK(r)
  BY <1>4, <1>5, <1>6
<1>8. session'[s] = r
  BY <1>1, <1>2, <1>6
<1>9. QED
  BY <1>1, <1>7, <1>8, SyncOfNext

-------------------------------------------------------------------------------
(* Fetching *)

LEMMA LastOfChunk ==
  ASSUME NEW from \in Nat, NEW latest \in Nat, from <= latest
  PROVE  /\ ChunkEnd(from, latest) \in Nat
         /\ from <= ChunkEnd(from, latest) /\ ChunkEnd(from, latest) <= latest
<1> DEFINE a == from + CHUNK_SIZE - 1
           S == {a, latest}
<1>1. a \in Nat /\ from <= a
  BY ClientAssumption
<1> HIDE DEF a
<1>2. \E x \in S : \A y \in S : x <= y
  BY <1>1
<1>3. Min(S) \in S /\ \A y \in S : Min(S) <= y
  BY <1>2 DEF Min
<1>4. QED
  BY <1>1, <1>3 DEF ChunkEnd, a

LEMMA FetchSync ==
  ASSUME ClientInv, NEW s \in Sessions, SyncOK(session[s]), FetchChunk(s)
  PROVE  SyncOK(session[s])'
<1>1. PICK r : r = session[s]
  OBVIOUS
<1>2. PICK from, latest, start, to :
        /\ from = r.from /\ latest = r.latest /\ start = r.start /\ to = ChunkEnd(from, latest)
  OBVIOUS
<1> DEFINE more == r.indexed \o Events(from, to)
           q == [r EXCEPT !.indexed = more, !.from = to + 1]
<1>3. /\ OffChain /\ r.pc = "fetching" /\ from <= latest
      /\ session' = [session EXCEPT ![s] = q]
  BY <1>1, <1>2 DEF FetchChunk
<1>4. DOMAIN session = Sessions /\ DOMAIN r = DOMAIN Idle
  BY <1>1 DEF ClientInv, SessionsOK, SessionOK
<1>5. SyncOK(r)
  BY <1>1
<1>6. /\ latest \in Nat /\ latest <= head /\ start \in Nat /\ from \in Nat /\ start <= from
      /\ from = start \/ from <= latest + 1
      /\ r.indexed = EventsOf(LeavesUpTo(start - 1), LeavesUpTo(from - 1))
      /\ r.root = NONE
  BY <1>2, <1>3, <1>5 DEF SyncOK, FetchOK, Synced
<1>7. to \in Nat /\ from <= to /\ to <= latest
  BY <1>2, <1>3, <1>6, LastOfChunk
<1>8. PICK a, b, c : a = LeavesUpTo(start - 1) /\ b = LeavesUpTo(from - 1) /\ c = LeavesUpTo(to)
  OBVIOUS
<1>9. a \in Nat /\ b \in Nat /\ c \in Nat /\ a <= b /\ b <= c
  <2>1. start - 1 \in Int /\ from - 1 \in Int /\ to \in Int /\ start - 1 <= from - 1 /\ from - 1 <= to
    BY <1>6, <1>7
  <2>2. /\ \A d \in Int : LeavesUpTo(d) \in 0 .. tree.nextIndex
        /\ \A d, e \in Int : d <= e => LeavesUpTo(d) <= LeavesUpTo(e)
    BY CountsOfChain
  <2>3. QED
    BY <1>8, <2>1, <2>2
<1>10. more = EventsOf(a, c)
  <2>1. EventsOf(a, b) \o EventsOf(b, c) = EventsOf(a, c)
    BY <1>9, EventsJoin
  <2>2. QED
    BY <1>6, <1>8, <2>1 DEF Events
<1> HIDE DEF more
<1>11. /\ q.pc = "fetching" /\ q.latest = latest /\ q.start = start /\ q.from = to + 1
       /\ q.indexed = more /\ q.root = r.root
  BY <1>2, <1>3, <1>4 DEF Idle
<1>12. session'[s] = q
  BY <1>3, <1>4
<1> HIDE DEF q
<1>13. FetchOK(q)
  <2>1. q.from - 1 = to /\ to + 1 \in Nat /\ start <= to + 1 /\ to + 1 <= latest + 1
    BY <1>6, <1>7, <1>11
  <2>2. q.indexed = EventsOf(LeavesUpTo(q.start - 1), LeavesUpTo(q.from - 1))
    <3>1. q.indexed = EventsOf(a, c)
      BY <1>10, <1>11
    <3>2. LeavesUpTo(q.start - 1) = a /\ LeavesUpTo(q.from - 1) = c
      BY <1>8, <1>11, <2>1
    <3>3. QED
      BY <3>1, <3>2
  <2>3. QED
    BY <1>6, <1>11, <2>1, <2>2 DEF FetchOK
<1>14. SyncOK(q)
  BY <1>6, <1>11, <1>13 DEF SyncOK, Synced
<1>15. QED
  BY <1>3, <1>12, <1>14, SyncOfNext

-------------------------------------------------------------------------------
(* Rebuilding *)

\* What is fetched, sorted, is the leaves after those before the first block.
LEMMA FetchedEvents ==
  ASSUME ClientInv, NEW r, FetchOK(r), r.from > r.latest,
         NEW events, events = SortedByIndex(r.indexed),
         NEW lo, lo = LeavesUpTo(r.start - 1), NEW hi, hi = LeavesUpTo(r.from - 1)
  PROVE  /\ lo \in Nat /\ hi \in Nat /\ lo <= hi /\ hi <= tree.nextIndex
         /\ LeavesUpTo(r.latest) <= hi /\ LeavesUpTo(r.latest) \in Nat
         /\ lo < hi => LeavesUpTo(r.latest) = hi
         /\ lo >= 1 => Len(heights) >= 1 /\ r.start > heights[1]
         /\ Len(events) = hi - lo
         /\ \A i \in 1 .. hi - lo : events[i].idx = lo + i - 1 /\ events[i].leaf = tree.log[lo + i].leaf
<1>1. PICK start, from, latest : start = r.start /\ from = r.from /\ latest = r.latest
  OBVIOUS
<1>2. /\ latest \in Nat /\ start \in Nat /\ from \in Nat /\ start <= from /\ from > latest
      /\ from = start \/ from <= latest + 1
      /\ r.indexed = EventsOf(lo, hi)
  BY <1>1 DEF FetchOK
<1>3. /\ tree.nextIndex \in Nat /\ Len(heights) = tree.nextIndex
      /\ \A b \in Int : LeavesUpTo(b) \in 0 .. tree.nextIndex
      /\ \A b \in Int : \A i \in 1 .. tree.nextIndex : heights[i] <= b <=> i <= LeavesUpTo(b)
      /\ \A b, c \in Int : b <= c => LeavesUpTo(b) <= LeavesUpTo(c)
  BY CountsOfChain
<1>4. /\ start - 1 \in Int /\ from - 1 \in Int /\ latest \in Int
      /\ start - 1 <= from - 1 /\ latest <= from - 1
  BY <1>2
<1>5. lo = LeavesUpTo(start - 1) /\ hi = LeavesUpTo(from - 1)
  BY <1>1
<1>6. PICK version : version = LeavesUpTo(latest)
  OBVIOUS
<1>7. /\ lo \in 0 .. tree.nextIndex /\ hi \in 0 .. tree.nextIndex /\ version \in 0 .. tree.nextIndex
      /\ lo <= hi /\ version <= hi
  BY <1>3, <1>4, <1>5, <1>6
<1>10. /\ lo \in Nat /\ hi \in Nat /\ version \in Nat /\ lo <= hi /\ version <= hi
       /\ tree.nextIndex \in Nat /\ hi <= tree.nextIndex
  BY <1>3, <1>7
<1>8. lo < hi => version = hi
  <2>1. SUFFICES ASSUME lo < hi PROVE version = hi
    OBVIOUS
  <2>2. from # start
    BY <1>5, <1>7, <2>1
  <2>3. from - 1 = latest
    BY <1>2, <2>2
  <2>4. QED
    BY <1>5, <1>6, <2>3
<1>9. lo >= 1 => Len(heights) >= 1 /\ start > heights[1]
  <2>1. SUFFICES ASSUME lo >= 1 PROVE Len(heights) >= 1 /\ start > heights[1]
    OBVIOUS
  <2>2. 1 \in 1 .. tree.nextIndex
    BY <1>10, <2>1
  <2>3. \A i \in 1 .. tree.nextIndex : heights[i] <= start - 1 <=> i <= lo
    BY <1>3, <1>4, <1>5
  <2>4. heights[1] <= start - 1
    BY <2>1, <2>2, <2>3
  <2>5. heights \in Seq(Nat) /\ Len(heights) = tree.nextIndex
    BY DEF ClientInv, ChainOK
  <2>6. heights[1] \in Nat
    BY <2>2, <2>5
  <2>7. QED
    BY <1>2, <1>10, <2>2, <2>4, <2>5, <2>6
<1> DEFINE e == EventsOf(lo, hi)
<1>11. /\ Len(e) = hi - lo /\ hi - lo \in Nat /\ DOMAIN e = 1 .. hi - lo
       /\ \A i \in 1 .. hi - lo : e[i].idx = lo + i - 1 /\ e[i].leaf = tree.log[lo + i].leaf
  <2>1. lo \in Nat /\ hi \in Nat /\ lo <= hi
    BY <1>10
  <2>2. /\ Len(e) = hi - lo /\ hi - lo \in Nat
        /\ DOMAIN e = 1 .. hi - lo
        /\ \A i \in 1 .. hi - lo : /\ e[i].idx = lo + i - 1
                                   /\ e[i].leaf = tree.log[lo + i].leaf
                                   /\ e[i] = [idx |-> lo + i - 1, leaf |-> tree.log[lo + i].leaf]
    BY ONLY <2>1, EventsOfSlice
  <2> HIDE DEF e
  <2>3. QED
    BY <2>2
<1>12. e = [i \in 1 .. hi - lo |-> e[i]]
  BY DEF EventsOf
<1> HIDE DEF e
<1>13. SortedByIndex(e) = e
  BY <1>10, <1>11, <1>12, SortedStays
<1>14. events = e
  BY <1>2, <1>13 DEF e
<1>15. LeavesUpTo(r.latest) = version
  BY <1>1, <1>6
<1>16. QED
  BY <1>1, <1>8, <1>9, <1>10, <1>11, <1>14, <1>15

\* The copy of a version of the tree, and the proof for a leaf of it.
LEMMA CopyOfVersion ==
  ASSUME RingInv, HashInv, NEW version \in 1 .. tree.nextIndex, NEW leaves,
         leaves = [i \in 1 .. version |-> tree.log[i].leaf],
         NEW copy, copy = TreeOf(leaves)
  PROVE  /\ copy.root = RootAfter(tree, version)
         /\ \A i \in 1 .. version : Verify(ProofOf(copy, i - 1), tree.log[i].leaf, copy.root)
<1>1. /\ tree.nextIndex \in Nat /\ tree.nextIndex <= MAX_LEAVES /\ MAX_LEAVES \in Nat /\ version \in Nat
      /\ \A i \in 1 .. version : tree.log[i].leaf \in Leaves
  BY MaxLeavesNat DEF RingInv, RingOK, HashInv, HashOK
<1>2. leaves = Version(tree, version)
  BY DEF Version
<1>3. RootAfter(tree, version) = ReferenceRoot(leaves)
  BY <1>1, <1>2 DEF HashInv, HashOK
<1>4. /\ leaves \in Seq(Leaves) /\ Len(leaves) = version /\ DOMAIN leaves = 1 .. version
      /\ Len(leaves) <= MAX_LEAVES /\ \A i \in 1 .. version : leaves[i] = tree.log[i].leaf
  BY <1>1
<1>5. CopyOK(copy, leaves)
  <2>1. CopyOK(TreeOf(leaves), leaves)
    BY <1>4, CopyRebuilt
  <2>2. QED
    BY <2>1
<1>6. copy.leaves = leaves /\ copy.root = ReferenceRoot(leaves)
  BY <1>5 DEF CopyOK
<1>7. ASSUME NEW i \in 1 .. version
      PROVE  ComputeRoot(ProofOf(copy, i - 1), tree.log[i].leaf) = copy.root
  <2>1. PICK index : index = i - 1
    OBVIOUS
  <2>2. index \in 0 .. Len(leaves) - 1 /\ index + 1 = i
    BY <1>1, <1>4, <2>1
  <2>3. /\ Len(leaves) \in Nat /\ DOMAIN leaves = 1 .. Len(leaves) /\ Len(leaves) <= MAX_LEAVES
        /\ copy.leaves = leaves
    BY <1>1, <1>4, <1>6
  <2>4. ComputeRoot(ProofOf(copy, index), leaves[index + 1]) = ReferenceRoot(leaves)
    BY ONLY <2>2, <2>3, ProofVerifies
  <2>5. leaves[index + 1] = tree.log[i].leaf
    BY <1>4, <2>2
  <2>6. QED
    BY <1>6, <2>1, <2>4, <2>5
<1>8. QED
  BY <1>3, <1>6, <1>7 DEF Verify

LEMMA RebuildSync ==
  ASSUME ClientInv, ClientPoolOK, NEW s \in Sessions, SyncOK(session[s]), Rebuild(s)
  PROVE  SyncOK(session[s])'
<1>1. PICK r : r = session[s]
  OBVIOUS
<1>2. PICK events : events = SortedByIndex(r.indexed)
  OBVIOUS
<1>3. PICK leaves : leaves = [i \in 1 .. Len(events) |-> events[i].leaf]
  OBVIOUS
<1>4. PICK copy : copy = TreeOf(leaves)
  OBVIOUS
<1>5. PICK found : found = { i \in 1 .. Len(events) : events[i].leaf = r.note }
  OBVIOUS
<1>6. PICK last : last = Max(found)
  OBVIOUS
<1>7. PICK path : path = ProofOf(copy, last - 1)
  OBVIOUS
<1> DEFINE q == [r EXCEPT !.pc = "proving", !.indexed = << >>, !.root = copy.root, !.path = path]
           mismatch == [r EXCEPT !.pc = "mismatch"]
           notFound == [r EXCEPT !.pc = "notFound"]
<1>8. /\ OffChain /\ r.pc = "fetching" /\ r.from > r.latest
      /\ \/ ~Contiguous(events) /\ session' = [session EXCEPT ![s] = mismatch]
         \/ Contiguous(events) /\ found = {} /\ session' = [session EXCEPT ![s] = notFound]
         \/ Contiguous(events) /\ found # {} /\ session' = [session EXCEPT ![s] = q]
  BY <1>1, <1>2, <1>3, <1>4, <1>5, <1>6, <1>7 DEF Rebuild, Goes
<1>9. DOMAIN session = Sessions /\ DOMAIN r = DOMAIN Idle
  BY <1>1 DEF ClientInv, SessionsOK, SessionOK
<1>10. SyncOK(r)
  BY <1>1
<1>11. FetchOK(r) /\ r.root = NONE
  BY <1>8, <1>10 DEF SyncOK, Synced
<1>12. r.latest \in Nat /\ r.latest <= head /\ r.start \in Nat
  BY <1>11 DEF FetchOK
<1>13. PICK lo, hi : lo = LeavesUpTo(r.start - 1) /\ hi = LeavesUpTo(r.from - 1)
  OBVIOUS
<1>14. PICK version : version = LeavesUpTo(r.latest)
  OBVIOUS
<1>15. /\ lo \in Nat /\ hi \in Nat /\ lo <= hi /\ hi <= tree.nextIndex
       /\ version <= hi /\ version \in Nat
       /\ lo < hi => version = hi
       /\ lo >= 1 => Len(heights) >= 1 /\ r.start > heights[1]
       /\ Len(events) = hi - lo
       /\ \A i \in 1 .. hi - lo : events[i].idx = lo + i - 1 /\ events[i].leaf = tree.log[lo + i].leaf
  BY <1>2, <1>8, <1>11, <1>13, <1>14, FetchedEvents
<1>16. mismatch.pc = "mismatch" /\ notFound.pc = "notFound" /\ q.pc = "proving"
  BY <1>9 DEF Idle
<1>17. \A p \in {mismatch, notFound} :
         p.latest = r.latest /\ p.start = r.start /\ p.note = r.note /\ p.root = NONE
  BY <1>9, <1>11 DEF Idle
<1>18. q.latest = r.latest /\ q.note = r.note /\ q.root = copy.root /\ q.path = path
  BY <1>9 DEF Idle
<1> HIDE DEF q, mismatch, notFound
<1>19. ASSUME lo >= 1 \/ \A i \in 1 .. version : tree.log[i].leaf # r.note,
              NEW p \in {mismatch, notFound}
       PROVE  SyncOK(p)
  <2>1. p.latest = r.latest /\ p.start = r.start /\ p.note = r.note /\ p.root = NONE
        /\ p.pc \in {"mismatch", "notFound"}
    BY <1>16, <1>17
  <2>2. FailedOK(p)
    BY <1>12, <1>14, <1>15, <1>19, <2>1 DEF FailedOK
  <2>3. QED
    BY <2>1, <2>2 DEF SyncOK, Synced
<1>20. CASE ~Contiguous(events) /\ session' = [session EXCEPT ![s] = mismatch]
  <2>1. PICK i \in 1 .. hi - lo : events[i].idx # i - 1
    BY <1>15, <1>20 DEF Contiguous
  <2>2. lo >= 1
    BY <1>15, <2>1
  <2>3. SyncOK(mismatch)
    BY <1>19, <2>2
  <2>4. session'[s] = mismatch
    BY <1>9, <1>20
  <2>5. QED
    BY <1>8, <2>3, <2>4, SyncOfNext
<1>21. CASE found = {} /\ session' = [session EXCEPT ![s] = notFound]
  <2>1. ASSUME lo = 0 PROVE \A i \in 1 .. version : tree.log[i].leaf # r.note
    <3>1. \A i \in 1 .. hi : events[i].leaf # r.note
      BY <1>5, <1>15, <1>21, <2>1
    <3>2. \A i \in 1 .. version : i \in 1 .. hi
      BY <1>15
    <3>3. QED
      BY <1>15, <2>1, <3>1, <3>2
  <2>2. lo >= 1 \/ \A i \in 1 .. version : tree.log[i].leaf # r.note
    BY <1>15, <2>1
  <2>3. SyncOK(notFound)
    BY <1>19, <2>2
  <2>4. session'[s] = notFound
    BY <1>9, <1>21
  <2>5. QED
    BY <1>8, <2>3, <2>4, SyncOfNext
<1>22. CASE Contiguous(events) /\ found # {} /\ session' = [session EXCEPT ![s] = q]
  <2>1. PICK i \in 1 .. hi - lo : i \in found
    BY <1>5, <1>15, <1>22
  <2>2. 1 \in 1 .. hi - lo /\ lo = 0
    <3>1. 1 \in 1 .. hi - lo
      BY <1>15, <2>1
    <3>2. events[1].idx = 0 /\ events[1].idx = lo
      BY <1>15, <1>22, <3>1 DEF Contiguous
    <3>3. QED
      BY <3>1, <3>2
  <2>3. /\ version = hi /\ version \in 1 .. tree.nextIndex /\ Len(events) = version
        /\ \A j \in 1 .. version : events[j].leaf = tree.log[j].leaf
    BY <1>15, <2>2
  <2>4. leaves = [j \in 1 .. version |-> tree.log[j].leaf]
    BY <1>3, <2>3
  <2>5. RingInv /\ HashInv
    BY PoolHasRing DEF ClientPoolOK
  <2>6. /\ copy.root = RootAfter(tree, version)
        /\ \A j \in 1 .. version : Verify(ProofOf(copy, j - 1), tree.log[j].leaf, copy.root)
    BY <1>4, <2>3, <2>4, <2>5, CopyOfVersion
  <2>7. last \in found
    <3>1. found \subseteq 1 .. version /\ found # {}
      BY <1>5, <1>22, <2>3
    <3>2. IsFiniteSet(1 .. version)
      BY <2>3, FS_Interval
    <3>3. IsFiniteSet(found)
      BY <3>1, <3>2, FS_Subset
    <3>4. found \subseteq Nat
      BY <3>1
    <3>5. Max(found) \in found
      BY <3>1, <3>3, <3>4, GreatestExists
    <3>6. QED
      BY <1>6, <3>5
  <2>8. last \in 1 .. version /\ tree.log[last].leaf = r.note
    BY <1>5, <2>3, <2>7
  <2>9. Verify(path, r.note, copy.root)
    BY <1>7, <2>6, <2>8
  <2>10. SyncedOK(q)
    BY <1>12, <1>14, <1>18, <2>3, <2>6, <2>8, <2>9 DEF SyncedOK
  <2>11. SyncOK(q)
    BY <1>16, <2>10 DEF SyncOK, Synced
  <2>12. session'[s] = q
    BY <1>9, <1>22
  <2>13. QED
    BY <1>8, <2>11, <2>12, SyncOfNext
<1>23. QED
  BY <1>8, <1>20, <1>21, <1>22

-------------------------------------------------------------------------------
(* Withdrawals *)

\* Why a withdrawal fails though its sync was in order: its note is spent, its
\* token delisted, or its root has rotated out.
Excused(r) ==
  \/ Nullifier(r.note) \in nullifierHashes
  \/ r.note.token \notin admin.supportedTokens
  \/ tree.nextIndex - LeavesUpTo(r.latest) >= ROOT_HISTORY_SIZE

\* A withdrawal with a proof of its own was refused, or mined.
Decided(s) ==
  /\ session[s].source = "generate" /\ session[s].kind = "withdraw"
  /\ \/ session[s].pc \in {"refused", "done"}
     \/ session[s].pc = "withdrawing" /\ Unmined(s) = {}

\* What it sent is the proof it made.
FreshTx(tx) ==
  /\ tx.kind = "withdraw" /\ session[tx.by].pc = "withdrawing" /\ session[tx.by].source = "generate"
  => /\ tx.note = session[tx.by].note /\ tx.root = session[tx.by].root
     /\ tx.proof = Proof(tx.note, tx.root)

WithdrawOK(s) == SyncOK(session[s]) /\ (Decided(s) => Excused(session[s]))

WithdrawInv ==
  /\ ClientInv /\ ClientPoolOK
  /\ \A s \in Sessions : WithdrawOK(s)
  /\ \A tx \in Sent : FreshTx(tx)

\* A proof of a sync in order is accepted unless the note is spent or the root
\* has expired.
LEMMA FreshSucceeds ==
  ASSUME ClientInv, ClientPoolOK, NEW r, SyncedOK(r), ~Excused(r),
         NEW tx, tx.kind = "withdraw", tx.note = r.note, tx.root = r.root,
         tx.proof = Proof(tx.note, tx.root)
  PROVE  Succeeds(tx)
<1>1. PICK note, version : note = r.note /\ version = LeavesUpTo(r.latest)
  OBVIOUS
<1>2. /\ PoolInv /\ RingInv /\ HashInv /\ tree.nextIndex \in Nat /\ Len(tree.log) = tree.nextIndex
  BY PoolHasRing DEF ClientPoolOK
<1>3. /\ version \in 1 .. tree.nextIndex /\ r.root = RootAfter(tree, version)
      /\ \E i \in 1 .. version : tree.log[i].leaf = note
  BY <1>1 DEF SyncedOK
<1>4. /\ Nullifier(note) \notin nullifierHashes /\ note.token \in admin.supportedTokens
      /\ ~(tree.nextIndex - version >= ROOT_HISTORY_SIZE)
  BY <1>1 DEF Excused
<1>5. note \in LeafSet
  BY <1>2, <1>3 DEF LeafSet
<1>6. note \in NoteSet
  BY <1>2, <1>5, UnspentNotes
<1>7. note \in Unspent
  BY <1>4, <1>5, <1>6, ZeroIsNoNote DEF Unspent
<1>8. /\ WithdrawAccepted(note, Nullifier(note), GetLastRoot(tree), note.token, note.amount)
      /\ vault[note.token] >= note.amount
  <2>1. UnspentNotesWithdrawable
    BY <1>2, NoNoteStuck
  <2>2. QED
    BY <1>4, <1>7, <2>1 DEF UnspentNotesWithdrawable
<1>9. note.amount = ProvedAmount(note.amount)
  BY <1>8 DEF WithdrawAccepted, ProofValid
<1>10. IsKnownRoot(tree, RootAfter(tree, version))
  <2>1. KnownIffRecent
    BY <1>2, IdentifyingRoots, KnownIfIdentified
  <2>2. version \in RecentVersions(tree) /\ version \in 0 .. tree.nextIndex
    BY <1>2, <1>3, <1>4, TreeAssumption DEF RecentVersions
  <2>3. SameLeaves(tree, version, version)
    BY <1>2, <1>3 DEF SameLeaves
  <2>4. QED
    BY <2>1, <2>2, <2>3 DEF KnownIffRecent
<1>11. ProofValid(note, Nullifier(note), RootAfter(tree, version), note.token, ProvedAmount(note.amount))
  BY <1>3, <1>9 DEF ProofValid
<1>12. WithdrawAccepted(note, Nullifier(note), RootAfter(tree, version), note.token, note.amount)
  BY <1>4, <1>10, <1>11 DEF WithdrawAccepted
<1>13. tx.note = note /\ tx.root = RootAfter(tree, version)
  BY <1>1, <1>3
<1>14. QED
  BY <1>8, <1>12, <1>13 DEF Succeeds

\* A reason remains one.
LEMMA ReasonStays ==
  ASSUME ClientInv, ClientInv', Advances, NEW r, SyncedOK(r), Excused(r)
  PROVE  Excused(r)'
<1>1. PICK latest, version : latest = r.latest /\ version = LeavesUpTo(latest)
  OBVIOUS
<1>2. latest \in Nat /\ latest <= head /\ version \in 1 .. tree.nextIndex
  BY <1>1 DEF SyncedOK
<1>3. LeavesUpTo(latest)' = version
  BY <1>1, <1>2 DEF Advances
<1>4. /\ tree'.nextIndex >= tree.nextIndex /\ nullifierHashes \subseteq nullifierHashes'
      /\ tree.nextIndex \in Nat /\ tree'.nextIndex \in Nat
  BY CountsOfChain, CountsOfNext DEF Advances
<1>5. \/ Nullifier(r.note) \in nullifierHashes
      \/ r.note.token \notin admin.supportedTokens
      \/ tree.nextIndex - version >= ROOT_HISTORY_SIZE
  BY <1>1 DEF Excused
<1>6. \/ Nullifier(r.note) \in nullifierHashes'
      \/ r.note.token \notin admin'.supportedTokens
      \/ tree'.nextIndex - version >= ROOT_HISTORY_SIZE
  BY <1>2, <1>4, <1>5, TreeAssumption DEF Advances
<1>7. QED
  BY <1>1, <1>3, <1>6 DEF Excused, Nullifier

\* A session that does nothing in a step.
LEMMA StaysOK ==
  ASSUME ClientInv, ClientInv', Advances, NEW s, WithdrawOK(s), session'[s] = session[s],
         Decided(s)' => Decided(s)
  PROVE  WithdrawOK(s)'
<1>1. PICK r : r = session[s] /\ r = session'[s]
  OBVIOUS
<1>2. SyncOK(r) /\ (Decided(s) => Excused(r))
  BY <1>1 DEF WithdrawOK
<1>3. SyncOK(r)'
  BY <1>2, SyncKept
<1>4. ASSUME Decided(s)' PROVE Excused(r)'
  <2>1. Decided(s) /\ Excused(r)
    BY <1>2, <1>4
  <2>2. SyncedOK(r)
    BY <1>1, <1>2, <2>1 DEF SyncOK, Synced, Decided
  <2>3. QED
    BY <2>1, <2>2, ReasonStays
<1>5. SyncOK(session[s])'
  BY <1>1, <1>3
<1>6. (Decided(s) => Excused(session[s]))'
  BY <1>1, <1>4
<1>7. QED
  BY <1>5, <1>6 DEF WithdrawOK

\* What a transaction sent adds.
LEMMA SentGrows ==
  ASSUME PendingOK, NEW tx, Send(tx)
  PROVE  /\ Sent' \subseteq Sent \cup {tx} /\ Unmined(tx.by)' # {}
         /\ \A t : Unmined(t)' = {} => Unmined(t) = {}
<1> DEFINE n == Len(pending)
<1>1. PICK S : pending \in Seq(S)
  BY DEF PendingOK
<1>2. pending \in Seq(S \cup {tx}) /\ pending' = Append(pending, tx)
  BY <1>1 DEF Send
<1>3. /\ n \in Nat /\ Len(pending') = n + 1
      /\ pending'[n + 1] = tx /\ \A i \in 1 .. n : pending'[i] = pending[i]
  BY <1>2
<1>4. /\ Sent = { pending[i] : i \in 1 .. n } /\ Sent' = { pending'[i] : i \in 1 .. n + 1 }
      /\ \A t : /\ Unmined(t) = { i \in 1 .. n : pending[i].by = t }
                /\ Unmined(t)' = { i \in 1 .. n + 1 : pending'[i].by = t }
  BY <1>3 DEF Sent, Unmined
<1> HIDE DEF n
<1>5. \A i \in 1 .. n + 1 : i # n + 1 => i \in 1 .. n
  BY <1>3
<1>6. n + 1 \in 1 .. n + 1 /\ 1 .. n \subseteq 1 .. n + 1
  BY <1>3
<1>7. Sent' \subseteq Sent \cup {tx}
  BY <1>3, <1>4, <1>5
<1>8. Unmined(tx.by)' # {}
  BY <1>3, <1>4, <1>6
<1>9. ASSUME NEW t, NEW i \in Unmined(t) PROVE i \in Unmined(t)'
  BY <1>3, <1>4, <1>6, <1>9
<1>10. QED
  BY <1>7, <1>8, <1>9

\* A step of one session, off the chain, leaves the others' withdrawals in order.
LEMMA SessionActs ==
  ASSUME WithdrawInv, ClientInv', OffChain, NEW s \in Sessions,
         \A t \in Sessions \ {s} : session'[t] = session[t],
         WithdrawOK(s)', session'[s].pc # "withdrawing" \/ Unmined(s) = {},
         pending' = pending \/ \E tx : tx.by = s /\ Send(tx) /\ FreshTx(tx)'
  PROVE  WithdrawInv'
<1>1. /\ ClientInv /\ ClientPoolOK /\ PendingOK
      /\ \A t \in Sessions : WithdrawOK(t)
      /\ \A tx \in Sent : FreshTx(tx)
  BY DEF WithdrawInv, ClientInv
<1>2. Advances
  BY <1>1, OffChainAdvances
<1>3. ClientPoolOK'
  BY <1>2 DEF Advances
<1>4. /\ \A t : Unmined(t)' = {} => Unmined(t) = {}
      /\ \A tx \in Sent' : tx \notin Sent => FreshTx(tx)'
  <2>1. CASE pending' = pending
    BY <2>1 DEF Unmined, Sent
  <2>2. CASE \E tx : tx.by = s /\ Send(tx) /\ FreshTx(tx)'
    <3>1. PICK tx : tx.by = s /\ Send(tx) /\ FreshTx(tx)'
      BY <2>2
    <3>2. Sent' \subseteq Sent \cup {tx} /\ \A t : Unmined(t)' = {} => Unmined(t) = {}
      BY <1>1, <3>1, SentGrows
    <3>3. QED
      BY <3>1, <3>2
  <2>3. QED
    BY <2>1, <2>2
<1>5. ASSUME NEW t \in Sessions PROVE WithdrawOK(t)'
  <2>1. CASE t = s
    BY <2>1
  <2>2. CASE t # s
    <3>1. session'[t] = session[t] /\ (Unmined(t)' = {} => Unmined(t) = {}) /\ WithdrawOK(t)
      BY <1>1, <1>4, <2>2
    <3>2. Decided(t)' => Decided(t)
      BY <3>1 DEF Decided
    <3>3. QED
      BY <1>1, <1>2, <3>1, <3>2, StaysOK
  <2>3. QED
    BY <2>1, <2>2
<1>6. ASSUME NEW tx \in Sent' PROVE FreshTx(tx)'
  <2>1. CASE tx \notin Sent
    BY <1>4, <2>1
  <2>2. CASE tx \in Sent /\ tx.by # s
    <3>1. FreshTx(tx) /\ TxOK(tx)
      BY <1>1, <2>2 DEF PendingOK
    <3>2. session'[tx.by] = session[tx.by]
      BY <2>2, <3>1 DEF TxOK
    <3>3. QED
      BY <3>1, <3>2 DEF FreshTx
  <2>3. CASE tx \in Sent /\ tx.by = s
    <3>1. Unmined(s) # {}
      BY <2>3 DEF Sent, Unmined
    <3>2. QED
      BY <2>3, <3>1 DEF FreshTx
  <2>4. QED
    BY <2>1, <2>2, <2>3
<1>7. (\A t \in Sessions : WithdrawOK(t))' /\ (\A tx \in Sent : FreshTx(tx))'
  BY <1>5, <1>6
<1>8. QED
  BY <1>3, <1>7 DEF WithdrawInv

\* A step of a session that decides nothing of a withdrawal.
LEMMA Undecided ==
  ASSUME NEW s, SyncOK(session[s])',
         session'[s].kind # "withdraw" \/ session'[s].pc \notin {"refused", "done", "withdrawing"}
  PROVE  WithdrawOK(s)'
BY DEF WithdrawOK, Decided

LEMMA BeginActs ==
  ASSUME WithdrawInv, ClientInv', NEW s \in Sessions, NEW file \in Files,
         \/ \E amount \in Amounts : DepositBegins(s, file, amount)
         \/ \E source \in {"generate", "file", "none"}, deployBlock \in DeployBlocks :
              WithdrawBegins(s, file, source, deployBlock)
  PROVE  WithdrawInv'
<1>1. ClientInv /\ SessionsOK
  BY DEF WithdrawInv, ClientInv
<1>2. SyncOK(session[s])'
  BY <1>1, DepositBeginsSync, WithdrawBeginsSync
<1>3. /\ OffChain /\ session[s].pc = "idle"
      /\ pending' = pending \/ \E tx : tx.by = s /\ tx.kind = "approve" /\ Send(tx)
      /\ \A t \in Sessions \ {s} : session'[t] = session[t]
      /\ session'[s].pc \in {"approving", "fetching", "unreadable"}
  <2>1. session[s].pc = "idle"
    BY DEF DepositBegins, WithdrawBegins
  <2>2. session[s] = Idle /\ DOMAIN session = Sessions
    BY <1>1, <2>1, IdleIsIdle DEF SessionsOK
  <2>3. CASE \E amount \in Amounts : DepositBegins(s, file, amount)
    <3>1. PICK amount \in Amounts : DepositBegins(s, file, amount)
      BY <2>3
    <3>2. PICK tx, r :
            /\ tx = Approve(s, amount) /\ Send(tx) /\ OffChain
            /\ r = [session[s] EXCEPT !.kind = "deposit", !.pc = "approving",
                                      !.file = file, !.note = Note(s, Token, amount)]
            /\ session' = [session EXCEPT ![s] = r]
      BY <3>1 DEF DepositBegins
    <3>3. tx.by = s /\ tx.kind = "approve" /\ r.pc = "approving"
      BY <2>2, <3>2 DEF Approve, Idle
    <3>4. QED
      BY <2>1, <2>2, <3>2, <3>3
  <2>4. CASE \E source \in {"generate", "file", "none"}, deployBlock \in DeployBlocks :
               WithdrawBegins(s, file, source, deployBlock)
    <3>1. PICK source, deployBlock : WithdrawBegins(s, file, source, deployBlock)
      BY <2>4
    <3>2. PICK note, start : note = noteFile[file] /\ start = StartBlock(deployBlock, head)
      OBVIOUS
    <3>3. PICK r :
            /\ r = IF HoldsNote(file)
                   THEN [session[s] EXCEPT !.kind = "withdraw", !.pc = "fetching", !.note = note,
                           !.source = source, !.latest = head, !.start = start, !.from = start]
                   ELSE [session[s] EXCEPT !.kind = "withdraw", !.pc = "unreadable"]
            /\ session' = [session EXCEPT ![s] = r] /\ OffChain /\ pending' = pending
      BY <3>1, <3>2 DEF WithdrawBegins
    <3>4. r.pc \in {"fetching", "unreadable"}
      BY <2>2, <3>3 DEF Idle
    <3>5. QED
      BY <2>1, <2>2, <3>3, <3>4
  <2>5. QED
    BY <2>3, <2>4
<1>4. WithdrawOK(s)'
  BY <1>2, <1>3, Undecided
<1>5. \A tx : tx.kind = "approve" => FreshTx(tx)'
  BY DEF FreshTx
<1>6. QED
  BY <1>3, <1>4, <1>5, SessionActs

\* A session's step that sends no withdrawal and does not end one.
LEMMA ActsUndecided ==
  ASSUME WithdrawInv, ClientInv', OffChain, NEW s \in Sessions, NEW pc, Moves(s, pc),
         SyncOK(session[s])',
         session[s].kind # "withdraw" \/ pc \notin {"refused", "done", "withdrawing"},
         pc # "withdrawing",
         pending' = pending \/ \E tx : tx.by = s /\ tx.kind = "deposit" /\ Send(tx)
  PROVE  WithdrawInv'
<1>1. /\ session'[s].pc = pc /\ session'[s].kind = session[s].kind
      /\ \A t \in Sessions \ {s} : session'[t] = session[t]
  BY DEF Moves
<1>2. WithdrawOK(s)'
  BY <1>1, Undecided
<1>3. \A tx : tx.kind = "deposit" => FreshTx(tx)'
  BY DEF FreshTx
<1>4. QED
  BY <1>1, <1>2, <1>3, SessionActs

LEMMA DepositActs ==
  ASSUME WithdrawInv, ClientInv', NEW s \in Sessions, SendDeposit(s) \/ SaveBegins(s) \/ SaveEnds(s)
  PROVE  WithdrawInv'
<1>1. PICK pc \in {"depositing", "refused", "saving", "done"} :
        /\ OffChain /\ Goes(s, pc) /\ session[s].pc \in {"approving", "depositing", "saving"}
        /\ pending' = pending \/ \E tx : tx.by = s /\ tx.kind = "deposit" /\ Send(tx)
  <2>1. CASE SendDeposit(s)
    <3>1. PICK tx : tx = DepositTx(s, session[s].note)
      OBVIOUS
    <3>2. tx.by = s /\ tx.kind = "deposit"
      BY <3>1 DEF DepositTx
    <3>3. QED
      BY <2>1, <3>1, <3>2 DEF SendDeposit
  <2>2. CASE SaveBegins(s) \/ SaveEnds(s)
    BY <2>2 DEF SaveBegins, SaveEnds
  <2>3. QED
    BY <2>1, <2>2
<1>2. ClientInv /\ SessionsOK
  BY DEF WithdrawInv, ClientInv
<1>3. BegunDeposit(s) /\ session[s].kind # "withdraw"
  BY <1>1, <1>2, WhoDeposits DEF BegunDeposit
<1>4. SyncOK(session[s])'
  BY <1>2, <1>3, DepositSync
<1>5. Moves(s, pc)
  BY <1>1, <1>2, GoesMoves
<1>6. QED
  BY <1>1, <1>3, <1>4, <1>5, ActsUndecided

LEMMA SyncActs ==
  ASSUME WithdrawInv, ClientInv', NEW s \in Sessions, FetchChunk(s) \/ Rebuild(s) \/ Dies(s)
  PROVE  WithdrawInv'
<1>1. ClientInv /\ ClientPoolOK /\ SessionsOK /\ SyncOK(session[s])
  BY DEF WithdrawInv, ClientInv, WithdrawOK
<1>2. PICK pc \in {"fetching", "mismatch", "notFound", "proving", "died"} : Moves(s, pc)
  BY <1>1, FetchMoves, RebuildMoves, DiesMoves
<1>3. OffChain /\ pending' = pending
  BY DEF FetchChunk, Rebuild, Dies
<1>4. SyncOK(session[s])'
  BY <1>1, FetchSync, RebuildSync, DiesSync
<1>5. QED
  BY <1>2, <1>3, <1>4, ActsUndecided

\* A sync stays in order while the withdrawal is sent and waited for.
LEMMA SyncedGoes ==
  ASSUME ClientInv, NEW s \in Sessions, BegunWithdraw(s), SyncedOK(session[s]),
         NEW pc \in {"withdrawing", "refused", "done", "noProof"}, Goes(s, pc), OffChain
  PROVE  SyncOK(session[s])'
<1>1. PICK r, q : r = session[s] /\ q = session'[s]
  OBVIOUS
<1>2. /\ q.pc = pc /\ q.kind = "withdraw" /\ q.note = r.note
      /\ q.latest = r.latest /\ q.root = r.root
  BY <1>1, GoesMoves DEF Moves, ClientInv, BegunWithdraw
<1>3. SyncedOK(r)
  BY <1>1
<1>4. SyncedOK(q)
  BY <1>2, <1>3 DEF SyncedOK
<1>5. SyncOK(q)
  BY <1>2, <1>4 DEF SyncOK, Synced
<1>6. QED
  BY <1>1, <1>5, SyncOfNext

LEMMA SendWithdrawActs ==
  ASSUME WithdrawInv, ClientInv', NEW s \in Sessions, SendWithdraw(s)
  PROVE  WithdrawInv'
<1>1. ClientInv /\ ClientPoolOK /\ SessionsOK /\ PendingOK /\ SyncOK(session[s])
  BY DEF WithdrawInv, ClientInv, WithdrawOK
<1>2. PICK r : r = session[s]
  OBVIOUS
<1>3. PICK proof : proof = ProofFor(r)
  OBVIOUS
<1>4. PICK tx : tx = WithdrawTx(s, r.note, r.root, proof)
  OBVIOUS
<1>5. /\ OffChain /\ r.pc = "proving"
      /\ \/ Succeeds(tx) /\ Send(tx) /\ Goes(s, "withdrawing")
         \/ ~Succeeds(tx) /\ Goes(s, "refused") /\ pending' = pending
         \/ r.source = "file" /\ Goes(s, "noProof") /\ pending' = pending
  BY <1>2, <1>3, <1>4 DEF SendWithdraw
<1>6. tx.kind = "withdraw" /\ tx.by = s /\ tx.note = r.note /\ tx.root = r.root /\ tx.proof = proof
  BY <1>4 DEF WithdrawTx
<1>7. BegunWithdraw(s) /\ Unmined(s) = {}
  BY <1>1, <1>2, <1>5, WhoWithdraws, WhoWaits
<1>8. SyncedOK(r)
  BY <1>1, <1>2, <1>5 DEF SyncOK, Synced
<1>9. r.source = "generate" => tx.proof = Proof(tx.note, tx.root)
  BY <1>3, <1>5, <1>6, <1>8 DEF SyncedOK, ProofFor
<1>10. CASE Send(tx) /\ Goes(s, "withdrawing")
  <2>1. Moves(s, "withdrawing") /\ session'[s].source = r.source /\ session'[s].root = r.root
    BY <1>1, <1>2, <1>10, GoesMoves
  <2>2. session'[s].pc = "withdrawing" /\ session'[s].note = r.note
        /\ \A t \in Sessions \ {s} : session'[t] = session[t]
    BY <1>2, <2>1 DEF Moves
  <2>3. SyncOK(session[s])'
    BY <1>1, <1>2, <1>5, <1>7, <1>8, <1>10, SyncedGoes
  <2>4. Unmined(s)' # {}
    BY <1>1, <1>6, <1>10, SentGrows
  <2>5. WithdrawOK(s)'
    BY <2>2, <2>3, <2>4 DEF WithdrawOK, Decided
  <2>6. FreshTx(tx)'
    BY <1>6, <1>9, <2>1, <2>2 DEF FreshTx
  <2>7. QED
    BY <1>5, <1>6, <1>7, <1>10, <2>2, <2>5, <2>6, SessionActs
<1>11. CASE ~Succeeds(tx) /\ Goes(s, "refused") /\ pending' = pending
  <2>1. Moves(s, "refused") /\ session'[s].source = r.source /\ session'[s].latest = r.latest
    BY <1>1, <1>2, <1>11, GoesMoves
  <2>2. session'[s].pc = "refused" /\ session'[s].note = r.note
        /\ \A t \in Sessions \ {s} : session'[t] = session[t]
    BY <1>2, <2>1 DEF Moves
  <2>3. SyncOK(session[s])'
    BY <1>1, <1>2, <1>5, <1>7, <1>8, <1>11, SyncedGoes
  <2>4. r.source = "generate" => Excused(r)'
    <3>1. SUFFICES ASSUME r.source = "generate" PROVE Excused(r)'
      OBVIOUS
    <3>2. Excused(r)
      BY <1>1, <1>6, <1>8, <1>9, <1>11, <3>1, FreshSucceeds
    <3>3. Advances
      BY <1>1, <1>5, OffChainAdvances
    <3>4. QED
      BY <1>1, <1>8, <3>2, <3>3, ReasonStays
  <2>5. Excused(r)' => Excused(session[s])'
    <3>1. PICK q : q = session'[s]
      OBVIOUS
    <3>2. q.latest = r.latest /\ q.note = r.note
      BY <2>1, <2>2, <3>1
    <3>3. Excused(r)' => Excused(q)'
      BY <3>2 DEF Excused, Nullifier
    <3>4. QED
      BY <3>1, <3>3
  <2>6. WithdrawOK(s)'
    BY <2>1, <2>3, <2>4, <2>5 DEF WithdrawOK, Decided
  <2>7. QED
    BY <1>5, <1>11, <2>2, <2>6, SessionActs
<1>12. CASE Goes(s, "noProof") /\ pending' = pending
  <2>1. Moves(s, "noProof")
    BY <1>1, <1>12, GoesMoves
  <2>2. SyncOK(session[s])'
    BY <1>1, <1>2, <1>5, <1>7, <1>8, <1>12, SyncedGoes
  <2>3. QED
    BY <1>5, <1>12, <2>1, <2>2, ActsUndecided
<1>13. QED
  BY <1>5, <1>10, <1>11, <1>12

LEMMA WithdrawEndsActs ==
  ASSUME WithdrawInv, ClientInv', NEW s \in Sessions, WithdrawEnds(s)
  PROVE  WithdrawInv'
<1>1. ClientInv /\ ClientPoolOK /\ SessionsOK /\ PendingOK /\ WithdrawOK(s)
  BY DEF WithdrawInv, ClientInv
<1>2. PICK r : r = session[s]
  OBVIOUS
<1>3. /\ OffChain /\ pending' = pending /\ r.pc = "withdrawing" /\ Goes(s, "done")
      /\ Unmined(s) = {}
  BY <1>2, IsMinedMeans DEF WithdrawEnds
<1>4. BegunWithdraw(s)
  BY <1>1, <1>2, <1>3, WhoWithdraws
<1>5. SyncedOK(r)
  BY <1>1, <1>2, <1>3 DEF WithdrawOK, SyncOK, Synced
<1>6. Moves(s, "done") /\ session'[s].source = r.source /\ session'[s].latest = r.latest
  BY <1>1, <1>2, <1>3, GoesMoves
<1>7. session'[s].pc = "done" /\ session'[s].note = r.note
      /\ \A t \in Sessions \ {s} : session'[t] = session[t]
  BY <1>2, <1>6 DEF Moves
<1>8. SyncOK(session[s])'
  BY <1>1, <1>2, <1>3, <1>4, <1>5, SyncedGoes
<1>9. r.source = "generate" => Excused(r)'
  <2>1. SUFFICES ASSUME r.source = "generate" PROVE Excused(r)'
    OBVIOUS
  <2>2. Excused(r)
    BY <1>1, <1>2, <1>3, <1>4, <2>1 DEF WithdrawOK, Decided, BegunWithdraw
  <2>3. Advances
    BY <1>1, <1>3, OffChainAdvances
  <2>4. QED
    BY <1>1, <1>5, <2>2, <2>3, ReasonStays
<1>10. Excused(r)' => Excused(session[s])'
  <2>1. PICK q : q = session'[s]
    OBVIOUS
  <2>2. q.latest = r.latest /\ q.note = r.note
    BY <1>6, <1>7, <2>1
  <2>3. Excused(r)' => Excused(q)'
    BY <2>2 DEF Excused, Nullifier
  <2>4. QED
    BY <2>1, <2>3
<1>11. WithdrawOK(s)'
  BY <1>6, <1>8, <1>9, <1>10 DEF WithdrawOK, Decided
<1>12. QED
  BY <1>3, <1>7, <1>11, SessionActs

\* The chain goes on: nobody's session moves.
LEMMA ChainActs ==
  ASSUME WithdrawInv, ClientInv', Advances, UNCHANGED << session, pending >>
  PROVE  WithdrawInv'
<1>1. /\ ClientInv /\ \A t \in Sessions : WithdrawOK(t)
      /\ \A tx \in Sent : FreshTx(tx)
  BY DEF WithdrawInv
<1>2. ClientPoolOK' /\ session' = session /\ pending' = pending
  BY DEF Advances
<1>3. ASSUME NEW t \in Sessions PROVE WithdrawOK(t)'
  <2>1. Decided(t)' => Decided(t)
    BY <1>2 DEF Decided, Unmined
  <2>2. session'[t] = session[t] /\ WithdrawOK(t)
    BY <1>1, <1>2
  <2>3. QED
    BY <1>1, <2>1, <2>2, StaysOK
<1>4. (\A tx \in Sent : FreshTx(tx))'
  BY <1>1, <1>2 DEF Sent, FreshTx
<1>5. (\A t \in Sessions : WithdrawOK(t))'
  BY <1>3
<1>6. QED
  BY <1>2, <1>4, <1>5 DEF WithdrawInv

\* A withdrawal that is mined spends the note, or had a reason to fail.
LEMMA MineActs == ASSUME WithdrawInv, ClientInv', MineNext PROVE WithdrawInv'
<1>1. /\ ClientInv /\ ClientPoolOK /\ PendingOK /\ SessionsOK
      /\ \A t \in Sessions : WithdrawOK(t)
      /\ \A tx \in Sent : FreshTx(tx)
  BY DEF WithdrawInv, ClientInv
<1>2. Advances
  BY <1>1, MineAdvances
<1>3. PICK tx : tx = Head(pending)
  OBVIOUS
<1>4. /\ pending # << >> /\ pending' = Tail(pending) /\ UNCHANGED session
      /\ (Succeeds(tx) /\ Effect(tx)) \/ ~Succeeds(tx)
  BY <1>3 DEF MineNext
<1>5. /\ tx \in Sent /\ Sent' \subseteq Sent
      /\ \A t : t # tx.by => (Unmined(t)' = {} <=> Unmined(t) = {})
  BY <1>1, <1>3, <1>4, PendingShrinks
<1>6. session' = session /\ ClientPoolOK'
  BY <1>2, <1>4 DEF Advances
<1>7. ASSUME NEW t \in Sessions, t # tx.by PROVE WithdrawOK(t)'
  <2>1. Decided(t)' => Decided(t)
    BY <1>5, <1>6, <1>7 DEF Decided
  <2>2. session'[t] = session[t] /\ WithdrawOK(t)
    BY <1>1, <1>6
  <2>3. QED
    BY <1>1, <1>2, <2>1, <2>2, StaysOK
<1>8. TxOK(tx) /\ FreshTx(tx)
  BY <1>1, <1>5 DEF PendingOK
<1>9. PICK s \in Sessions : s = tx.by
  BY <1>8 DEF TxOK
<1>10. PICK r : r = session[s] /\ r = session'[s]
  BY <1>6
<1>11. SyncOK(r) /\ (Decided(s) => Excused(r))
  BY <1>1, <1>9, <1>10 DEF WithdrawOK
<1>12. ASSUME Decided(s)' PROVE Excused(r)'
  <2>1. r.source = "generate" /\ r.kind = "withdraw" /\ r.pc \in {"refused", "done", "withdrawing"}
    BY <1>10, <1>12 DEF Decided
  <2>2. tx.kind = "withdraw" /\ r.pc = "withdrawing"
    BY <1>8, <1>9, <1>10, <2>1 DEF TxOK, BegunDeposit
  <2>3. tx.note = r.note /\ tx.root = r.root /\ tx.proof = Proof(tx.note, tx.root)
    BY <1>8, <1>9, <1>10, <2>1, <2>2 DEF FreshTx
  <2>4. SyncedOK(r)
    BY <1>11, <2>2 DEF SyncOK, Synced
  <2>5. CASE Succeeds(tx) /\ Effect(tx)
    <3>1. nullifierHashes' = nullifierHashes \cup {Nullifier(tx.note)}
      BY <2>2, <2>5 DEF Effect, Withdraw
    <3>2. QED
      BY <2>3, <3>1 DEF Excused, Nullifier
  <2>6. CASE ~Succeeds(tx)
    <3>1. Excused(r)
      BY <1>1, <2>2, <2>3, <2>4, <2>6, FreshSucceeds
    <3>2. QED
      BY <1>1, <1>2, <2>4, <3>1, ReasonStays
  <2>7. QED
    BY <1>4, <2>5, <2>6
<1>13. WithdrawOK(s)'
  <2>1. SyncOK(r)'
    BY <1>1, <1>2, <1>11, SyncKept
  <2>2. SyncOK(session[s])'
    BY <1>10, <2>1
  <2>3. (Decided(s) => Excused(session[s]))'
    BY <1>10, <1>12
  <2>4. QED
    BY <2>2, <2>3 DEF WithdrawOK
<1>14. (\A t \in Sessions : WithdrawOK(t))'
  BY <1>7, <1>9, <1>13
<1>15. (\A sent \in Sent : FreshTx(sent))'
  BY <1>1, <1>5, <1>6 DEF FreshTx
<1>16. QED
  BY <1>6, <1>14, <1>15 DEF WithdrawInv

LEMMA WithdrawInvInit == ClientInit => WithdrawInv
<1> SUFFICES ASSUME ClientInit PROVE WithdrawInv
  OBVIOUS
<1>1. ClientInv /\ ClientPoolOK
  BY ClientInvInit, ClientPoolInit
<1>2. session = [s \in Sessions |-> Idle] /\ pending = << >>
  BY DEF ClientInit
<1>3. ASSUME NEW s \in Sessions PROVE WithdrawOK(s)
  <2>1. session[s] = Idle
    BY <1>2
  <2>2. SyncOK(session[s])
    BY <2>1, IdleIsOK
  <2>3. ~Decided(s)
    BY <2>1 DEF Decided, Idle
  <2>4. QED
    BY <2>2, <2>3 DEF WithdrawOK
<1>4. Sent = {}
  BY <1>2 DEF Sent
<1>5. QED
  BY <1>1, <1>3, <1>4 DEF WithdrawInv

LEMMA WithdrawInvStep == WithdrawInv /\ [ClientNext]_clientVars => WithdrawInv'
<1> SUFFICES ASSUME WithdrawInv, [ClientNext]_clientVars PROVE WithdrawInv'
  OBVIOUS
<1>1. ClientInv /\ ClientPoolOK
  BY DEF WithdrawInv
<1>2. ClientInv'
  BY <1>1, ClientInvStep
<1>3. CASE UNCHANGED clientVars
  <2>1. OffChain /\ UNCHANGED << session, pending >>
    BY <1>3 DEF clientVars, OffChain
  <2>2. Advances
    BY <1>1, <2>1, OffChainAdvances
  <2>3. QED
    BY <1>2, <2>1, <2>2, ChainActs
<1>4. CASE MineNext
  BY <1>2, <1>4, MineActs
<1>5. CASE EmptyBlock
  <2>1. UNCHANGED << session, pending >>
    BY <1>5 DEF EmptyBlock
  <2>2. Advances
    BY <1>1, <1>5, EmptyBlockAdvances
  <2>3. QED
    BY <1>2, <2>1, <2>2, ChainActs
<1>6. CASE OthersDeposit
  <2>1. UNCHANGED << session, pending >>
    BY <1>6 DEF OthersDeposit
  <2>2. Advances
    BY <1>1, <1>6, OthersAdvance
  <2>3. QED
    BY <1>2, <2>1, <2>2, ChainActs
<1>7. ASSUME NEW file \in Files, ScriptProves(file) PROVE WithdrawInv'
  <2>1. OffChain /\ UNCHANGED << session, pending >>
    BY <1>7 DEF ScriptProves
  <2>2. Advances
    BY <1>1, <2>1, OffChainAdvances
  <2>3. QED
    BY <1>2, <2>1, <2>2, ChainActs
<1>8. ASSUME NEW s \in Sessions, NEW file \in Files,
             \/ \E amount \in Amounts : DepositBegins(s, file, amount)
             \/ \E source \in {"generate", "file", "none"}, deployBlock \in DeployBlocks :
                  WithdrawBegins(s, file, source, deployBlock)
      PROVE  WithdrawInv'
  BY <1>2, <1>8, BeginActs
<1>9. ASSUME NEW s \in Sessions,
             SendDeposit(s) \/ SaveBegins(s) \/ SaveEnds(s) \/ FetchChunk(s) \/ Rebuild(s)
               \/ SendWithdraw(s) \/ WithdrawEnds(s) \/ Dies(s)
      PROVE  WithdrawInv'
  BY <1>2, <1>9, DepositActs, SyncActs, SendWithdrawActs, WithdrawEndsActs
<1>10. CASE OwnerDelists
  <2>1. UNCHANGED << session, pending >>
    BY <1>10 DEF OwnerDelists
  <2>2. Advances
    BY <1>1, <1>10, DelistingAdvances
  <2>3. QED
    BY <1>2, <2>1, <2>2, ChainActs
<1>11. QED
  BY <1>3, <1>4, <1>5, <1>6, <1>10, <1>7, <1>8, <1>9 DEF ClientNext

-------------------------------------------------------------------------------
(* The invariant of withdrawals *)

\* What is true of every sync and withdrawal, and of the chain under them.
THEOREM WithdrawInvariant == ClientSpec => []WithdrawInv
BY WithdrawInvInit, WithdrawInvStep, PTL DEF ClientSpec

\* A sync that ends without an error has the root of the tree's version of the
\* block it started from, whatever the chunks, the window and the blocks since.
THEOREM SyncedTreesAreVersions == ClientSpec => []SyncedTreeIsAVersion
<1>1. WithdrawInv => SyncedTreeIsAVersion
  <2> SUFFICES ASSUME WithdrawInv, NEW s \in Sessions, session[s].root # NONE
               PROVE  session[s].root = RootAfter(tree, LeavesUpTo(session[s].latest))
    BY DEF SyncedTreeIsAVersion
  <2>1. SyncOK(session[s])
    BY DEF WithdrawInv, WithdrawOK
  <2>2. SyncedOK(session[s])
    BY <2>1 DEF SyncOK
  <2>3. QED
    BY <2>2 DEF SyncedOK
<1>2. QED
  BY <1>1, WithdrawInvariant, PTL

\* No event is lost or fetched twice: a sync fails on a note only when the first
\* block is after the first leaf's, or the note was not in the tree yet.
THEOREM SyncsFindNotes == ClientSpec => []SyncFindsTheNote
<1>1. WithdrawInv => SyncFindsTheNote
  <2> SUFFICES ASSUME WithdrawInv, NEW s \in Sessions, session[s].pc \in {"mismatch", "notFound"}
               PROVE  \/ session[s].start > heights[1]
                      \/ \A i \in 1 .. LeavesUpTo(session[s].latest) : tree.log[i].leaf # session[s].note
    BY DEF SyncFindsTheNote
  <2>1. SyncOK(session[s])
    BY DEF WithdrawInv, WithdrawOK
  <2>2. FailedOK(session[s])
    BY <2>1 DEF SyncOK
  <2>3. QED
    BY <2>2 DEF FailedOK
<1>2. QED
  BY <1>1, WithdrawInvariant, PTL

\* A proof the CLI makes is accepted until ROOT_HISTORY_SIZE leaves follow the
\* sync, unless the note is spent or its token delisted, for any number of runs
\* and any ring.
THEOREM FreshProofsAreAccepted == ClientSpec => []FreshProofsAccepted
<1>1. WithdrawInv => FreshProofsAccepted
  <2> SUFFICES ASSUME WithdrawInv, NEW s \in Sessions, session[s].source = "generate",
                      session[s].kind = "withdraw", session[s].pc \in {"refused", "done"}
               PROVE  \/ Nullifier(session[s].note) \in nullifierHashes
                      \/ session[s].note.token \notin admin.supportedTokens
                      \/ tree.nextIndex - LeavesUpTo(session[s].latest) >= ROOT_HISTORY_SIZE
    BY DEF FreshProofsAccepted, RefusedForAReason
  <2>1. WithdrawOK(s) /\ Decided(s)
    BY DEF WithdrawInv, Decided
  <2>2. QED
    BY <2>1 DEF WithdrawOK, Excused
<1>2. QED
  BY <1>1, WithdrawInvariant, PTL
===============================================================================
