---------------------------------- MODULE Tee ----------------------------------
(***************************************************************************)
(* The handlers of the TEE server (tee/src/routes/orders.rs and            *)
(* settlements.rs over tee/src/state.rs, verification.rs and               *)
(* settlement/mod.rs), the chain they talk to (chain.rs), and the pool     *)
(* contract at the other end.                                              *)
(*                                                                         *)
(* submit_order runs as a process per request, one step per stretch between*)
(* two awaits; it holds the write lock of TeeState from PlaceOrder to      *)
(* Collect.  A settlement sent to the chain waits in the mempool until it  *)
(* is mined, where the contract accepts it or reverts it.  What may go     *)
(* wrong besides (a query, a signature, a call, a client, the server) are  *)
(* actions of their own, so that nothing has to go wrong.                  *)
(***************************************************************************)
EXTENDS MatchingEngine, DePLOB

CONSTANTS Requests,            \* calls of POST /v1/orders
          EnclaveKey,          \* the key this enclave signs settlements with
          Faults               \* whether chain calls, signing and clients may fail

ASSUME RequestsAssumption == NONE \notin Requests /\ Faults \in BOOLEAN

VARIABLES lockedDeposits,      \* nullifier -> order id
          orderToDeposit,      \* order id -> nullifier
          orderDetails,        \* order id -> entry
          settlements,         \* old nullifier -> new note
          writer,              \* the request that holds the write lock, or NONE
          pc, order,           \* per request: where it is, its order
          version,             \* per request: whose root it proved its deposit against
          outbox,              \* per request: the settlements it has yet to send
          mempool,             \* settleMatch transactions sent and not mined
          minted               \* notes generated so far

bookVars == << book, matching, trades, clock, doubled >>
mapVars  == << lockedDeposits, orderToDeposit, orderDetails, settlements >>
callVars == << pc, order, version, outbox >>
teeVars  == << bookVars, mapVars, writer, callVars, mempool, minted >>

TeeInit ==
  /\ EngineInit
  /\ lockedDeposits = EmptyMap /\ orderToDeposit = EmptyMap
  /\ orderDetails = EmptyMap /\ settlements = EmptyMap
  /\ writer = NONE
  /\ pc = [r \in Requests |-> "idle"]
  /\ order = [r \in Requests |-> NONE]
  /\ version = [r \in Requests |-> NONE]
  /\ outbox = [r \in Requests |-> << >>]
  /\ mempool = {}
  /\ minted = 0

-------------------------------------------------------------------------------
(* Verification of a request *)

\* keccak256 of the nullifier and every parameter of the order.
OrderId(o) == << Nullifier(o.deposit), o.side, o.price, o.quantity, o.tokenIn, o.tokenOut >>

ASSUME OrderIdAssumption ==
  \A o \in Orders : {"deposit", "tokenIn", "tokenOut"} \subseteq DOMAIN o /\ o.id = OrderId(o)

\* The roots a request may prove its deposit against: that of the tree after k
\* insertions, which is not the current one if the client has not synced since,
\* and NONE for that of a tree of the client's own making.
Versions == 0 .. tree.nextIndex \cup {NONE}

\* The Merkle proof leads from the deposit to the root of the request.
OwnsDeposit(o, k) == k = NONE \/ \E i \in 1 .. k : tree.log[i].leaf = o.deposit

Required(o) == IF o.side = "sell" THEN o.quantity ELSE o.quantity * o.price

\* Mutant of CoversOrder: the cost of a purchase wraps around instead of being
\* refused.
CoversOrderWrapping(o) ==
  o.deposit.token = o.tokenIn /\ Required(o) % UINT128 <= o.deposit.amount

CoversOrder(o) ==
  /\ o.deposit.token = o.tokenIn
  /\ Required(o) < UINT128               \* checked_mul, else PriceOverflow
  /\ Required(o) <= o.deposit.amount

RequestValid(o, k) == o.price > 0 /\ o.quantity > 0 /\ OwnsDeposit(o, k) /\ CoversOrder(o)

-------------------------------------------------------------------------------
(* POST /v1/orders up to the write lock *)

Goto(r, step) == pc' = [pc EXCEPT ![r] = step]

\* A request that does not verify is refused at once.
Receive(r, o, k) ==
  /\ pc[r] = "idle"
  /\ order' = [order EXCEPT ![r] = o]
  /\ Goto(r, IF RequestValid(o, k) THEN "commitment" ELSE "rejected")
  /\ version' = [version EXCEPT ![r] = IF RequestValid(o, k) THEN k ELSE NONE]
  /\ UNCHANGED << poolVars, bookVars, mapVars, writer, outbox, mempool, minted >>

\* The views of the contract that AlloyChainClient calls.
IsCommitmentKnown(commitment) == commitment \in commitments
IsNullifierSpent(nullifier)   == nullifier \in nullifierHashes
IsRootKnown(k)                == k # NONE /\ IsKnownRoot(tree, RootAfter(tree, k))

\* A request goes on without its Merkle root.
Leave(r, step) == Goto(r, step) /\ version' = [version EXCEPT ![r] = NONE]

\* One chain query: go on if the answer is the one wanted.  The root is the last.
ChainCheck(r, here, wanted, next) ==
  /\ pc[r] = here
  /\ IF wanted /\ next # "lock"
     THEN Goto(r, next) /\ UNCHANGED version
     ELSE Leave(r, IF wanted THEN next ELSE "rejected")
  /\ UNCHANGED << poolVars, bookVars, mapVars, writer, order, outbox, mempool, minted >>

CheckCommitment(r) == ChainCheck(r, "commitment", IsCommitmentKnown(order[r].deposit), "nullifier")
CheckNullifier(r) ==
  ChainCheck(r, "nullifier", ~IsNullifierSpent(Nullifier(order[r].deposit)), "root")
CheckRoot(r) == ChainCheck(r, "root", IsRootKnown(version[r]), "lock")

\* The query itself fails, which ends the request as well.
QueryFails(r) ==
  /\ Faults
  /\ pc[r] \in {"commitment", "nullifier", "root"}
  /\ Leave(r, "rejected")
  /\ UNCHANGED << poolVars, bookVars, mapVars, writer, order, outbox, mempool, minted >>

-------------------------------------------------------------------------------
(* Under the write lock *)

DepositLocked(o) == Nullifier(o.deposit) \in DOMAIN lockedDeposits

RefuseLocked(r) ==
  /\ pc[r] = "lock" /\ writer = NONE
  /\ DepositLocked(order[r])
  /\ Goto(r, "rejected")
  /\ UNCHANGED << poolVars, bookVars, mapVars, writer, order, version, outbox, mempool, minted >>

PlaceOrder(r) ==
  LET o == order[r]
      entry == Entry(o, clock)
  IN  /\ pc[r] = "lock" /\ writer = NONE
      /\ ~DepositLocked(o)
      /\ lockedDeposits' = Put(lockedDeposits, Nullifier(o.deposit), o.id)
      /\ orderToDeposit' = Put(orderToDeposit, o.id, Nullifier(o.deposit))
      /\ orderDetails' = Put(orderDetails, o.id, entry)
      /\ AddAndMatch(entry)
      /\ clock' = clock + 1
      /\ writer' = r
      /\ Goto(r, "matching")
      /\ UNCHANGED << poolVars, settlements, order, version, outbox, mempool, minted >>

MatchUnderLock(r) ==
  /\ pc[r] = "matching"
  /\ MatchIteration
  /\ UNCHANGED << poolVars, mapVars, writer, callVars, mempool, minted >>

\* New notes get secrets nobody has: numbers above every deposit's.
NewNote(n, token, amount) == Note(MAX_LEAVES + n, token, amount)

SaturatingMul(a, b) == IF a * b < UINT128 THEN a * b ELSE UINT128 - 1

\* Mutant of GenerateSettlement: the seller is paid for the whole order.
GenerateSettlementWhole(trade, n) ==
  Settlement(Nullifier(trade.buy.deposit), Nullifier(trade.sell.deposit),
             NewNote(n + 1, trade.buy.tokenOut, trade.quantity),
             NewNote(n + 2, trade.sell.tokenOut, SaturatingMul(trade.sell.quantity, trade.price)))

\* The new notes of both parties of a trade, the (n+1)st and the (n+2)nd.
GenerateSettlement(trade, n) ==
  Settlement(Nullifier(trade.buy.deposit), Nullifier(trade.sell.deposit),
             NewNote(n + 1, trade.buy.tokenOut, trade.quantity),
             NewNote(n + 2, trade.sell.tokenOut, SaturatingMul(trade.quantity, trade.price)))

Batch == [i \in 1 .. Len(trades) |-> GenerateSettlement(trades[i], minted + 2 * (i - 1))]

\* Mutant of TradedDeposits: only the buyers' deposits are released.
TradedDepositsOfBuyers == { Nullifier(trades[i].buy.deposit) : i \in 1 .. Len(trades) }

TradedDeposits ==
  UNION { { Nullifier(trades[i].buy.deposit), Nullifier(trades[i].sell.deposit) } : i \in 1 .. Len(trades) }
TradedIds == UNION { { trades[i].buy.id, trades[i].sell.id } : i \in 1 .. Len(trades) }

\* The notes stored for a deposit: for each settlement of the batch first the
\* buyer's, then the seller's, a later one replacing an earlier one.
StoreNotes(stored, batch) ==
  FoldLeft(LAMBDA map, s : Put(Put(map, s.buyerOld, s.buyerNew), s.sellerOld, s.sellerNew), stored, batch)

\* A tracking map without the traded keys.
Unlock(map, keys) == [k \in DOMAIN map \ keys |-> map[k]]

\* The loop is over: forget the traded orders, store the new notes, release the
\* lock with the settlements in hand.
Collect(r) ==
  /\ pc[r] = "matching"
  /\ MatchReturn
  /\ lockedDeposits' = Unlock(lockedDeposits, TradedDeposits)
  /\ orderToDeposit' = Unlock(orderToDeposit, TradedIds)
  /\ orderDetails' = Unlock(orderDetails, TradedIds)
  /\ settlements' = StoreNotes(settlements, Batch)
  /\ outbox' = [outbox EXCEPT ![r] = Batch]
  /\ minted' = minted + 2 * Len(trades)
  /\ writer' = NONE
  /\ Goto(r, "settling")
  /\ UNCHANGED << poolVars, order, version, mempool >>

-------------------------------------------------------------------------------
(* Sending the settlements, outside the lock *)

\* The first settlement in hand goes to the chain.
Send(r, attestation) ==
  /\ pc[r] = "settling" /\ outbox[r] # << >>
  /\ mempool' = mempool \cup {[settlement |-> Head(outbox[r]), attestation |-> attestation]}
  /\ Goto(r, "watching")
  /\ UNCHANGED << poolVars, bookVars, mapVars, writer, order, version, outbox, minted >>

SendSettlement(r) == Send(r, Signed(EnclaveKey, Head(outbox[r])))

\* Signing fails: the settlement is sent with no attestation.
SignFails(r) == Faults /\ Send(r, Unsigned)

\* settle_match returns an error; it is logged and the next one is tried.
SendFails(r) ==
  /\ Faults
  /\ pc[r] = "settling" /\ outbox[r] # << >>
  /\ outbox' = [outbox EXCEPT ![r] = Tail(@)]
  /\ UNCHANGED << poolVars, bookVars, mapVars, writer, pc, order, version, mempool, minted >>

\* Mutant of Watched: go on only once the settlement has taken effect.
WatchedAccepted(r) ==
  /\ pc[r] = "watching"
  /\ Head(outbox[r]).buyerNew \in commitments
  /\ outbox' = [outbox EXCEPT ![r] = Tail(@)]
  /\ Goto(r, "settling")
  /\ UNCHANGED << poolVars, bookVars, mapVars, writer, order, version, mempool, minted >>

\* The request goes on with the next settlement.
NextSettlement(r) ==
  /\ pc[r] = "watching"
  /\ outbox' = [outbox EXCEPT ![r] = Tail(@)]
  /\ Goto(r, "settling")
  /\ UNCHANGED << poolVars, bookVars, mapVars, writer, order, version, mempool, minted >>

\* The watched transaction has been mined, accepted or reverted alike.
Watched(r) ==
  /\ NextSettlement(r)
  /\ \A tx \in mempool : tx.settlement # Head(outbox[r])

\* Watching it fails while it is still pending, which is only logged.
WatchFails(r) == Faults /\ NextSettlement(r)

Reply(r) ==
  /\ pc[r] = "settling" /\ outbox[r] = << >>
  /\ Goto(r, "accepted")
  /\ UNCHANGED << poolVars, bookVars, mapVars, writer, order, version, outbox, mempool, minted >>

\* The client hangs up, and the server drops the handler at the await it is at.
Disconnect(r) ==
  /\ Faults
  /\ pc[r] \in {"commitment", "nullifier", "root", "lock", "settling", "watching"}
  /\ Leave(r, "lost")
  /\ outbox' = [outbox EXCEPT ![r] = << >>]
  /\ UNCHANGED << poolVars, bookVars, mapVars, writer, order, mempool, minted >>

\* The chain executes a transaction, in any order; a revert only uses it up.
Mine(tx) ==
  /\ mempool' = mempool \ {tx}
  /\ IF SettleAccepted(admin.teeOperator, tx.settlement, tx.attestation)
     THEN SettleMatch(admin.teeOperator, tx.settlement, tx.attestation)
     ELSE UNCHANGED poolVars
  /\ UNCHANGED << bookVars, mapVars, writer, callVars, minted >>

-------------------------------------------------------------------------------
(* The other handlers, each one step under the lock *)

\* DELETE /v1/orders/:id by the holder of the deposit.
CancelOrder(o) ==
  /\ writer = NONE
  /\ DepositLocked(o)
  /\ lockedDeposits[Nullifier(o.deposit)] = o.id
  /\ Cancel(o.id)
  /\ lockedDeposits' = Without(lockedDeposits, Nullifier(o.deposit))
  /\ orderToDeposit' = Without(orderToDeposit, o.id)
  /\ orderDetails' = Without(orderDetails, o.id)
  /\ UNCHANGED << poolVars, settlements, writer, callVars, mempool, minted >>

\* GET /v1/settlements/:nullifier: the note the server has for a deposit.
SettlementFor(nullifier) ==
  IF writer = NONE /\ nullifier \in DOMAIN settlements THEN {settlements[nullifier]} ELSE {}

\* The server process dies and starts again: all of TeeState is in memory, and
\* every request in flight is lost.  What the chain has been sent stays sent.
Restart ==
  /\ book' = EmptyBook /\ matching' = FALSE /\ trades' = << >> /\ doubled' = {}
  /\ lockedDeposits' = EmptyMap /\ orderToDeposit' = EmptyMap
  /\ orderDetails' = EmptyMap /\ settlements' = EmptyMap
  /\ writer' = NONE
  /\ pc' = [r \in Requests |-> IF pc[r] = "idle" THEN "idle" ELSE "lost"]
  /\ version' = [r \in Requests |-> NONE]
  /\ outbox' = [r \in Requests |-> << >>]
  /\ UNCHANGED << poolVars, clock, order, mempool, minted >>
===============================================================================
