-------------------------------- MODULE DarkPool --------------------------------
(***************************************************************************)
(* The whole system: clients with deposits (cli/src), the TEE server that  *)
(* matches their orders, and the pool contract that holds their tokens.    *)
(* Clients submit and cancel orders, fetch the notes of their settlements  *)
(* and withdraw notes, at any time and in any order.                       *)
(***************************************************************************)
EXTENDS Tee

CONSTANTS InitialDeposits,     \* the deposits made before the first order, in order
          RequireAttestation,  \* the owner's setting
          MaxRestarts          \* bound on restarts of the server

\* Notes with different secrets that the contract accepted, one after the other.
ASSUME DepositsAssumption ==
  /\ InitialDeposits \in Seq([nn : 1 .. MAX_LEAVES, token : Tokens, amount : Nat \ {0}])
  /\ Len(InitialDeposits) <= MAX_LEAVES
  /\ \A i, j \in 1 .. Len(InitialDeposits) : InitialDeposits[i].nn = InitialDeposits[j].nn => i = j
  /\ \A token \in Tokens : FundsOf(InitialDeposits)[token] <= Supply

VARIABLES saved,               \* the notes clients have in a file
          restarts

sysVars == << poolVars, teeVars, saved, restarts >>

DepositSet == { InitialDeposits[i] : i \in 1 .. Len(InitialDeposits) }

\* The pool as those deposits leave it, its owner having listed the tokens
\* and set the enclave's key.
DarkPoolInit ==
  /\ PoolHolding(InitialDeposits)
  /\ admin = [Deployed EXCEPT !.supportedTokens = Tokens, !.enclaveSigningKey = EnclaveKey,
                              !.requireAttestation = RequireAttestation]
  /\ TeeInit
  /\ saved = DepositSet
  /\ restarts = 0

\* The steps of one request of submit_order.
Handler(r) ==
  \/ CheckCommitment(r)
  \/ CheckNullifier(r)
  \/ CheckRoot(r)
  \/ RefuseLocked(r)
  \/ PlaceOrder(r)
  \/ MatchUnderLock(r)
  \/ Collect(r)
  \/ SendSettlement(r)
  \/ Watched(r)
  \/ Reply(r)

\* What may go wrong with a request.
Fault(r) ==
  \/ QueryFails(r)
  \/ SignFails(r)
  \/ SendFails(r)
  \/ WatchFails(r)

ClientOrders ==
  \E r \in Requests, o \in Orders, k \in Versions :
    Receive(r, o, k) /\ UNCHANGED << saved, restarts >>

ClientCancels == \E o \in Orders : CancelOrder(o) /\ UNCHANGED << saved, restarts >>

\* cli/src/settlement.rs: fetch and save the new note of a note one has.
ClientFetches ==
  /\ \E note \in saved : saved' = saved \cup SettlementFor(Nullifier(note))
  /\ UNCHANGED << poolVars, teeVars, restarts >>

\* cli/src/withdraw.rs: withdraw a saved note against the current root.
ClientWithdraws ==
  /\ \E note \in saved : Withdraw(note, GetLastRoot(tree), note.amount)
  /\ UNCHANGED << teeVars, saved, restarts >>

ServerRuns == \E r \in Requests : Handler(r) /\ UNCHANGED << saved, restarts >>

CallsFail == \E r \in Requests : Fault(r) /\ UNCHANGED << saved, restarts >>

ClientHangsUp == \E r \in Requests : Disconnect(r) /\ UNCHANGED << saved, restarts >>

ChainMines == \E tx \in mempool : Mine(tx) /\ UNCHANGED << saved, restarts >>

ServerRestarts ==
  /\ restarts < MaxRestarts
  /\ restarts' = restarts + 1
  /\ Restart
  /\ UNCHANGED saved

DarkPoolNext ==
  \/ ClientOrders
  \/ ClientCancels
  \/ ClientFetches
  \/ ClientWithdraws
  \/ ClientHangsUp
  \/ ServerRuns
  \/ CallsFail
  \/ ChainMines
  \/ ServerRestarts

\* The runtime polls every request that can go on, and the chain mines what it
\* was sent.  Nothing is assumed of the clients, and no fault has to happen.
Fairness ==
  /\ \A r \in Requests : WF_sysVars(Handler(r) /\ UNCHANGED << saved, restarts >>)
  /\ WF_sysVars(ChainMines)

DarkPoolSafety == DarkPoolInit /\ [][DarkPoolNext]_sysVars

DarkPoolSpec == DarkPoolSafety /\ Fairness

-------------------------------------------------------------------------------
(* What is checked *)

\* Where the orders a deposit backs rest in the book.
Backed(deposit) ==
  { << "buy", p >> : p \in { q \in Positions(book.bids) : At(book.bids, q).deposit = deposit } }
    \cup
  { << "sell", p >> : p \in { q \in Positions(book.asks) : At(book.asks, q).deposit = deposit } }

\* The settlements generated and not mined yet.
InFlight == { tx.settlement : tx \in mempool } \cup UNION { ToSet(outbox[r]) : r \in Requests }

\* Type correctness of the server's state: the lock is held by the request that
\* is matching, and only then is a matching loop in progress.
TeeTypeOK ==
  /\ \A r \in Requests : pc[r] = "matching" <=> writer = r
  /\ matching <=> (writer # NONE)
  /\ \A r \in Requests : outbox[r] # << >> => pc[r] \in {"settling", "watching"}
  /\ FiledCorrectly(book) /\ NoEmptyLevel(book)

\* A locked deposit backs the order it is locked for: both other maps have the
\* order, and outside a matching loop it rests in the book where the index says, so
\* that its owner can cancel it.  What else the maps hold are orders of deposits
\* that were traded by another order of theirs, which released them.
LockedDepositsBackOrders ==
  /\ DOMAIN orderDetails = DOMAIN orderToDeposit
  /\ \A d \in DOMAIN lockedDeposits :
       LET id == lockedDeposits[d]
       IN  /\ id \in DOMAIN orderToDeposit /\ orderToDeposit[id] = d
           /\ Nullifier(orderDetails[id].deposit) = d
           /\ ~matching => /\ id \in DOMAIN book.index
                           /\ \E e \in Resting(book) :
                                /\ e.id = id /\ Nullifier(e.deposit) = d
                                /\ book.index[id] = << e.side, e.price >>
  /\ \A id \in DOMAIN orderToDeposit :
       LET d == orderToDeposit[id]
       IN  (d \in DOMAIN lockedDeposits /\ lockedDeposits[d] = id) \/ d \in DOMAIN settlements

\* A settlement never gives out more of a token than its two deposits hold, so
\* the contract stays solvent whatever becomes of the settlements in flight.
SettlementsCovered ==
  \A s \in InFlight :
    LET old == { d \in DepositSet \cup saved \cup LeafSet : Nullifier(d) \in {s.buyerOld, s.sellerOld} }
    IN  \A token \in Tokens :
          PoolView!Claim(s.buyerNew, token) + PoolView!Claim(s.sellerNew, token)
            <= FoldSet(LAMBDA d, sum : sum + PoolView!Claim(d, token), 0, old)

\* The seller is paid exactly quantity times price: the saturating product of
\* generate_settlement never saturates, verification having bounded the cost.
PaymentsExact ==
  \A i \in 1 .. Len(trades) : trades[i].quantity * trades[i].price < UINT128

\* A request is answered, unless the server goes down or its client hangs up
\* meanwhile.
Answered == {"accepted", "rejected", "lost"}
RequestsAnswered ==
  \A r \in Requests : pc[r] \notin {"idle"} \cup Answered ~> pc[r] \in Answered

-------------------------------------------------------------------------------
(* What comments and documents say of the system and the code does not do *)

\* tee/src/state.rs:14, "prevents the same deposit backing two orders".
OneOrderPerDeposit == \A d \in DepositSet \cup saved : Cardinality(Backed(d)) <= 1

\* tee/src/settlement/mod.rs:49-50, "the new preimages must be delivered back to
\* users": a note a settlement put on chain is one its owner has, or can fetch.
SettledNotesDeliverable ==
  \A note \in LeafSet : note \in saved \/ \E d \in DOMAIN settlements : settlements[d] = note
===============================================================================
