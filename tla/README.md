# A formal model of DePLOB

DePLOB is a dark pool: traders deposit tokens into a pool contract behind a
commitment, send orders to a matching server that runs in an SGX enclave, and
the server settles matches on chain by spending both traders' notes and
inserting two new ones.  Withdrawals are made with a zero-knowledge proof.
This directory models the contract, the server and their clients in TLA+,
checks the models with TLC and proves some of the results with TLAPS.  The
paths below are relative to `src/`.

## Inventory

| Component | State | Operations | Talks to | Hard part |
|---|---|---|---|---|
| Merkle tree contract (`contracts/src/MerkleTreeWithHistory.sol`) | next index, one cached hash per level, ring of 30 roots | `_insert`, `isKnownRoot` | called by the pool | incremental hashing; ring wrap-around; full tree |
| Pool contract (`contracts/src/DePLOB.sol`) | spent nullifiers, commitments, token balances, owner's settings | `deposit`, `withdraw`, `settleMatch`, `registerEnclave`, owner's setters | clients, server, SP1 and DCAP verifiers, ERC20 tokens | replays, old roots, two insertions in one call, settings changed between calls |
| Order book and matching engine (`tee/src/orderbook`, `tee/src/matching`) | two price maps of queues, an id index | `add_order`, `remove_order`, pops, `run_matching` | called by the handlers | three maps to keep in agreement; partial fills re-enter the book in the loop |
| Request handlers (`tee/src/routes`, `state.rs`, `verification.rs`, `settlement`) | book, three order-tracking maps, stored notes, all behind one lock | submit, cancel, fetch a settlement | chain by RPC, clients by HTTP | requests interleave at every await; chain answers go stale; results are sent after the lock is released |
| Chain client (`tee/src/chain.rs`) | none | queries, `settle_match` | pool contract | sends may fail, a reverted transaction looks like a mined one |
| Attestation (`tee/src/attestation.rs`, start of `main.rs`) | the enclave's key, in memory and sealed in a file; the quote's report data | draw, seal, load, quote, sign | pool contract, SGX | crashes while the file is written; upgrades after which it cannot be read; keys replaced while settlements are in flight |
| Client (`cli/src`) | note files, the wallet's allowance, a proof file | deposit, order, cancel, settlement, withdraw | server, contract | note file written after the deposit; overlapping runs share wallet and files; proofs against a root that ages |
| Merkle library and indexer (`sp1-programs/lib/deplob-core`, `cli/src/indexer.rs`) | local copy of the tree | insert, proof, sync | contract's events | must compute the contract's roots; events fetched in chunks while leaves are inserted |
| Circuits (`sp1-programs/*/program`) | none | check a witness | contract's verifier | what a proof binds |

What makes each one correct:

* tree: every root is the root of all leaves so far; a root is accepted exactly
  while it is among the last `ROOT_HISTORY_SIZE`;
* pool: a note is spent at most once, settlements are all or nothing, the
  balances cover all unspent notes but for what callers claim without paying,
  and an unspent note can always be withdrawn;
* engine: the maps agree, the book is never left crossed, trades are at the best
  available prices and within limits, quantity is neither lost nor made up;
* server: the tracking maps match the book, every settlement is covered by the
  deposits it spends, requests are answered;
* attestation: the key that signs is never one that a crash loses, and the
  contract accepts no settlement of a build that was never trusted;
* client: a deposit that was paid for leaves its note behind, a sync ends with a
  tree the contract had or with an error, and a proof made against it is
  accepted while its root is known;
* system: whatever is interleaved, lost or restarted, the contract only makes
  steps of a shielded pool.

The hazards these are aimed at are listed with their lines in `PROJECT.json`.

## Modules

| Module | Models | State and actions |
|---|---|---|
| `MerkleTreeWithHistory` | the tree contract | one record `tree` = the contract's storage and its `LeafInserted` log; `Insert` = `_insert` |
| `RootWindow` | abstract tree: a growing sequence and the window of its recent versions | implemented by `MerkleTreeWithHistory` |
| `CoreMerkle` | the Rust tree of `deplob-core` (`merkle.rs`): `insert`, `proof`, `compute_root`, `verify` | operators on a tree record, one per method; checked on the copy of every tree the contract reaches |
| `OrderBook` | `orderbook/mod.rs` and the loop body of `matching/mod.rs` | operators from book to book, one per method |
| `MatchingEngine` | `add_and_match`, `run_matching`, removal | `Submit`, `MatchIteration` and `MatchReturn` (one loop iteration a step), `Cancel`; the history variable `doubled` has the ids submitted again while they rest |
| `Market` | abstract limit order market: live submissions without levels, queues or index | implemented by `MatchingEngine` |
| `DePLOB` | the pool contract, extends the tree | one action per external function; a revert is no step |
| `PoolCallers` | the pool under whoever may call it, extends `DePLOB` | `DepositBySomeone` of any commitment for any token and amount, `SettleBySomeone` of anything by the operator; the history variable `unbacked` adds up what they claimed without funds |
| `OpenPool` | abstract pool of callers nothing is known of: notes, spent secrets, funds, claims without funds | implemented by `PoolCallers` |
| `ShieldedPool` | abstract pool of backed notes: unspent notes and funds | what the contract does when it is fed by the server: steps of `Enclave` and `DarkPool` |
| `Tee` | the server's handlers, the mempool and the contract, extends `MatchingEngine` and `DePLOB` | one step per stretch of `submit_order` between awaits; other handlers are one step each; what may go wrong (`QueryFails`, `SignFails`, `SendFails`, `WatchFails`, `Disconnect`, `Restart`) are actions of their own |
| `DarkPool` | the system: clients, server, chain, faults, restarts | `Handler` is what a request does of itself, `Fault` what goes wrong with it |
| `Enclave` | `attestation.rs`, the start of `main.rs`, the quote route, with the contract; extends `DePLOB` | `boot` is how far `main` has come; `from_sealed` is `DrawKey`, `KeyWritten`, `LoadKey` or `Panic`, `write_report_data` is `Serve`; `Stop`, `Upgrade`, `DeleteKeyFile` are what happens to it; `SignSettlement` and `MineSettlement` put settlements in flight between all of these |
| `Client` | `deposit.rs`, `withdraw.rs`, `indexer.rs` of the CLI, with blocks, the mempool and the token's allowance; extends `DePLOB` and `CoreMerkle` | each session is a run of the program with a program counter: one action per stretch between awaits (`DepositBegins`, `SendDeposit`, `SaveBegins`, `SaveEnds`; `WithdrawBegins`, `FetchChunk`, `Rebuild`, `SendWithdraw`, `WithdrawEnds`), and `Dies` in any of them; `OthersDeposit` and `OwnerDelists` are what others do meanwhile |
| `MCCoreMerkle`, `MCMatching`, `MCPoolCallers`, `MCDarkPool`, `MCEnclave`, `MCClient` | TLC instances | |
| `MerkleTreeProofs` | proofs about the contract's tree and about the library's copy of it | |
| `MatchingProofs` | proofs about the order book and the engine, and that they implement `Market` | |
| `PoolProofs` | proofs about the pool whoever calls it, and that it implements `OpenPool` | |
| `EnclaveProofs` | proofs about keys, quotes and signatures | |
| `TeeProofs` | proofs about the server and the pool together | |
| `ClientProofs` | proofs about the sessions of the CLI: notes, syncs, withdrawals | |
| `FoldLemmas`, `LeftFolds` | induction as a fact about sets, sums over sets and sequences, and left folds of any operation: what the proof modules share | |

Abstractions shared by all modules:

* keccak256 is injective: a hash is what it was computed from.  A commitment is
  therefore its note `[nn, token, amount]`, where `nn` stands for the two random
  secrets, and a nullifier is `nn`;
* secrets are random: a new note has secrets no other note has;
* `deposit` checks no proof, so nothing ties a commitment to the token and the
  amount that are paid, and `settleMatch` accepts any commitments of the
  operator, unsigned while `requireAttestation` is not set.  `PoolCallers` has
  these callers, and its properties say what holds for all of them: what the
  pool cannot pay is what they claimed without funds (`unbacked`).  In `Client`,
  `Enclave` and `DarkPool` deposits are made as `cli/src/deposit.rs` makes them,
  with the note's own token and amount; there `Solvent` says that the pool can
  pay everybody;
* `bytes32(0)` is a leaf like any other: `deposit` and `_insert` accept it, and
  it leaves the root as it is.  It is no note, since nobody has its preimage;
* the runs about the funds of the whole system have one pair of tokens (see
  below, "Divergences");
* an order's id is computed from all its fields, so the same order has the same
  id again.  Nothing in the engine or in `submit_order` refuses an id that rests
  already: what it checks is the deposit's lock, which a partial fill releases;
* the root a client proves against is that of any version of the contract's
  tree, or of a tree of its own making (`Versions` in `Tee`);
* the timestamp of an order is its number in the order of submission.  The code
  takes seconds, and never reads them again.

The server's lock: `submit_order` holds the write lock of `TeeState` from
`PlaceOrder` to `Collect` with no await in between.  The matching loop is still
modelled one iteration a step, so that the engine's steps can be compared with
those of `Market`; `writer` keeps the other handlers out meanwhile.  The three
chain queries are separate steps because each is an await.

A note in the tree of `Client` was deposited by a session or by others, who pay
for what they claim; the wallet may run out, the tree may fill up, and the owner
may take the token off the list, for good: a token that is listed again is left
out.

`withdraw` takes the amount of the transfer in 256 bits and checks the proof
against its low 128 bits (`ProvedAmount`).  `Supply`, what there is of a token,
is below `UINT128`: with more, an amount of 2^128 or above would pass as its
remainder, and with less the transfer fails.  The model has both calls.

The server's own account sends settlements; `Enclave` lets the settlements of a
build wait while it is stopped, upgraded, its file deleted, other quotes are
registered, and the owner changes any setting.  What `Enclave` trades is any two
notes of different tokens: which ones the server may trade is the subject of
`Tee`.  The settlements of `Enclave` are signed by the sealed key; unsigned
ones, which the contract accepts while `requireAttestation` is not set, are
those of `PoolCallers` and of `SignFails` in `Tee`.

## Runs

All runs use two workers and finish well within five minutes.

| Run | Question | Bounds and why they are enough |
|---|---|---|
| `tree` | is each root the root of the whole tree, are exactly the recent roots accepted, and do the client's copy and its proofs agree with the contract? | depth 3, ring of 3, two leaves and `bytes32(0)`: fills the tree (8 leaves), and wraps the ring more than twice. Every left/right pattern of a path of the depth occurs; proofs are checked for all positions, and for everything a prover can put together of the tree's nodes |
| `matching` | is the book consistent and uncrossed, and does it implement a market? | 5 submissions out of 8 orders at 3 prices, the same one as often as one likes, cancels at any time: full fills, partial fills of either side, several makers in one call, a level with three orders, an id that rests twice or three times |
| `pool` | what can the contract pay and what can be withdrawn, whoever calls it, and does it implement the open pool? | 4 leaves, ring of 2, 2 tokens, notes of 2 secrets with amounts 1 and 2, and `bytes32(0)`: deposits that pay less than, as much as or more than they claim, or another token; settlements of unspent, unknown and equal nullifiers with any two commitments; secrets that occur in several notes; withdrawals of any amount up to a few more than 2^128 against any root there was, known or not; a tree with room for one leaf of a settlement and not for the second |
| `enclave` | which keys can sign, be registered and settle, over crashes, upgrades and the owner's calls? | 2 builds, 2 keys, two crashes (one may fall into the writing of the file), an upgrade, a deletion, any two calls of the owner and one settlement: enough for a key to be replaced by the owner, by a registration or by a new build while the settlement waits |
| `server` | do maps and book stay in step, does every settlement give out only what its deposits hold, and can the contract pay? | 3 requests, 3 orders of which one is filled in two parts, any interleaving with cancels, withdrawals and fetches |
| `server_edges` | is the arithmetic exact at its limits, and is every request answered? | 2 requests; 128 bits are 3 bits here (`UINT128 = 8`), with prices and quantities on both sides of the limits, zero quantities, and an order for the wrong token; requests with a stale or forged root; failing chain calls, none of which has to happen; fairness below |
| `server_faults` | what do a crash, a failed call and a deposit used twice do to the pool and to the maps? | one restart between any two steps, failing chain calls and signatures, clients that hang up. `FewOrSequential` bounds the requests: three for two orders, interleaved in every way (ids repeat, a deposit comes again after a partial fill), or four for three orders, two of them of one deposit, by clients who wait for one answer before they send the next |
| `client` | what becomes of notes, trees and proofs when runs of the CLI overlap and die? | 2 sessions of one wallet, 2 note files, 4 leaves, a proof made, loaded from a file that may not be there, or left out, a token that may be delisted, a ring of 2, chunks of 2 blocks, a window of 2 blocks, others filling blocks up to number 5: ranges of one and of several chunks, a start after the first leaf, a root that expires while the proof is made, two deposits that race for one allowance |

The `doc_*` runs each check one statement of a document or comment, and TLC
finds a behaviour of the code that contradicts it:

* `doc_one_order`: a partial fill unlocks the deposit while the rest of the
  order stays in the book, so a second order can be backed by it;
* `doc_delivery`: with two settlements of one deposit the stored note is the
  later one, the note on chain may be the earlier one;
* `doc_deposit_proof`: `deposit` verifies nothing, so the note a deposit commits
  to need not claim what was paid; `docs/04-operations.md:34-38` has the contract
  verify a proof of it;
* `doc_proof_file`: a proof read from the file given with `--proof` is sent with
  the root of a newer sync, so one insertion after the proof was made spoils it,
  not thirty.

Divergences met while modelling that have no run of their own:

* `docs/03-system-architecture.md:190-192` draws a book for each pair of tokens.
  The server has one, `has_crossing` compares prices only, and a sale of one
  token is matched with a purchase of another, each party being paid in what it
  asked for and not in what the other one gave (`CP4101-final.tex:895` says that
  a deployment is for one pair).  A settlement of that kind can claim a token
  that neither deposit holds, so what is said of the funds of the system
  (`SettlementsCovered`, `Solvent`, `PoolStepsOnly` of `DarkPool`) is said of
  orders of one pair;
* `docs/04-operations.md` orders a price level by timestamp, while what is left
  of a partly filled order is queued again behind younger ones.
  `FifoUnlessPartlyFilled` in the run `matching` says what holds instead;
* `docs/04-operations.md:303` and `tee/src/matching/mod.rs:29` call the ask's
  price the price of the resting order; the ask may be the incoming order;
* `docs/impl/06-order-creation.md:108` has all checks under one write lock;
  the three chain queries are made before it is taken (`Tee`);
* `docs/impl/11-sgx-tee.md:432` has a new key drawn at the next boot after a
  rotation; while the old file is there and cannot be read, `main` ends in
  `expect` (`Panic` in `Enclave`), which is why `OneKeyUntilDeleted` holds.

`Enclave`, `DarkPool` and `Client` also show how much is promised when things go wrong:

* a key drawn before a crash in the middle of the write is lost together with
  the file, but it has signed nothing and no quote names it (`SignerIsSealed`);
* `PaidNotesKept` states the ways in which the note of a paid deposit can be
  missing: the session died before it had written the file, or another deposit
  was saved to the same file, `deposit_note.json` by default;
* `SavedNotesPaid` states when a note is saved that was never paid for: while
  its deposit was waiting to be mined, a block changed what the estimate had
  gone by: the wallet's balance or allowance, the listing of the token, or the
  room in the tree.  `watch()` returns the hash of a failed transaction like that
  of any other;
* `BookConsistent` states what becomes of the index when an order is submitted
  again while it rests, which a partial fill makes possible: both rest under
  one entry, the first that is filled or cancelled removes the entry
  (`orderbook/mod.rs:86`, `:101`), and the other one can trade but not be
  cancelled.  `doubled` has the ids of which that is so, and no others;
* `LockedDepositsBackOrders` states what the maps of `state.rs:16` keep when a
  deposit is used twice: a partial fill releases the lock of the deposit, a second
  order may be placed on it, and the next trade of the first order's rest releases
  the lock again (`routes/orders.rs:271`).  The second order is then in the book
  and in `order_details`, and cannot be cancelled any more.  It takes four
  requests.  As long as a deposit is locked, its owner can cancel: the index
  knows the order and says where it rests;
* `SyncedTreeIsAVersion`: a sync over any chunks, with insertions between them,
  either ends with the tree of the block it started from or fails its assertion
  on the leaf's index, which is what a start block after the first leaf causes.

The settlements that the contract then reverts are the reason `Solvent` and
`PoolStepsOnly` hold all the same: the double use of a deposit ends at its
nullifier.  A partly filled deposit's remainder therefore cannot settle.

`MaxOrders` (submissions), `MaxRestarts` and the set `Requests` are the bounds
of the server's models; `MaxRestarts`, `MaxUpgrades`, `MaxDeletions`,
`MaxOwnerCalls` and `MaxSettlements` those of `Enclave`; `Sessions`, `Files` and
`MaxHead` those of `Client`.  The runs with `CHECK_DEADLOCK FALSE` are of systems that really
stop there: all requests answered, the tree full, all notes spent, all sessions
ended or the bounds used up.  Requests
are interchangeable, so the safety runs use their permutations as symmetry; the
run with a liveness property does not.

## Fairness

* `MatchingEngine`: weak fairness of the loop, which waits for nothing.
* `DarkPool`: weak fairness of each request's `Handler` (the runtime polls every
  task that can go on, and no request waits in line for ever since the lock is
  a queue and its holders do not await anything), and of mining (a transaction
  sent is mined).  Nothing is assumed of clients, of the owner or of faults:
  `Fault` and `Disconnect` are no part of `Handler`, so no request is answered
  because a call had to fail.  A request whose settlement is pending is answered
  because it is mined.
* `Enclave` and `Client` state no fairness: nothing in the repository starts the
  server again after a crash or deletes a key file it cannot read, and a run of
  the CLI may be killed at any time.

## Proofs

Every safety property and every refinement that a passing run checks is also a
theorem, for every value of the constants: any depth and ring size, any orders
and number of requests, any deposits, builds, keys and restarts, any sessions,
files, chunks and windows of the client, any order of faults.

| Module | Proves, of every reachable state or step |
|---|---|
| `MerkleTreeProofs` | `TreeTypeOK`, `RingHoldsRecentRoots`, `RootIsReference`, `RootsIdentifyLeaves`, `KnownIffRecent`; `ImplementsRootWindow`; `CopyHasContractRoot`, `ProofsIdentifyLeaves`, `NoProofOfAbsentLeaf` |
| `MatchingProofs` | `EngineTypeOK`, `BookConsistent`, `NotCrossedWhenIdle`, `FifoUnlessPartlyFilled`, `BestPriceFirst`, `SubmittedQuantityAccountedFor`; `ImplementsMarket` |
| `PoolProofs` | `PoolTypeOK`, `SolventButForUnbacked`, `UnspentNotesPayable`; `ImplementsOpenPool`, all under `CallersSpec` |
| `EnclaveProofs` | `SignerIsSealed`, `OneKeyUntilDeleted`, `SettledUnderTrust` |
| `TeeProofs` | `TeeTypeOK`, `BookConsistent`, `LockedDepositsBackOrders`, `PaymentsExact`; `Solvent`, `SettlementsCovered` and `PoolStepsOnly` of the whole system |
| `ClientProofs` | `ClientTypeOK`, `PaidNotesKept`, `SavedNotesPaid`, `SyncedTreeIsAVersion`, `SyncFindsTheNote`, `FreshProofsAccepted` |

### Assumptions

The constants satisfy the assumption of the module that declares them, and
TLC evaluates each on its runs.

* `TreeAssumption`: the depth and the ring size are positive.  A hash is the pair
  it was computed from, and zero is not a pair.
* `PowersOfTwo`: `2 ^ 0 = 1` and `2 ^ (n + 1) = 2 * 2 ^ n` up to the depth,
  because the provers know nothing of `^`.
* `PoolAssumption`: a token's supply fits in 128 bits, and amounts are positive.
* `OrdersAssumption`, `OrderIdAssumption`: an order is known by its id, which the
  server computes from all the rest of the order.
* `DepositsAssumption`: the deposits the system begins with are notes with
  different secrets, as many as fit in the tree and no more than there are tokens.
* `ClientAssumption`: chunks have at least one block; the random secrets of a
  deposit are the number of its session, and these numbers are none of the
  secrets of others' notes; a file that is torn or empty is no note.
* `HistoryAssumption`: the deposits made before the first session have secrets of
  their own, are paid for, and lie in blocks of ascending numbers.
* `SecretsAssumption`: notes of any secret, token and amount are leaves.
* `OnePairTraded`, a hypothesis of the theorems about the system's funds: one
  token is bought and sold for one other.  It cannot be dropped: the server
  matches orders of different pairs, which leaves a settlement uncovered.

### Arguments

*The tree.*  The ring's index is the number of insertions modulo its size, so
version `k` sits in slot `k mod H`; an insertion overwrites the slot of the one
version that leaves the window, because versions less than `H` apart have
different remainders.  The inductive invariant of the hashing (`HashOK`) says of
the cache what no property says: wherever the way up from the *next* leaf goes
right, the level's entry is the complete node to its left in the whole tree
(`CacheOK`).  With it the hashes of one insertion are nodes of the tree with one
leaf more (`PathIsInTree`), and the cache is kept (`CacheKept`); nodes whose
leaves are all there do not change, and nodes without leaves are empty subtrees.
So each version's root is the reference root of its leaves.  Two sequences of
leaves with one root are the same, level by level, since a hash determines its
pair, but for zero leaves at their ends; with that a root names its leaves,
`isKnownRoot` accepts exactly the leaves of recent versions, and every insertion
is a step of `RootWindow`.

*The copy.*  The library's loop makes the hashes of the contract's insertion
(`LoopIsPath`), so the same invariant holds of a copy rebuilt leaf by leaf.  The
sequences of nodes that `proof` builds are the levels of the whole tree
(`NodesAreTree`), so the walk of `compute_root` from the right leaf passes
through it.  The other direction goes down from the root: whatever siblings are
given, a walk that ends in the root passes through the tree, and the path's bits
add up to the position it starts from (`WalkIsInTree`).

*The engine.*  The invariant is stated of values, so that a step is a lemma.  It
says that submissions, told apart by their timestamps, lie in the levels of
their side and price, each once (`BookOK`), that the index finds what it knows
and knows all that rests but for the ids in `doubled` (`IndexOK`), which orders
may stand behind younger ones (`BookFifo`), and of a call in progress which order
was submitted last, how far it is filled and that its trades went from the best
price on (`CallOf`).  Conservation of quantity is a sum over the trades.

*The pool.*  Whoever calls it (`CallersInv`), commitments are the leaves, and what
the unspent notes claim is a sum over a set that one call changes by what it
brings and takes: a deposit adds no more to it than to the vault and to
`unbacked` together, a settlement replaces summands by others and adds the excess
to `unbacked`, a withdrawal removes all notes of its secret and pays one of them.
Two notes may share their secret here, and one of them may be committed to only
after the other was spent; neither is paid twice.  `PoolInv` is the invariant of
a pool whose deposits were what they claim, for `EnclaveProofs`, `TeeProofs` and
`ClientProofs`: there a leaf's secret is its own, and the vault covers all
unspent notes.

*The enclave.*  The invariant says there is one function, `origin`, that gives
for each key the build it was drawn in, and that file, quotes, signatures and
registration all agree with it.  That is what ties a signature to the quote its
key was registered with, however many restarts and upgrades lie between.

*The system.*  `ServerInv(good)` says that all orders in requests, book and maps
are among the `good` ones, and has the engine's `BookOK` and `IndexOK` of the
server's book, which `submit_order` drives without looking at ids.  With `good` the orders that pass verification
(`Covered`) it gives the properties of maps and payments.  With the orders whose
deposit is in the tree (`Owned(LeafSet)`), and with `PoolInv` and `FundsOK`, it is
the invariant of the funds: the settlements in hands of requests and in the
mempool exchange two notes fairly, are each sent once, and have new secrets of
their own.  A settlement is then an exchange of two notes for two or reverts,
whatever is lost, delayed or restarted.  TLC checked each of these invariants on
the instances of the runs before it was proved.

*The client's notes.*  `ClientInv` says what each session waits for (its one
transaction in the mempool, or a block), that a commitment with a session's
secrets was made by that session, and that the secrets of a paid deposit are in
the program until its file is written.  For `SavedNotesPaid` it says of a deposit
that no block has overtaken that all its estimate saw is still there when it is
mined (`EstimateHolds`, `BlockKeepsEstimate`).

*The client's syncs and proofs.*  `WithdrawInv` adds the contract's invariant and
what a sync has so far.  Mining only adds leaves in new blocks (`Advances`), so
how many leaves there are up to a block that exists never changes, and what was
fetched stays a slice of the events (`FetchOK`).  The slice of the next chunk
begins where the last one ended (`FetchedEvents`, `EventsJoin`), and sorting
events that are in order changes nothing (`SortedStays`).  A rebuild that passes
its assertions is therefore the version of the latest block: its copy has the
contract's root (`CopyRebuilt`) and its proof verifies (`ProofVerifies`), which
is `SyncedTreeIsAVersion`; a rebuild that fails started after the first leaf or
found no note (`FailedOK`).  While that version is among the recent ones its root
is known (`IdentifyingRoots`, `KnownIfIdentified`), so if the note is unspent and
its token listed the contract accepts the withdrawal, and has the funds for it because the pool is
solvent (`FreshSucceeds`, `NoNoteStuck`).  That a note is spent, its token delisted or a
version expired, once true, stays true (`ReasonStays`), which carries the reason of a
refusal to every later state.  Nothing of this is claimed of a proof loaded from a
file: the run `doc_proof_file` shows what happens to it.

*Induction and folds.*  An induction is a set of numbers that contains 0 and is
closed under successor (`SetInduction`), which in turn follows from the
well-foundedness of `<`.  Recursive functions (`Zeros`, `PathHashes`,
`ReferenceRoot`, the loops of the library) are shown to exist before they are
unfolded.  A fold over a set does not depend on the order (`SumRemoved`,
`SumAdded`), and a left fold over a sequence of one element more is one operation
more (`LeftFolds`, instantiated for the deposits of a pool, for the tree and for
the notes the server stores).

### Only model-checked

* Liveness under fairness, which is out of the provers' reach: `MatchingEnds` and
  `RequestsAnswered`.
* The statements the `doc_*` runs refute.

## Not modelled

* The deposit circuit: the contract verifies no deposit proof, so the program
  takes no part in the running system.
* The test token and the deployment scripts: one-off set-up.
* HTTP routing, argument parsing and the generator of test data: pure input and
  output.
* Byte encodings (the packing of the public values, endianness of amounts,
  padding of addresses).  A hash or a set of public values is what went into it.
  Of the withdrawn amount its width is modelled.
* The inside of ERC20 tokens, of the SP1 and DCAP verifiers and of SGX, which the
  modules take as the code uses them; the mock proof and mock attestation of the
  tests.
* Reorganisations of the chain; a block has at most one transaction.
* The thirty roots, 10,000 and 50,000 blocks and depth 20 of the code are
  constants of the modules; TLC runs small values.

## Plan

1. An abstract specification of the server (each deposit backs at most one
   settlement that takes effect) implemented by `DarkPool`.
2. `Encoding`: the packing of public values and messages, as far as two
   different values could share one encoding.
