---------------------------- MODULE MatchingEngine ----------------------------
(***************************************************************************)
(* tee/src/matching/mod.rs as a state machine over a book: add_and_match   *)
(* adds an order, then the loop of run_matching trades the best bid with   *)
(* the best ask, one iteration a step, until nothing crosses.  cancel_order*)
(* in tee/src/routes/orders.rs removes an order between two calls.         *)
(*                                                                         *)
(* The callers hold the write lock across add_and_match, so a second call  *)
(* starts only when the loop has ended (matching = FALSE).  They check the *)
(* price and the quantity, but an id may be submitted again while an order *)
(* with that id rests: a partial fill unlocks its deposit.  A history      *)
(* variable tells of which ids that is so.  Tee.tla has the caller in full.*)
(***************************************************************************)
EXTENDS OrderBook

CONSTANTS Orders,              \* [id, side, price, quantity, ...] that may be submitted
          MaxOrders            \* bound on how many are, for model checking

ASSUME MaxOrdersAssumption == MaxOrders \in Nat

\* An order is known by its id: the server computes the id from all the rest.
ASSUME OrdersAssumption ==
  /\ \A o \in Orders :
       /\ {"id", "side", "price", "quantity"} \subseteq DOMAIN o
       /\ o.side \in {"buy", "sell"} /\ o.price \in Nat /\ o.quantity \in Nat
  /\ \A o, other \in Orders : o.id = other.id => o = other

VARIABLES book,
          matching,            \* run_matching is in its loop
          trades,              \* the trades of the current, or last, add_and_match
          clock,               \* orders submitted so far: the next timestamp
          doubled              \* history: the resting ids submitted again while they rested

engineVars == << book, matching, trades, clock, doubled >>

EngineInit ==
  /\ book = EmptyBook
  /\ matching = FALSE
  /\ trades = << >>
  /\ clock = 0
  /\ doubled = {}

\* The order entry of a submission: an order with its timestamp, here a number
\* that tells it from every other submission.
Entry(o, time) == Put(o, "timestamp", time)

AddAndMatch(entry) ==
  /\ ~matching
  /\ book' = AddOrder(book, entry)
  /\ doubled' = doubled \cup ({entry.id} \cap RestingIds(book))
  /\ trades' = << >>
  /\ matching' = TRUE

MatchStep ==
  /\ matching
  /\ HasCrossing(book)
  /\ trades' = Append(trades, NextTrade(book))
  /\ book' = AfterTrade(book)
  /\ doubled' = doubled \cap RestingIds(book')
  /\ UNCHANGED matching

\* Mutant of MatchDone: the loop waits for one side of the book to empty.
MatchDoneOneSided ==
  /\ matching
  /\ DOMAIN book.bids = {} \/ DOMAIN book.asks = {}
  /\ matching' = FALSE
  /\ UNCHANGED << book, trades, doubled >>

MatchDone ==
  /\ matching
  /\ ~HasCrossing(book)
  /\ matching' = FALSE
  /\ UNCHANGED << book, trades, doubled >>

Submit(o) ==
  /\ clock < MaxOrders
  /\ o.price > 0 /\ o.quantity > 0
  /\ AddAndMatch(Entry(o, clock))
  /\ clock' = clock + 1

Cancel(id) ==
  /\ ~matching
  /\ book' = RemoveOrder(book, id)
  /\ doubled' = doubled \cap RestingIds(book')
  /\ UNCHANGED << matching, trades, clock >>

MatchIteration == MatchStep /\ UNCHANGED clock
MatchReturn    == MatchDone /\ UNCHANGED clock

EngineNext ==
  \/ \E o \in Orders : Submit(o)
  \/ MatchIteration
  \/ MatchReturn
  \/ \E id \in DOMAIN book.index : Cancel(id)

\* The loop runs on: it does not wait for anything.
EngineSpec ==
  EngineInit /\ [][EngineNext]_engineVars /\ WF_engineVars(MatchIteration \/ MatchReturn)

-------------------------------------------------------------------------------
(* What is checked *)

Original(id) == CHOOSE o \in Orders : o.id = id

\* The order whose submission the trades belong to: the youngest so far.
IsTaker(entry) == entry.timestamp = clock - 1

MakerOf(trade) == IF IsTaker(trade.buy) THEN trade.sell ELSE trade.buy
TakerOf(trade) == IF IsTaker(trade.buy) THEN trade.buy ELSE trade.sell

\* Type correctness: levels hold orders of their side and price, quantities
\* are positive, and trades are between a buy and a sell.
EngineTypeOK ==
  /\ matching \in BOOLEAN
  /\ clock \in 0 .. MaxOrders
  /\ FiledCorrectly(book)
  /\ \A entry \in Resting(book) : entry.quantity > 0 /\ entry.timestamp < clock
  /\ \A i \in 1 .. Len(trades) :
       /\ trades[i].buy.side = "buy"
       /\ trades[i].sell.side = "sell"
       /\ trades[i].quantity > 0

\* After any sequence of adds, the same order again among them, fills,
\* re-insertions and cancels: what the index knows can be found where it says, no
\* level is empty and no submission is lost or filed twice.  An order rests that
\* the index does not know, so that nobody can cancel it, only if its id was
\* submitted again while it rested: the first of the two to go takes the index
\* entry of both (OrderBook::pop_best_bid, pop_best_ask and remove_order).
BookConsistent ==
  /\ IndexFindsOrders(book)
  /\ RestingIds(book) \subseteq DOMAIN book.index \cup doubled
  /\ NoEmptyLevel(book)
  /\ FiledOnce(book.bids, doubled)
  /\ FiledOnce(book.asks, doubled)

\* Between two calls the book is not crossed: run_matching leaves no bid at or
\* above an ask, whatever was reinserted or cancelled since.
NotCrossedWhenIdle ==
  ~matching => \A b \in OrdersOn(book.bids), a \in OrdersOn(book.asks) : b.price < a.price

\* What the submitted order has traded in this call and what is left of it
\* add up to what was submitted.
SubmittedQuantityAccountedFor ==
  (matching /\ trades # << >>) =>
    LET submitted == Original(TakerOf(trades[1]).id).quantity
        executed  == FoldSeq(LAMBDA t, sum : sum + t.quantity, 0, trades)
        left      == { entry \in Resting(book) : IsTaker(entry) }
    IN  IF left = {}
        THEN executed = submitted
        ELSE \A entry \in left : executed + entry.quantity = submitted

\* A call consumes resting orders best price first: a later trade of the same
\* call is never at a better price for the submitted order than an earlier one.
BestPriceFirst ==
  \A i, j \in 1 .. Len(trades) : i < j =>
    IF TakerOf(trades[i]).side = "buy"
    THEN MakerOf(trades[i]).price <= MakerOf(trades[j]).price
    ELSE MakerOf(trades[i]).price >= MakerOf(trades[j]).price

\* First come, first served at a price, among orders never partly filled: in a
\* level an older order stands behind a younger one only if part of the older
\* one has been filled already (run_matching queues what is left of it anew).
FifoUnlessPartlyFilled ==
  \A levels \in {book.bids, book.asks} : \A price \in DOMAIN levels :
    \A i, j \in 1 .. Len(levels[price]) :
      (i < j /\ levels[price][i].timestamp > levels[price][j].timestamp) =>
        levels[price][j].quantity < Original(levels[price][j].id).quantity

\* The matching loop ends.
MatchingEnds == matching ~> ~matching

\* The engine implements the order book of Market.tla: forgetting levels,
\* queues, ids and index leaves its live orders, by submission, and its steps.
LiveOrder(time) ==
  LET entry == CHOOSE e \in Resting(book) : e.timestamp = time
  IN  [side |-> entry.side, price |-> entry.price, quantity |-> entry.quantity]

Live == [time \in { entry.timestamp : entry \in Resting(book) } |-> LiveOrder(time)]

MarketView == INSTANCE Market WITH live <- Live, open <- matching

ImplementsMarket == MarketView!MSpec
===============================================================================
