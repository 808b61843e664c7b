------------------------------ MODULE OrderBook ------------------------------
(***************************************************************************)
(* tee/src/orderbook/mod.rs and tee/src/matching/mod.rs as operators on a  *)
(* book value.  A book has, as in the code, a map from price to the queue  *)
(* of orders at that price for each side, and an index from order id to    *)
(* the side and price the order is filed under.  An operator here returns  *)
(* the book that the Rust method leaves behind.                            *)
(***************************************************************************)
EXTENDS Integers, SequencesExt

\* Maps with a growing and shrinking set of keys (BTreeMap, HashMap).
Put(map, key, value) ==
  [k \in DOMAIN map \cup {key} |-> IF k = key THEN value ELSE map[k]]
Without(map, key) == [k \in DOMAIN map \ {key} |-> map[k]]

EmptyMap == [k \in {} |-> 0]

EmptyBook == [bids |-> EmptyMap, asks |-> EmptyMap, index |-> EmptyMap]

\* Mutant of Enqueue: the order goes to the head of its price level.
EnqueueFront(levels, entry) ==
  Put(levels, entry.price,
      IF entry.price \in DOMAIN levels THEN << entry >> \o levels[entry.price] ELSE << entry >>)

\* File an order at the back of its price level.
Enqueue(levels, entry) ==
  Put(levels, entry.price,
      IF entry.price \in DOMAIN levels THEN Append(levels[entry.price], entry) ELSE << entry >>)

\* Mutant of SetLevel: an emptied level stays in the map.
SetLevelKeepEmpty(levels, price, queue) == Put(levels, price, queue)

\* Replace the queue at a price; an emptied level is removed from the map.
SetLevel(levels, price, queue) ==
  IF queue = << >> THEN Without(levels, price) ELSE Put(levels, price, queue)

AddOrder(book, entry) ==
  [bids  |-> IF entry.side = "buy" THEN Enqueue(book.bids, entry) ELSE book.bids,
   asks  |-> IF entry.side = "sell" THEN Enqueue(book.asks, entry) ELSE book.asks,
   index |-> Put(book.index, entry.id, << entry.side, entry.price >>)]

\* Mutant of BestBidPrice: the first key of the map, not the last.
BestBidPriceFirst(book) == Min(DOMAIN book.bids)

BestBidPrice(book) == Max(DOMAIN book.bids)
BestAskPrice(book) == Min(DOMAIN book.asks)

\* Mutant of HasCrossing: only a strictly better bid crosses.
HasCrossingStrict(book) ==
  /\ DOMAIN book.bids # {}
  /\ DOMAIN book.asks # {}
  /\ BestBidPrice(book) > BestAskPrice(book)

HasCrossing(book) ==
  /\ DOMAIN book.bids # {}
  /\ DOMAIN book.asks # {}
  /\ BestBidPrice(book) >= BestAskPrice(book)

PeekBestBid(book) == Head(book.bids[BestBidPrice(book)])
PeekBestAsk(book) == Head(book.asks[BestAskPrice(book)])

PopBestBid(book) ==
  LET price == BestBidPrice(book)
  IN  [book EXCEPT !.bids = SetLevel(@, price, Tail(@[price])),
                   !.index = Without(@, PeekBestBid(book).id)]

PopBestAsk(book) ==
  LET price == BestAskPrice(book)
  IN  [book EXCEPT !.asks = SetLevel(@, price, Tail(@[price])),
                   !.index = Without(@, PeekBestAsk(book).id)]

RemoveFromQueue(queue, id) == RemoveFirstMatch(queue, LAMBDA entry : entry.id = id)

RemoveFromLevels(levels, price, id) ==
  IF price \in DOMAIN levels
  THEN SetLevel(levels, price, RemoveFromQueue(levels[price], id))
  ELSE levels

\* Mutant of RemoveOrder: the index forgets the order but its level keeps it.
RemoveOrderIndexOnly(book, id) == [book EXCEPT !.index = Without(@, id)]

\* Cancel: the index says where to look; an id it does not know changes nothing.
RemoveOrder(book, id) ==
  IF id \notin DOMAIN book.index
  THEN book
  ELSE LET side  == book.index[id][1]
           price == book.index[id][2]
       IN  [bids  |-> IF side = "buy" THEN RemoveFromLevels(book.bids, price, id) ELSE book.bids,
            asks  |-> IF side = "sell" THEN RemoveFromLevels(book.asks, price, id) ELSE book.asks,
            index |-> Without(book.index, id)]

-------------------------------------------------------------------------------
(* One iteration of run_matching *)

ExecutionQuantity(bid, ask) == IF bid.quantity <= ask.quantity THEN bid.quantity ELSE ask.quantity

ExecutionPrice(bid, ask) == ask.price

\* The trade the loop makes of the best bid and the best ask, which it holds
\* as they were before the fill.
NextTrade(book) ==
  LET bid == PeekBestBid(book)
      ask == PeekBestAsk(book)
  IN  [buy |-> bid, sell |-> ask,
       price |-> ExecutionPrice(bid, ask),
       quantity |-> ExecutionQuantity(bid, ask)]

\* Mutants of Reinsert: the remainder is dropped; an order with nothing left
\* goes back too.
ReinsertNothing(book, entry, executed) == book
ReinsertEmpty(book, entry, executed) ==
  AddOrder(book, [entry EXCEPT !.quantity = @ - executed])

\* What is left of a partially filled order is added to the book anew.
Reinsert(book, entry, executed) ==
  IF entry.quantity > executed
  THEN AddOrder(book, [entry EXCEPT !.quantity = @ - executed])
  ELSE book

AfterTrade(book) ==
  LET trade  == NextTrade(book)
      popped == PopBestAsk(PopBestBid(book))
  IN  Reinsert(Reinsert(popped, trade.buy, trade.quantity), trade.sell, trade.quantity)

-------------------------------------------------------------------------------
(* Views of a book used to state properties *)

\* Every order filed on a side, as the set of its positions: an order filed
\* twice is there twice.
Positions(levels) ==
  UNION { { << price, i >> : i \in 1 .. Len(levels[price]) } : price \in DOMAIN levels }

At(levels, position) == levels[position[1]][position[2]]

OrdersOn(levels) == { At(levels, position) : position \in Positions(levels) }

Resting(book) == OrdersOn(book.bids) \cup OrdersOn(book.asks)

RestingIds(book) == { entry.id : entry \in Resting(book) }

\* What the index knows is where an order rests: a cancel finds one to remove.
IndexFindsOrders(book) ==
  \A id \in DOMAIN book.index :
    \E entry \in Resting(book) : entry.id = id /\ book.index[id] = << entry.side, entry.price >>

\* Each submission is filed once, and only some ids more often than that.
FiledOnce(levels, more) ==
  \A p, q \in Positions(levels) :
    /\ At(levels, p).timestamp = At(levels, q).timestamp => p = q
    /\ At(levels, p).id = At(levels, q).id => p = q \/ At(levels, p).id \in more

\* An order is filed under its own side and price.
FiledCorrectly(book) ==
  /\ \A p \in Positions(book.bids) : At(book.bids, p).side = "buy" /\ At(book.bids, p).price = p[1]
  /\ \A p \in Positions(book.asks) : At(book.asks, p).side = "sell" /\ At(book.asks, p).price = p[1]

\* A price in the map always has an order: the best price is a real order's.
NoEmptyLevel(book) ==
  /\ \A price \in DOMAIN book.bids : book.bids[price] # << >>
  /\ \A price \in DOMAIN book.asks : book.asks[price] # << >>
===============================================================================
