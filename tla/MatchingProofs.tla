---------------------------- MODULE MatchingProofs ----------------------------
(***************************************************************************)
(* Proofs about MatchingEngine.tla and its order book.  First, what the    *)
(* operators of OrderBook.tla do to a well formed book: which orders rest  *)
(* afterwards, in which order they stand in their queues, and that the book*)
(* is well formed again.  Then the inductive invariant of the engine, the  *)
(* safety properties that follow from it, and the refinement of the order  *)
(* book of Market.tla.  The invariant is stated of values, a book b,       *)
(* whether matching is in progress m, the trades t and the clock c, so that*)
(* a step is a lemma about the values before and after it.                 *)
(***************************************************************************)
EXTENDS MatchingEngine, FoldLemmas, SequenceTheorems

-------------------------------------------------------------------------------
(* Order entries *)

\* The order o as it rests in the book with q of its quantity left.
Part(o, time, q) == [Entry(o, time) EXCEPT !.quantity = q]

Entries == UNION { { Part(o, time, q) : time \in Nat, q \in 1 .. o.quantity } : o \in Orders }

\* The fields of an entry are those of its order, but for the quantity left.
LEMMA PartFields ==
  ASSUME NEW o \in Orders, NEW time, NEW q
  PROVE  /\ Part(o, time, q).id = o.id
         /\ Part(o, time, q).side = o.side
         /\ Part(o, time, q).price = o.price
         /\ Part(o, time, q).quantity = q
         /\ Part(o, time, q).timestamp = time
         /\ \A r : [Part(o, time, q) EXCEPT !.quantity = r] = Part(o, time, r)
         /\ Entry(o, time) = Part(o, time, o.quantity)
<1>1. {"id", "side", "price", "quantity"} \subseteq DOMAIN o
  BY OrdersAssumption
<1>2. Entry(o, time) = [k \in DOMAIN o \cup {"timestamp"} |-> IF k = "timestamp" THEN time ELSE o[k]]
  BY DEF Entry, Put
<1>3. QED
  BY <1>1, <1>2 DEF Part

\* The order of an id is the one order that has it.
LEMMA OriginalOf ==
  ASSUME NEW o \in Orders
  PROVE  Original(o.id) = o
BY OrdersAssumption DEF Original

LEMMA EntryFacts ==
  ASSUME NEW e \in Entries
  PROVE  /\ e.side \in {"buy", "sell"} /\ e.price \in Nat
         /\ e.quantity \in Nat \ {0} /\ e.timestamp \in Nat
         /\ Original(e.id) \in Orders /\ Original(e.id).id = e.id
         /\ Original(e.id).side = e.side /\ Original(e.id).price = e.price
         /\ Original(e.id).quantity \in Nat
         /\ e.quantity <= Original(e.id).quantity
<1>0. PICK o \in Orders : \E time \in Nat, q \in 1 .. o.quantity : e = Part(o, time, q)
  BY DEF Entries
<1>1. PICK time \in Nat, q \in 1 .. o.quantity : e = Part(o, time, q)
  BY <1>0
<1>2. o.side \in {"buy", "sell"} /\ o.price \in Nat /\ o.quantity \in Nat
  BY OrdersAssumption
<1>3. Original(e.id) = o
  BY <1>1, PartFields, OriginalOf
<1>4. QED
  BY <1>1, <1>2, <1>3, PartFields

\* A partial fill leaves an entry of the same order.
LEMMA ReducedEntry ==
  ASSUME NEW e \in Entries, NEW r \in 1 .. e.quantity
  PROVE  LET left == [e EXCEPT !.quantity = r]
         IN  /\ left \in Entries
             /\ left.id = e.id /\ left.side = e.side /\ left.price = e.price
             /\ left.timestamp = e.timestamp /\ left.quantity = r
<1>0. PICK o \in Orders : \E time \in Nat, q \in 1 .. o.quantity : e = Part(o, time, q)
  BY DEF Entries
<1>1. PICK time \in Nat, q \in 1 .. o.quantity : e = Part(o, time, q)
  BY <1>0
<1>2. o.quantity \in Nat
  BY OrdersAssumption
<1>3. [e EXCEPT !.quantity = r] = Part(o, time, r)
  BY <1>1, PartFields
<1>4. r \in 1 .. o.quantity
  BY <1>1, <1>2, PartFields
<1>5. Part(o, time, r) \in Entries
  BY <1>4 DEF Entries
<1>6. QED
  BY <1>1, <1>3, <1>5, PartFields

LEMMA NewEntry ==
  ASSUME NEW o \in Orders, o.quantity > 0, NEW time \in Nat
  PROVE  LET e == Entry(o, time)
         IN  /\ e \in Entries
             /\ e.id = o.id /\ e.side = o.side /\ e.price = o.price
             /\ e.timestamp = time /\ e.quantity = o.quantity
<1>1. o.quantity \in 1 .. o.quantity
  BY OrdersAssumption
<1>2. Part(o, time, o.quantity) \in Entries
  BY <1>1 DEF Entries
<1>3. QED
  BY <1>2, PartFields

-------------------------------------------------------------------------------
(* One side of the book *)

\* The price levels of a side: nonempty queues of the side's orders, each under
\* its own price.
QueuesOK(levels, side) ==
  /\ DOMAIN levels \subseteq Nat /\ IsFiniteSet(DOMAIN levels)
  /\ \A price \in DOMAIN levels : levels[price] \in Seq(Entries) /\ levels[price] # << >>
  /\ \A price \in DOMAIN levels : \A i \in 1 .. Len(levels[price]) :
       levels[price][i].side = side /\ levels[price][i].price = price

\* The same with no submission twice.
LevelsOK(levels, side) ==
  /\ QueuesOK(levels, side)
  /\ \A price, other \in DOMAIN levels :
       \A i \in 1 .. Len(levels[price]), j \in 1 .. Len(levels[other]) :
         levels[price][i].timestamp = levels[other][j].timestamp => price = other /\ i = j

\* Only part of an order stands behind a younger one.
Fifo(levels) ==
  \A price \in DOMAIN levels : \A i, j \in 1 .. Len(levels[price]) :
    (i < j /\ levels[price][i].timestamp > levels[price][j].timestamp) =>
      levels[price][j].quantity < Original(levels[price][j].id).quantity

LEMMA OrdersOnLevels ==
  ASSUME NEW levels, NEW e
  PROVE  e \in OrdersOn(levels) <=>
           \E price \in DOMAIN levels : \E i \in 1 .. Len(levels[price]) : e = levels[price][i]
<1>1. \A price, i : << price, i >> \in Positions(levels)
                      <=> price \in DOMAIN levels /\ i \in 1 .. Len(levels[price])
  BY DEF Positions
<1>2. \A pos \in Positions(levels) : \E price \in DOMAIN levels : \E i \in 1 .. Len(levels[price]) :
        pos = << price, i >>
  BY DEF Positions
<1>3. \A price, i : At(levels, << price, i >>) = levels[price][i]
  BY DEF At
<1>4. ASSUME e \in OrdersOn(levels)
      PROVE  \E price \in DOMAIN levels : \E i \in 1 .. Len(levels[price]) : e = levels[price][i]
  <2>1. PICK pos \in Positions(levels) : e = At(levels, pos)
    BY <1>4 DEF OrdersOn
  <2>2. QED
    BY <1>2, <1>3, <2>1
<1>5. ASSUME NEW price \in DOMAIN levels, NEW i \in 1 .. Len(levels[price]), e = levels[price][i]
      PROVE  e \in OrdersOn(levels)
  BY <1>1, <1>3, <1>5 DEF OrdersOn
<1>6. QED
  BY <1>4, <1>5

LEMMA SideFacts ==
  ASSUME NEW levels, NEW side, QueuesOK(levels, side)
  PROVE  /\ \A e \in OrdersOn(levels) :
              e \in Entries /\ e.side = side /\ e.price \in DOMAIN levels
         /\ \A price \in DOMAIN levels :
              \E i \in 1 .. Len(levels[price]) : levels[price][i] \in OrdersOn(levels)
<1>1. \A price \in DOMAIN levels : levels[price] \in Seq(Entries) /\ levels[price] # << >>
  BY DEF QueuesOK
<1>2. \A price \in DOMAIN levels : \A i \in 1 .. Len(levels[price]) :
        levels[price][i] \in Entries /\ levels[price][i].side = side /\ levels[price][i].price = price
  BY <1>1, ElementOfSeq DEF QueuesOK
<1>3. \A price \in DOMAIN levels : 1 \in 1 .. Len(levels[price])
  BY <1>1, EmptySeq
<1>4. \A e \in OrdersOn(levels) : e \in Entries /\ e.side = side /\ e.price \in DOMAIN levels
  BY <1>2, OrdersOnLevels
<1>5. \A price \in DOMAIN levels :
        \E i \in 1 .. Len(levels[price]) : levels[price][i] \in OrdersOn(levels)
  BY <1>3, OrdersOnLevels
<1>6. QED
  BY <1>4, <1>5

LEMMA OrdersOnFacts ==
  ASSUME NEW levels, NEW side, LevelsOK(levels, side)
  PROVE  /\ \A e \in OrdersOn(levels) :
              e \in Entries /\ e.side = side /\ e.price \in DOMAIN levels
         /\ \A e, other \in OrdersOn(levels) : e.timestamp = other.timestamp => e = other
         /\ \A price \in DOMAIN levels :
              \E i \in 1 .. Len(levels[price]) : levels[price][i] \in OrdersOn(levels)
<1>1. QueuesOK(levels, side)
  BY DEF LevelsOK
<1>2. ASSUME NEW e \in OrdersOn(levels), NEW other \in OrdersOn(levels), e.timestamp = other.timestamp
      PROVE  e = other
  <2>1. PICK p \in DOMAIN levels : \E i \in 1 .. Len(levels[p]) : e = levels[p][i]
    BY OrdersOnLevels
  <2>2. PICK i \in 1 .. Len(levels[p]) : e = levels[p][i]
    BY <2>1
  <2>3. PICK r \in DOMAIN levels : \E j \in 1 .. Len(levels[r]) : other = levels[r][j]
    BY OrdersOnLevels
  <2>4. PICK j \in 1 .. Len(levels[r]) : other = levels[r][j]
    BY <2>3
  <2>5. p = r /\ i = j
    BY <1>2, <2>2, <2>4 DEF LevelsOK
  <2>6. QED
    BY <2>2, <2>4, <2>5
<1>3. QED
  BY <1>1, <1>2, SideFacts

\* The queues new are those of levels with e at the back of its level, where len
\* entries are before it.
JoinedAt(levels, e, new, len) ==
  /\ DOMAIN new = DOMAIN levels \cup {e.price}
  /\ \A price \in DOMAIN new : new[price] \in Seq(Entries) /\ new[price] # << >>
  /\ len \in Nat /\ Len(new[e.price]) = len + 1 /\ new[e.price][len + 1] = e
  /\ \A price \in DOMAIN levels : \A i \in 1 .. Len(levels[price]) :
       i \in 1 .. Len(new[price]) /\ new[price][i] = levels[price][i]
  /\ \A price \in DOMAIN new : \A i \in 1 .. Len(new[price]) :
       \/ price \in DOMAIN levels /\ i \in 1 .. Len(levels[price])
       \/ price = e.price /\ i = len + 1

\* What Enqueue makes of the queues: one position more, at the back of a level.
LEMMA EnqueuedQueues ==
  ASSUME NEW levels, NEW side, QueuesOK(levels, side), NEW e \in Entries
  PROVE  \E len \in Nat : JoinedAt(levels, e, Enqueue(levels, e), len)
<1> DEFINE new == Enqueue(levels, e)
           len == IF e.price \in DOMAIN levels THEN Len(levels[e.price]) ELSE 0
           back == IF e.price \in DOMAIN levels THEN Append(levels[e.price], e) ELSE << e >>
<1>1. \A price \in DOMAIN levels :
        levels[price] \in Seq(Entries) /\ Len(levels[price]) \in Nat
  BY LenProperties DEF LevelsOK, QueuesOK
<1>2. /\ back \in Seq(Entries) /\ back # << >>
      /\ len \in Nat /\ Len(back) = len + 1 /\ back[len + 1] = e
      /\ e.price \in DOMAIN levels =>
           \A i \in 1 .. Len(levels[e.price]) : i \in 1 .. Len(back) /\ back[i] = levels[e.price][i]
  <2>1. CASE e.price \in DOMAIN levels
    BY <1>1, <2>1, AppendProperties
  <2>2. CASE e.price \notin DOMAIN levels
    BY <2>2
  <2>3. QED
    BY <2>1, <2>2
<1>3. /\ DOMAIN new = DOMAIN levels \cup {e.price}
      /\ new[e.price] = back
      /\ \A price \in DOMAIN levels : price # e.price => new[price] = levels[price]
  BY DEF Enqueue, Put
<1> HIDE DEF new, back
<1>4. \A price \in DOMAIN new : new[price] \in Seq(Entries) /\ new[price] # << >>
  BY <1>1, <1>2, <1>3 DEF LevelsOK, QueuesOK
<1>5. \A price \in DOMAIN levels : \A i \in 1 .. Len(levels[price]) :
        i \in 1 .. Len(new[price]) /\ new[price][i] = levels[price][i]
  BY <1>1, <1>2, <1>3
<1>6. ASSUME NEW price \in DOMAIN new, NEW i \in 1 .. Len(new[price])
      PROVE  \/ price \in DOMAIN levels /\ i \in 1 .. Len(levels[price])
             \/ price = e.price /\ i = len + 1
  <2>1. CASE price # e.price
    BY <1>3, <2>1
  <2>2. CASE price = e.price
    <3>1. i \in 1 .. len + 1
      BY <1>2, <1>3, <2>2
    <3>2. i = len + 1 \/ i \in 1 .. len
      BY <1>2, <3>1
    <3>3. QED
      BY <1>2, <2>2, <3>2
  <2>3. QED
    BY <2>1, <2>2
<1>7. JoinedAt(levels, e, new, len)
  BY <1>2, <1>3, <1>4, <1>5, <1>6 DEF JoinedAt
<1>8. QED
  BY <1>2, <1>7 DEF new

\* An order joins a side.
LEMMA QueueJoined ==
  ASSUME NEW levels, NEW side, QueuesOK(levels, side), NEW e \in Entries, e.side = side
  PROVE  /\ QueuesOK(Enqueue(levels, e), side)
         /\ OrdersOn(Enqueue(levels, e)) = OrdersOn(levels) \cup {e}
<1> DEFINE new == Enqueue(levels, e)
<1>0. PICK len \in Nat : JoinedAt(levels, e, new, len)
  BY EnqueuedQueues
<1>1. /\ DOMAIN new = DOMAIN levels \cup {e.price}
      /\ \A price \in DOMAIN new : new[price] \in Seq(Entries) /\ new[price] # << >>
      /\ len \in Nat /\ Len(new[e.price]) = len + 1 /\ new[e.price][len + 1] = e
      /\ \A price \in DOMAIN levels : \A i \in 1 .. Len(levels[price]) :
           i \in 1 .. Len(new[price]) /\ new[price][i] = levels[price][i]
      /\ \A price \in DOMAIN new : \A i \in 1 .. Len(new[price]) :
           \/ price \in DOMAIN levels /\ i \in 1 .. Len(levels[price])
           \/ price = e.price /\ i = len + 1
  BY <1>0 DEF JoinedAt
<1>2. \A price \in DOMAIN levels : \A i \in 1 .. Len(levels[price]) :
        levels[price][i] \in OrdersOn(levels)
  BY OrdersOnLevels
<1>3. e.price \in Nat
  BY EntryFacts
<1> HIDE DEF new
<1>4. QueuesOK(new, side)
  <2>1. DOMAIN new \subseteq Nat
    BY <1>1, <1>3 DEF QueuesOK
  <2>2. IsFiniteSet(DOMAIN new)
    <3>1. IsFiniteSet(DOMAIN levels)
      BY DEF QueuesOK
    <3>2. QED
      BY <1>1, <3>1, FS_AddElement
  <2>3. \A price \in DOMAIN new : \A i \in 1 .. Len(new[price]) :
          new[price][i].side = side /\ new[price][i].price = price
    <3>1. SUFFICES ASSUME NEW price \in DOMAIN new, NEW i \in 1 .. Len(new[price])
                   PROVE  new[price][i].side = side /\ new[price][i].price = price
      OBVIOUS
    <3>2. CASE price \in DOMAIN levels /\ i \in 1 .. Len(levels[price])
      BY <1>1, <3>2 DEF QueuesOK
    <3>3. CASE price = e.price /\ i = len + 1
      BY <1>1, <3>3
    <3>4. QED
      BY <1>1, <3>2, <3>3
  <2>4. QED
    BY <1>1, <2>1, <2>2, <2>3 DEF QueuesOK
<1>5. OrdersOn(new) = OrdersOn(levels) \cup {e}
  <2>1. ASSUME NEW x \in OrdersOn(new) PROVE x \in OrdersOn(levels) \cup {e}
    <3>1. PICK price \in DOMAIN new : \E i \in 1 .. Len(new[price]) : x = new[price][i]
      BY OrdersOnLevels
    <3>2. PICK i \in 1 .. Len(new[price]) : x = new[price][i]
      BY <3>1
    <3>3. QED
      BY <1>1, <1>2, <3>2
  <2>2. ASSUME NEW x \in OrdersOn(levels) PROVE x \in OrdersOn(new)
    <3>1. PICK price \in DOMAIN levels : \E i \in 1 .. Len(levels[price]) : x = levels[price][i]
      BY OrdersOnLevels
    <3>2. PICK i \in 1 .. Len(levels[price]) : x = levels[price][i]
      BY <3>1
    <3>3. price \in DOMAIN new /\ i \in 1 .. Len(new[price]) /\ x = new[price][i]
      BY <1>1, <3>2
    <3>4. QED
      BY <3>3, OrdersOnLevels
  <2>3. e \in OrdersOn(new)
    <3>1. e.price \in DOMAIN new /\ len + 1 \in 1 .. Len(new[e.price]) /\ e = new[e.price][len + 1]
      BY <1>1
    <3>2. QED
      BY <3>1, OrdersOnLevels
  <2>4. QED
    BY <2>1, <2>2, <2>3
<1>6. QED
  BY <1>4, <1>5 DEF new

LEMMA Enqueued ==
  ASSUME NEW levels, NEW side, LevelsOK(levels, side),
         NEW e \in Entries, e.side = side, \A x \in OrdersOn(levels) : x.timestamp # e.timestamp
  PROVE  /\ LevelsOK(Enqueue(levels, e), side)
         /\ OrdersOn(Enqueue(levels, e)) = OrdersOn(levels) \cup {e}
         /\ Fifo(levels) /\ (\/ e.quantity < Original(e.id).quantity
                             \/ \A x \in OrdersOn(levels) : x.timestamp <= e.timestamp)
              => Fifo(Enqueue(levels, e))
<1> DEFINE new == Enqueue(levels, e)
<1>0. PICK len \in Nat : JoinedAt(levels, e, new, len)
  BY EnqueuedQueues DEF LevelsOK
<1>1. /\ DOMAIN new = DOMAIN levels \cup {e.price}
      /\ \A price \in DOMAIN new : new[price] \in Seq(Entries) /\ new[price] # << >>
      /\ len \in Nat /\ Len(new[e.price]) = len + 1 /\ new[e.price][len + 1] = e
      /\ \A price \in DOMAIN levels : \A i \in 1 .. Len(levels[price]) :
           i \in 1 .. Len(new[price]) /\ new[price][i] = levels[price][i]
      /\ \A price \in DOMAIN new : \A i \in 1 .. Len(new[price]) :
           \/ price \in DOMAIN levels /\ i \in 1 .. Len(levels[price])
           \/ price = e.price /\ i = len + 1
  BY <1>0 DEF JoinedAt
<1>2. \A price \in DOMAIN levels : Len(levels[price]) \in Nat
  BY LenProperties DEF LevelsOK, QueuesOK
<1>3. \A price \in DOMAIN levels : \A i \in 1 .. Len(levels[price]) :
        levels[price][i] \in OrdersOn(levels)
  BY OrdersOnLevels
<1>4. e.price \in Nat /\ e.timestamp \in Nat
  BY EntryFacts
<1> HIDE DEF new
<1>5. QueuesOK(new, side) /\ OrdersOn(new) = OrdersOn(levels) \cup {e}
  BY QueueJoined DEF LevelsOK, new
<1>6. LevelsOK(new, side)
  <2>1. ASSUME NEW price \in DOMAIN new, NEW other \in DOMAIN new,
               NEW i \in 1 .. Len(new[price]), NEW j \in 1 .. Len(new[other]),
               new[price][i].timestamp = new[other][j].timestamp
        PROVE  price = other /\ i = j
    <3>1. CASE /\ price \in DOMAIN levels /\ i \in 1 .. Len(levels[price])
               /\ other \in DOMAIN levels /\ j \in 1 .. Len(levels[other])
      <4>1. levels[price][i].timestamp = levels[other][j].timestamp
        BY <1>1, <2>1, <3>1
      <4>2. QED
        BY <3>1, <4>1 DEF LevelsOK
    <3>2. CASE /\ price = e.price /\ i = len + 1
               /\ other \in DOMAIN levels /\ j \in 1 .. Len(levels[other])
      BY <1>1, <1>3, <2>1, <3>2
    <3>3. CASE /\ other = e.price /\ j = len + 1
               /\ price \in DOMAIN levels /\ i \in 1 .. Len(levels[price])
      BY <1>1, <1>3, <2>1, <3>3
    <3>4. QED
      BY <1>1, <3>1, <3>2, <3>3
  <2>2. QED
    BY <1>5, <2>1 DEF LevelsOK
<1>7. ASSUME Fifo(levels), \/ e.quantity < Original(e.id).quantity
                           \/ \A x \in OrdersOn(levels) : x.timestamp <= e.timestamp
      PROVE  Fifo(new)
  <2>1. SUFFICES ASSUME NEW price \in DOMAIN new, NEW i \in 1 .. Len(new[price]),
                        NEW j \in 1 .. Len(new[price]),
                        i < j, new[price][i].timestamp > new[price][j].timestamp
                 PROVE  new[price][j].quantity < Original(new[price][j].id).quantity
    BY DEF Fifo
  <2>2. CASE price \in DOMAIN levels /\ j \in 1 .. Len(levels[price])
    <3>1. i \in 1 .. Len(levels[price])
      BY <1>2, <2>1, <2>2
    <3>2. new[price][i] = levels[price][i] /\ new[price][j] = levels[price][j]
      BY <1>1, <2>2, <3>1
    <3>3. QED
      BY <1>7, <2>1, <2>2, <3>1, <3>2 DEF Fifo
  <2>3. CASE price = e.price /\ j = len + 1
    <3>1. new[price][j] = e
      BY <1>1, <2>3
    <3>2. price \in DOMAIN levels /\ i \in 1 .. Len(levels[price])
      BY <1>1, <2>1, <2>3
    <3>3. new[price][i] \in OrdersOn(levels)
      BY <1>1, <1>3, <3>2
    <3>4. new[price][i].timestamp \in Nat
      BY <3>3, OrdersOnFacts, EntryFacts
    <3>5. QED
      BY <1>4, <1>7, <2>1, <3>1, <3>3, <3>4
  <2>4. QED
    BY <1>1, <2>2, <2>3
<1>8. QED
  BY <1>5, <1>6, <1>7 DEF new

\* The queue without its entry at position k.
Shortened(old, k, new) ==
  /\ new \in Seq(Entries) /\ Len(new) = Len(old) - 1
  /\ \A i \in 1 .. Len(new) : new[i] = old[IF i < k THEN i ELSE i + 1]

\* Where an entry of a side from which the entry at position k of a price has
\* been taken stood before.
Before(price, k, r, i) == IF r = price /\ i >= k THEN i + 1 ELSE i

\* What a side's queues are when an entry has been taken out.
LEMMA ShortenedQueues ==
  ASSUME NEW levels, NEW side, QueuesOK(levels, side),
         NEW price \in DOMAIN levels, NEW k \in 1 .. Len(levels[price]),
         NEW queue, Shortened(levels[price], k, queue)
  PROVE  LET new == SetLevel(levels, price, queue)
         IN  /\ QueuesOK(new, side)
             /\ \A r \in DOMAIN new : \A i \in 1 .. Len(new[r]) :
                  /\ r \in DOMAIN levels /\ i \in Nat
                  /\ Before(price, k, r, i) \in 1 .. Len(levels[r])
                  /\ new[r][i] = levels[r][Before(price, k, r, i)]
                  /\ ~(r = price /\ Before(price, k, r, i) = k)
             /\ \A r \in DOMAIN levels : \A i \in 1 .. Len(levels[r]) :
                  ~(r = price /\ i = k) =>
                    r \in DOMAIN new /\ \E j \in 1 .. Len(new[r]) : new[r][j] = levels[r][i]
<1> DEFINE new == SetLevel(levels, price, queue)
           was(r, i) == Before(price, k, r, i)
<1>1. /\ levels[price] \in Seq(Entries) /\ Len(levels[price]) \in Nat
      /\ queue \in Seq(Entries) /\ Len(queue) \in Nat /\ Len(queue) = Len(levels[price]) - 1
  BY LenProperties DEF QueuesOK, Shortened
<1>2. /\ DOMAIN new \subseteq DOMAIN levels
      /\ DOMAIN levels \ {price} \subseteq DOMAIN new
      /\ \A r \in DOMAIN new : r # price => new[r] = levels[r]
      /\ price \in DOMAIN new => new[price] = queue /\ queue # << >>
      /\ price \notin DOMAIN new => queue = << >>
  BY DEF SetLevel, Put, Without
<1>3. \A r \in DOMAIN levels : Len(levels[r]) \in Nat
  BY LenProperties DEF QueuesOK
<1> HIDE DEF new
\* Every position of the new queues is one of the old ones, in the same order.
<1>4. ASSUME NEW r \in DOMAIN new, NEW i \in 1 .. Len(new[r])
      PROVE  /\ r \in DOMAIN levels /\ i \in Nat
             /\ was(r, i) \in 1 .. Len(levels[r])
             /\ new[r][i] = levels[r][was(r, i)]
             /\ ~(r = price /\ was(r, i) = k)
  <2>1. CASE r # price
    BY <1>2, <1>3, <2>1 DEF Before
  <2>2. CASE r = price
    <3>1. new[r] = queue
      BY <1>2, <2>2
    <3>2. queue[i] = levels[price][IF i < k THEN i ELSE i + 1]
      BY <3>1 DEF Shortened
    <3>3. QED
      BY <1>1, <2>2, <3>1, <3>2 DEF Before
  <2>3. QED
    BY <2>1, <2>2
<1>5. ASSUME NEW r \in DOMAIN levels, NEW i \in 1 .. Len(levels[r]), ~(r = price /\ i = k)
      PROVE  r \in DOMAIN new /\ \E j \in 1 .. Len(new[r]) : new[r][j] = levels[r][i]
  <2>1. CASE r # price
    BY <1>2, <2>1
  <2>2. CASE r = price
    <3> DEFINE j == IF i < k THEN i ELSE i - 1
    <3>1. j \in 1 .. Len(queue) /\ queue[j] = levels[price][i]
      <4>1. j \in 1 .. Len(queue) /\ (IF j < k THEN j ELSE j + 1) = i
        BY <1>1, <1>5, <2>2
      <4>2. QED
        BY <4>1 DEF Shortened
    <3>2. queue # << >>
      BY <1>1, <3>1, EmptySeq
    <3>3. price \in DOMAIN new /\ new[price] = queue
      BY <1>2, <3>2
    <3>4. QED
      BY <2>2, <3>1, <3>3
  <2>3. QED
    BY <2>1, <2>2
<1>6. QueuesOK(new, side)
  <2>1. DOMAIN new \subseteq Nat /\ IsFiniteSet(DOMAIN new)
    BY <1>2, FS_Subset DEF QueuesOK
  <2>2. \A r \in DOMAIN new : new[r] \in Seq(Entries) /\ new[r] # << >>
    BY <1>1, <1>2 DEF QueuesOK
  <2>3. \A r \in DOMAIN new : \A i \in 1 .. Len(new[r]) :
          new[r][i].side = side /\ new[r][i].price = r
    BY <1>4 DEF QueuesOK
  <2>4. QED
    BY <2>1, <2>2, <2>3 DEF QueuesOK
<1>7. QED
  BY <1>4, <1>5, <1>6 DEF new

LEMMA EntryTakenOut ==
  ASSUME NEW levels, NEW side, LevelsOK(levels, side),
         NEW price \in DOMAIN levels, NEW k \in 1 .. Len(levels[price]),
         NEW queue, Shortened(levels[price], k, queue)
  PROVE  /\ LevelsOK(SetLevel(levels, price, queue), side)
         /\ OrdersOn(SetLevel(levels, price, queue)) = OrdersOn(levels) \ {levels[price][k]}
         /\ Fifo(levels) => Fifo(SetLevel(levels, price, queue))
<1> DEFINE new == SetLevel(levels, price, queue)
           was(r, i) == Before(price, k, r, i)
<1>1. QueuesOK(new, side)
  BY ShortenedQueues DEF LevelsOK
<1>4. \A r \in DOMAIN new : \A i \in 1 .. Len(new[r]) :
        /\ r \in DOMAIN levels /\ i \in Nat
        /\ was(r, i) \in 1 .. Len(levels[r])
        /\ new[r][i] = levels[r][was(r, i)]
        /\ ~(r = price /\ was(r, i) = k)
  BY ShortenedQueues DEF LevelsOK
<1>5. \A r \in DOMAIN levels : \A i \in 1 .. Len(levels[r]) :
        ~(r = price /\ i = k) =>
          r \in DOMAIN new /\ \E j \in 1 .. Len(new[r]) : new[r][j] = levels[r][i]
  BY ShortenedQueues DEF LevelsOK
<1> HIDE DEF new
<1>6. LevelsOK(new, side)
  <2>1. ASSUME NEW r \in DOMAIN new, NEW t \in DOMAIN new,
               NEW i \in 1 .. Len(new[r]), NEW j \in 1 .. Len(new[t]),
               new[r][i].timestamp = new[t][j].timestamp
        PROVE  r = t /\ i = j
    <3>1. r = t /\ was(r, i) = was(t, j)
      <4>1. /\ r \in DOMAIN levels /\ was(r, i) \in 1 .. Len(levels[r])
            /\ t \in DOMAIN levels /\ was(t, j) \in 1 .. Len(levels[t])
        BY <1>4
      <4>2. levels[r][was(r, i)].timestamp = levels[t][was(t, j)].timestamp
        BY <1>4, <2>1
      <4>3. r = t /\ was(r, i) = was(t, j)
        BY <4>1, <4>2 DEF LevelsOK
      <4>4. QED
        BY <4>3
    <3>2. i \in Nat /\ j \in Nat /\ k \in Nat
      BY <1>4
    <3>3. QED
      BY <3>1, <3>2 DEF Before
  <2>2. QED
    BY <1>1, <2>1 DEF LevelsOK
<1>7. OrdersOn(new) = OrdersOn(levels) \ {levels[price][k]}
  <2>1. ASSUME NEW x \in OrdersOn(new) PROVE x \in OrdersOn(levels) /\ x # levels[price][k]
    <3>1. PICK r \in DOMAIN new : \E i \in 1 .. Len(new[r]) : x = new[r][i]
      BY OrdersOnLevels
    <3>2. PICK i \in 1 .. Len(new[r]) : x = new[r][i]
      BY <3>1
    <3>3. x = levels[r][was(r, i)] /\ ~(r = price /\ was(r, i) = k)
      BY <1>4, <3>2
    <3>4. r \in DOMAIN levels /\ was(r, i) \in 1 .. Len(levels[r])
      BY <1>4
    <3>5. x \in OrdersOn(levels)
      BY <3>3, <3>4, OrdersOnLevels
    <3>6. x # levels[price][k]
      BY <3>3, <3>4 DEF LevelsOK
    <3>7. QED
      BY <3>5, <3>6
  <2>2. ASSUME NEW x \in OrdersOn(levels), x # levels[price][k] PROVE x \in OrdersOn(new)
    <3>1. PICK r \in DOMAIN levels : \E i \in 1 .. Len(levels[r]) : x = levels[r][i]
      BY OrdersOnLevels
    <3>2. PICK i \in 1 .. Len(levels[r]) : x = levels[r][i]
      BY <3>1
    <3>3. r \in DOMAIN new /\ \E j \in 1 .. Len(new[r]) : new[r][j] = x
      BY <1>5, <2>2, <3>2
    <3>4. QED
      BY <3>3, OrdersOnLevels
  <2>3. QED
    BY <2>1, <2>2
<1>8. ASSUME Fifo(levels) PROVE Fifo(new)
  <2>1. SUFFICES ASSUME NEW r \in DOMAIN new, NEW i \in 1 .. Len(new[r]), NEW j \in 1 .. Len(new[r]),
                        i < j, new[r][i].timestamp > new[r][j].timestamp
                 PROVE  new[r][j].quantity < Original(new[r][j].id).quantity
    BY DEF Fifo
  <2>2. was(r, i) < was(r, j)
    BY <1>4, <2>1 DEF Before
  <2>3. /\ r \in DOMAIN levels
        /\ was(r, i) \in 1 .. Len(levels[r]) /\ new[r][i] = levels[r][was(r, i)]
        /\ was(r, j) \in 1 .. Len(levels[r]) /\ new[r][j] = levels[r][was(r, j)]
    BY <1>4
  <2>4. QED
    BY <1>8, <2>1, <2>2, <2>3 DEF Fifo
<1>9. QED
  BY <1>6, <1>7, <1>8 DEF new

\* A pop takes the entry at the head of its queue.
LEMMA TailShortens ==
  ASSUME NEW queue \in Seq(Entries), queue # << >>
  PROVE  /\ 1 \in 1 .. Len(queue) /\ Head(queue) = queue[1]
         /\ Shortened(queue, 1, Tail(queue))
BY HeadTailProperties, EmptySeq DEF Shortened

LEMMA RemovalAt ==
  ASSUME NEW queue \in Seq(Entries), NEW k \in 1 .. Len(queue)
  PROVE  Shortened(queue, k, RemoveAt(queue, k))
<1>1. Len(queue) \in Nat /\ \A i \in 1 .. Len(queue) : queue[i] \in Entries
  BY LenProperties, ElementOfSeq
<1>6. RemoveAt(queue, k) = SubSeq(queue, 1, k - 1) \o SubSeq(queue, k + 1, Len(queue))
  BY DEF RemoveAt
<1> DEFINE front == SubSeq(queue, 1, k - 1)
           rest == SubSeq(queue, k + 1, Len(queue))
<1>7. /\ front \in Seq(Entries) /\ Len(front) = k - 1
      /\ \A i \in 1 .. k - 1 : front[i] = queue[i]
  <2>1. 1 \in Int /\ k - 1 \in Int /\ \A i \in 1 .. k - 1 : queue[i] \in Entries
    BY <1>1
  <2>2. QED
    BY <1>1, <2>1, SubSeqProperties
<1>8. /\ rest \in Seq(Entries) /\ Len(rest) = Len(queue) - k
      /\ \A i \in 1 .. Len(queue) - k : rest[i] = queue[k + i]
  <2>1. k + 1 \in Int /\ Len(queue) \in Int /\ \A i \in k + 1 .. Len(queue) : queue[i] \in Entries
    BY <1>1
  <2>2. QED
    BY <1>1, <2>1, SubSeqProperties
<1> HIDE DEF front, rest
<1>9. /\ front \o rest \in Seq(Entries) /\ Len(front \o rest) = Len(queue) - 1
      /\ \A i \in 1 .. Len(queue) - 1 :
           (front \o rest)[i] = IF i <= k - 1 THEN front[i] ELSE rest[i - (k - 1)]
  <2>1. front \in Seq(Entries) /\ rest \in Seq(Entries) /\ k \in Nat
        /\ Len(front) + Len(rest) = Len(queue) - 1
    BY <1>1, <1>7, <1>8
  <2>2. /\ front \o rest \in Seq(Entries)
        /\ Len(front \o rest) = Len(front) + Len(rest)
        /\ \A i \in 1 .. Len(front) + Len(rest) :
             (front \o rest)[i] = IF i <= Len(front) THEN front[i] ELSE rest[i - Len(front)]
    BY <2>1, ConcatProperties
  <2>3. QED
    BY <1>7, <2>1, <2>2
<1>10. \A i \in 1 .. Len(queue) - 1 : (front \o rest)[i] = queue[IF i < k THEN i ELSE i + 1]
  BY <1>1, <1>7, <1>8, <1>9
<1>11. QED
  BY <1>6, <1>9, <1>10 DEF Shortened, front, rest

\* A removal takes the first entry of the id out of its queue, of which there
\* may be more.
LEMMA FirstShortens ==
  ASSUME NEW queue \in Seq(Entries), NEW id, \E i \in 1 .. Len(queue) : queue[i].id = id
  PROVE  \E k \in 1 .. Len(queue) :
           queue[k].id = id /\ Shortened(queue, k, RemoveFromQueue(queue, id))
<1>1. Len(queue) \in Nat /\ \A i \in 1 .. Len(queue) : queue[i] \in Entries
  BY LenProperties, ElementOfSeq
<1> DEFINE I == { i \in 1 .. Len(queue) : queue[i].id = id }
           k == Min(I)
<1>2. I \subseteq Nat /\ I # {}
  BY <1>1
<1>3. k \in I
  <2> HIDE DEF I
  <2>1. QED
    BY <1>2, LeastExists
<1>4. k \in 1 .. Len(queue) /\ queue[k].id = id
  <2> HIDE DEF k
  <2>1. QED
    BY <1>3
<1>5. SelectInSeq(queue, LAMBDA entry : entry.id = id) = k
  BY <1>2 DEF SelectInSeq
<1> HIDE DEF k, I
<1>6. RemoveFromQueue(queue, id) = RemoveAt(queue, k)
  BY <1>4, <1>5 DEF RemoveFromQueue, RemoveFirstMatch
<1>7. QED
  BY <1>4, <1>6, RemovalAt

-------------------------------------------------------------------------------
(* The book *)

\* A book whose sides are well formed, whatever its index says.
QueuedBook(b) ==
  /\ b = [bids |-> b.bids, asks |-> b.asks, index |-> b.index]
  /\ QueuesOK(b.bids, "buy") /\ QueuesOK(b.asks, "sell")

\* The two sides hold orders of their own, and no submission is there twice.
BookOK(b) ==
  /\ b = [bids |-> b.bids, asks |-> b.asks, index |-> b.index]
  /\ LevelsOK(b.bids, "buy") /\ LevelsOK(b.asks, "sell")
  /\ \A x \in OrdersOn(b.bids), y \in OrdersOn(b.asks) : x.timestamp # y.timestamp

\* The index finds what it knows, and it knows all that rests, but for the ids
\* of which there are, or were, several: those in d.
IndexOK(b, d) ==
  /\ IndexFindsOrders(b)
  /\ RestingIds(b) \subseteq DOMAIN b.index \cup d
  /\ \A x, y \in Resting(b) : x.id = y.id => x = y \/ x.id \in d

BookFifo(b) == Fifo(b.bids) /\ Fifo(b.asks)

LEMMA EmptyBookOK ==
  /\ BookOK(EmptyBook) /\ BookFifo(EmptyBook) /\ Resting(EmptyBook) = {}
  /\ IndexOK(EmptyBook, {})
<1>1. DOMAIN EmptyMap = {}
  BY DEF EmptyMap
<1>2. OrdersOn(EmptyMap) = {}
  BY <1>1, OrdersOnLevels
<1>3. LevelsOK(EmptyMap, "buy") /\ LevelsOK(EmptyMap, "sell") /\ Fifo(EmptyMap)
  BY <1>1, FS_EmptySet DEF LevelsOK, QueuesOK, Fifo
<1> HIDE DEF EmptyMap
<1>4. EmptyBook.bids = EmptyMap /\ EmptyBook.asks = EmptyMap /\ EmptyBook.index = EmptyMap
  BY DEF EmptyBook
<1>5. EmptyBook = [bids |-> EmptyBook.bids, asks |-> EmptyBook.asks, index |-> EmptyBook.index]
  BY DEF EmptyBook
<1>6. Resting(EmptyBook) = {}
  BY <1>2, <1>4 DEF Resting
<1>7. IndexOK(EmptyBook, {})
  BY <1>1, <1>4, <1>6 DEF IndexOK, IndexFindsOrders, RestingIds
<1>8. QED
  BY <1>2, <1>3, <1>4, <1>5, <1>6, <1>7 DEF BookOK, BookFifo

\* Ids that no longer rest may be forgotten.
LEMMA IndexShrinks ==
  ASSUME NEW b, NEW d, IndexOK(b, d)
  PROVE  IndexOK(b, d \cap RestingIds(b))
BY DEF IndexOK, RestingIds

LEMMA BookIsQueued ==
  ASSUME NEW b, BookOK(b)
  PROVE  QueuedBook(b)
BY DEF BookOK, LevelsOK, QueuedBook

LEMMA QueuedFacts ==
  ASSUME NEW b, QueuedBook(b)
  PROVE  /\ \A e \in OrdersOn(b.bids) :
              e \in Entries /\ e.side = "buy" /\ e.price \in DOMAIN b.bids
         /\ \A e \in OrdersOn(b.asks) :
              e \in Entries /\ e.side = "sell" /\ e.price \in DOMAIN b.asks
         /\ \A e \in Resting(b) : e \in Entries
         /\ DOMAIN b.bids = {} <=> OrdersOn(b.bids) = {}
         /\ DOMAIN b.asks = {} <=> OrdersOn(b.asks) = {}
BY SideFacts DEF QueuedBook, Resting

LEMMA RestingFacts ==
  ASSUME NEW b, BookOK(b)
  PROVE  /\ \A e \in OrdersOn(b.bids) :
              e \in Entries /\ e.side = "buy" /\ e.price \in DOMAIN b.bids
         /\ \A e \in OrdersOn(b.asks) :
              e \in Entries /\ e.side = "sell" /\ e.price \in DOMAIN b.asks
         /\ \A e, other \in Resting(b) : e.timestamp = other.timestamp => e = other
<1>1. LevelsOK(b.bids, "buy") /\ LevelsOK(b.asks, "sell")
  BY DEF BookOK
<1>2. \A e \in OrdersOn(b.bids) : e \in Entries /\ e.side = "buy" /\ e.price \in DOMAIN b.bids
  BY <1>1, OrdersOnFacts
<1>3. \A e \in OrdersOn(b.asks) : e \in Entries /\ e.side = "sell" /\ e.price \in DOMAIN b.asks
  BY <1>1, OrdersOnFacts
<1>4. ASSUME NEW e \in Resting(b), NEW other \in Resting(b), e.timestamp = other.timestamp
      PROVE  e = other
  <2>1. \/ e \in OrdersOn(b.bids) /\ other \in OrdersOn(b.bids)
        \/ e \in OrdersOn(b.asks) /\ other \in OrdersOn(b.asks)
    BY <1>4 DEF Resting, BookOK
  <2>2. QED
    BY <1>1, <1>4, <2>1, OrdersOnFacts
<1>5. QED
  BY <1>2, <1>3, <1>4

\* AddOrder adds one resting order, behind the others at its price, and the
\* index knows it alone of those with its id.
LEMMA OrderAdded ==
  ASSUME NEW b, BookOK(b), NEW e \in Entries, \A x \in Resting(b) : x.timestamp # e.timestamp
  PROVE  LET new == AddOrder(b, e)
         IN  /\ BookOK(new)
             /\ OrdersOn(new.bids) = OrdersOn(b.bids) \cup (IF e.side = "buy" THEN {e} ELSE {})
             /\ OrdersOn(new.asks) = OrdersOn(b.asks) \cup (IF e.side = "sell" THEN {e} ELSE {})
             /\ BookFifo(b) /\ (\/ e.quantity < Original(e.id).quantity
                                \/ \A x \in Resting(b) : x.timestamp <= e.timestamp)
                  => BookFifo(new)
             /\ \A d : IndexOK(b, d) /\ (\A x \in Resting(b) : x.id = e.id => x.id \in d)
                  => IndexOK(new, d)
<1> DEFINE new == AddOrder(b, e)
<1>1. /\ new.bids = IF e.side = "buy" THEN Enqueue(b.bids, e) ELSE b.bids
      /\ new.asks = IF e.side = "sell" THEN Enqueue(b.asks, e) ELSE b.asks
      /\ new.index = Put(b.index, e.id, << e.side, e.price >>)
      /\ new = [bids |-> new.bids, asks |-> new.asks, index |-> new.index]
  BY DEF AddOrder
<1> HIDE DEF new
<1>2. LevelsOK(b.bids, "buy") /\ LevelsOK(b.asks, "sell")
  BY DEF BookOK
<1>3. e.side \in {"buy", "sell"}
  BY EntryFacts
<1>4. \A x \in OrdersOn(b.bids), y \in OrdersOn(b.asks) : x.timestamp # y.timestamp
  BY DEF BookOK
<1>5. e.side = "buy" => /\ LevelsOK(new.bids, "buy")
                        /\ OrdersOn(new.bids) = OrdersOn(b.bids) \cup {e}
                        /\ Fifo(b.bids) /\ (\/ e.quantity < Original(e.id).quantity
                                            \/ \A x \in Resting(b) : x.timestamp <= e.timestamp)
                             => Fifo(new.bids)
  <2>1. SUFFICES ASSUME e.side = "buy"
                 PROVE  /\ LevelsOK(new.bids, "buy")
                        /\ OrdersOn(new.bids) = OrdersOn(b.bids) \cup {e}
                        /\ Fifo(b.bids) /\ (\/ e.quantity < Original(e.id).quantity
                                            \/ \A x \in Resting(b) : x.timestamp <= e.timestamp)
                             => Fifo(new.bids)
    OBVIOUS
  <2>2. \A x \in OrdersOn(b.bids) : x \in Resting(b) /\ x.timestamp # e.timestamp
    BY DEF Resting
  <2>3. new.bids = Enqueue(b.bids, e)
    BY <1>1, <2>1
  <2>4. QED
    BY <1>2, <2>1, <2>2, <2>3, Enqueued
<1>6. e.side = "sell" => /\ LevelsOK(new.asks, "sell")
                         /\ OrdersOn(new.asks) = OrdersOn(b.asks) \cup {e}
                         /\ Fifo(b.asks) /\ (\/ e.quantity < Original(e.id).quantity
                                             \/ \A x \in Resting(b) : x.timestamp <= e.timestamp)
                              => Fifo(new.asks)
  <2>1. SUFFICES ASSUME e.side = "sell"
                 PROVE  /\ LevelsOK(new.asks, "sell")
                        /\ OrdersOn(new.asks) = OrdersOn(b.asks) \cup {e}
                        /\ Fifo(b.asks) /\ (\/ e.quantity < Original(e.id).quantity
                                            \/ \A x \in Resting(b) : x.timestamp <= e.timestamp)
                             => Fifo(new.asks)
    OBVIOUS
  <2>2. \A x \in OrdersOn(b.asks) : x \in Resting(b) /\ x.timestamp # e.timestamp
    BY DEF Resting
  <2>3. new.asks = Enqueue(b.asks, e)
    BY <1>1, <2>1
  <2>4. QED
    BY <1>2, <2>1, <2>2, <2>3, Enqueued
<1>7. e.side # "buy" => new.bids = b.bids
  BY <1>1
<1>8. e.side # "sell" => new.asks = b.asks
  BY <1>1
<1>9. /\ OrdersOn(new.bids) = OrdersOn(b.bids) \cup (IF e.side = "buy" THEN {e} ELSE {})
      /\ OrdersOn(new.asks) = OrdersOn(b.asks) \cup (IF e.side = "sell" THEN {e} ELSE {})
  BY <1>5, <1>6, <1>7, <1>8
<1>10. LevelsOK(new.bids, "buy") /\ LevelsOK(new.asks, "sell")
  BY <1>2, <1>5, <1>6, <1>7, <1>8
<1>11. Resting(new) = Resting(b) \cup {e}
  BY <1>3, <1>9 DEF Resting
<1>12. ASSUME NEW d, IndexOK(b, d), \A x \in Resting(b) : x.id = e.id => x.id \in d
       PROVE  IndexOK(new, d)
  <2>1. /\ DOMAIN new.index = DOMAIN b.index \cup {e.id}
        /\ new.index[e.id] = << e.side, e.price >>
        /\ \A id \in DOMAIN b.index : id # e.id => new.index[id] = b.index[id]
    BY <1>1 DEF Put
  <2>2. IndexFindsOrders(new)
    BY <1>11, <1>12, <2>1 DEF IndexOK, IndexFindsOrders
  <2>3. RestingIds(new) \subseteq DOMAIN new.index \cup d
    BY <1>11, <1>12, <2>1 DEF IndexOK, RestingIds
  <2>4. \A x, y \in Resting(new) : x.id = y.id => x = y \/ x.id \in d
    BY <1>11, <1>12 DEF IndexOK
  <2>5. QED
    BY <2>2, <2>3, <2>4 DEF IndexOK
<1>13. BookOK(new)
  <2>1. \A x \in OrdersOn(new.bids), y \in OrdersOn(new.asks) : x.timestamp # y.timestamp
    BY <1>4, <1>9 DEF Resting
  <2>2. QED
    BY <1>1, <1>10, <2>1 DEF BookOK
<1>14. BookFifo(b) /\ (\/ e.quantity < Original(e.id).quantity
                       \/ \A x \in Resting(b) : x.timestamp <= e.timestamp)
         => BookFifo(new)
  BY <1>3, <1>5, <1>6, <1>7, <1>8 DEF BookFifo
<1>15. QED
  BY <1>9, <1>12, <1>13, <1>14 DEF new

\* A resting order leaves its side, and the index its id.
LEMMA IndexWithout ==
  ASSUME NEW b, NEW d, IndexOK(b, d), NEW e \in Resting(b),
         NEW new, Resting(new) = Resting(b) \ {e}, new.index = Without(b.index, e.id)
  PROVE  IndexOK(new, d)
<1>1. /\ DOMAIN new.index = DOMAIN b.index \ {e.id}
      /\ \A id \in DOMAIN new.index : new.index[id] = b.index[id]
  BY DEF Without
<1>2. IndexFindsOrders(new)
  BY <1>1 DEF IndexOK, IndexFindsOrders
<1>3. RestingIds(new) \subseteq DOMAIN new.index \cup d
  BY <1>1 DEF IndexOK, RestingIds
<1>4. \A x, y \in Resting(new) : x.id = y.id => x = y \/ x.id \in d
  BY DEF IndexOK
<1>5. QED
  BY <1>2, <1>3, <1>4 DEF IndexOK

LEMMA SidesDisjoint ==
  ASSUME NEW b, BookOK(b)
  PROVE  OrdersOn(b.bids) \cap OrdersOn(b.asks) = {}
<1>1. \A e \in OrdersOn(b.bids) : e.side = "buy"
  BY RestingFacts
<1>2. \A e \in OrdersOn(b.asks) : e.side = "sell"
  BY RestingFacts
<1>3. QED
  BY <1>1, <1>2

\* The book new is b without the entry at position k of the bids at a price.
WithoutBid(b, price, k, queue, new) ==
  /\ price \in DOMAIN b.bids /\ k \in 1 .. Len(b.bids[price])
  /\ Shortened(b.bids[price], k, queue)
  /\ new.bids = SetLevel(b.bids, price, queue) /\ new.asks = b.asks
  /\ new.index = Without(b.index, b.bids[price][k].id)
  /\ new = [bids |-> new.bids, asks |-> new.asks, index |-> new.index]

\* The book new is b without the entry at position k of the asks at a price.
WithoutAsk(b, price, k, queue, new) ==
  /\ price \in DOMAIN b.asks /\ k \in 1 .. Len(b.asks[price])
  /\ Shortened(b.asks[price], k, queue)
  /\ new.asks = SetLevel(b.asks, price, queue) /\ new.bids = b.bids
  /\ new.index = Without(b.index, b.asks[price][k].id)
  /\ new = [bids |-> new.bids, asks |-> new.asks, index |-> new.index]

\* Taking an entry out of a level and its id out of the index.
LEMMA BidTakenOut ==
  ASSUME NEW b, BookOK(b), NEW price, NEW k, NEW queue, NEW new,
         WithoutBid(b, price, k, queue, new)
  PROVE  /\ b.bids[price][k] \in OrdersOn(b.bids)
         /\ BookOK(new) /\ (BookFifo(b) => BookFifo(new))
         /\ \A d : IndexOK(b, d) => IndexOK(new, d)
         /\ OrdersOn(new.bids) = OrdersOn(b.bids) \ {b.bids[price][k]}
         /\ new.asks = b.asks
<1> DEFINE e == b.bids[price][k]
<1>1. /\ price \in DOMAIN b.bids /\ k \in 1 .. Len(b.bids[price])
      /\ Shortened(b.bids[price], k, queue)
      /\ new.bids = SetLevel(b.bids, price, queue) /\ new.asks = b.asks
      /\ new.index = Without(b.index, e.id)
      /\ new = [bids |-> new.bids, asks |-> new.asks, index |-> new.index]
  BY DEF WithoutBid
<1>2. LevelsOK(b.bids, "buy") /\ LevelsOK(b.asks, "sell")
  BY DEF BookOK
<1>3. /\ LevelsOK(new.bids, "buy")
      /\ OrdersOn(new.bids) = OrdersOn(b.bids) \ {e}
      /\ Fifo(b.bids) => Fifo(new.bids)
  BY <1>1, <1>2, EntryTakenOut
<1>4. e \in OrdersOn(b.bids)
  BY <1>1, OrdersOnLevels
<1> HIDE DEF e
<1>5. e \in Resting(b) /\ Resting(new) = Resting(b) \ {e}
  BY <1>1, <1>3, <1>4, SidesDisjoint DEF Resting
<1>6. ASSUME NEW d, IndexOK(b, d) PROVE IndexOK(new, d)
  BY <1>1, <1>5, <1>6, IndexWithout
<1>7. BookOK(new)
  BY <1>1, <1>2, <1>3 DEF BookOK
<1>8. QED
  BY <1>1, <1>3, <1>4, <1>6, <1>7 DEF BookFifo, e

LEMMA AskTakenOut ==
  ASSUME NEW b, BookOK(b), NEW price, NEW k, NEW queue, NEW new,
         WithoutAsk(b, price, k, queue, new)
  PROVE  /\ b.asks[price][k] \in OrdersOn(b.asks)
         /\ BookOK(new) /\ (BookFifo(b) => BookFifo(new))
         /\ \A d : IndexOK(b, d) => IndexOK(new, d)
         /\ OrdersOn(new.asks) = OrdersOn(b.asks) \ {b.asks[price][k]}
         /\ new.bids = b.bids
<1> DEFINE e == b.asks[price][k]
<1>1. /\ price \in DOMAIN b.asks /\ k \in 1 .. Len(b.asks[price])
      /\ Shortened(b.asks[price], k, queue)
      /\ new.asks = SetLevel(b.asks, price, queue) /\ new.bids = b.bids
      /\ new.index = Without(b.index, e.id)
      /\ new = [bids |-> new.bids, asks |-> new.asks, index |-> new.index]
  BY DEF WithoutAsk
<1>2. LevelsOK(b.bids, "buy") /\ LevelsOK(b.asks, "sell")
  BY DEF BookOK
<1>3. /\ LevelsOK(new.asks, "sell")
      /\ OrdersOn(new.asks) = OrdersOn(b.asks) \ {e}
      /\ Fifo(b.asks) => Fifo(new.asks)
  BY <1>1, <1>2, EntryTakenOut
<1>4. e \in OrdersOn(b.asks)
  BY <1>1, OrdersOnLevels
<1> HIDE DEF e
<1>5. e \in Resting(b) /\ Resting(new) = Resting(b) \ {e}
  BY <1>1, <1>3, <1>4, SidesDisjoint DEF Resting
<1>6. ASSUME NEW d, IndexOK(b, d) PROVE IndexOK(new, d)
  BY <1>1, <1>5, <1>6, IndexWithout
<1>7. BookOK(new)
  BY <1>1, <1>2, <1>3 DEF BookOK
<1>8. QED
  BY <1>1, <1>3, <1>4, <1>6, <1>7 DEF BookFifo, e

\* The best bid has the highest price of all bids, the best ask the lowest of
\* all asks.
LEMMA BestBid ==
  ASSUME NEW b, QueuedBook(b), DOMAIN b.bids # {}
  PROVE  /\ BestBidPrice(b) \in DOMAIN b.bids /\ BestBidPrice(b) \in Nat
         /\ PeekBestBid(b) \in OrdersOn(b.bids) /\ PeekBestBid(b).price = BestBidPrice(b)
         /\ \A x \in OrdersOn(b.bids) : x.price <= BestBidPrice(b)
<1> DEFINE price == BestBidPrice(b)
<1>1. QueuesOK(b.bids, "buy")
  BY DEF QueuedBook
<1>2. DOMAIN b.bids \subseteq Nat /\ IsFiniteSet(DOMAIN b.bids)
  BY <1>1 DEF QueuesOK
<1>3. price \in DOMAIN b.bids /\ \A p \in DOMAIN b.bids : p <= price
  BY <1>2, GreatestExists DEF BestBidPrice
<1> HIDE DEF price
<1>4. b.bids[price] \in Seq(Entries) /\ b.bids[price] # << >>
  BY <1>1, <1>3 DEF QueuesOK
<1>5. PeekBestBid(b) = b.bids[price][1] /\ 1 \in 1 .. Len(b.bids[price])
  BY <1>4, TailShortens DEF PeekBestBid, price
<1>6. PeekBestBid(b) \in OrdersOn(b.bids) /\ PeekBestBid(b).price = price
  BY <1>1, <1>3, <1>5, OrdersOnLevels DEF QueuesOK
<1>7. \A x \in OrdersOn(b.bids) : x.price \in DOMAIN b.bids
  BY QueuedFacts
<1>8. QED
  BY <1>2, <1>3, <1>6, <1>7 DEF price

LEMMA BestAsk ==
  ASSUME NEW b, QueuedBook(b), DOMAIN b.asks # {}
  PROVE  /\ BestAskPrice(b) \in DOMAIN b.asks /\ BestAskPrice(b) \in Nat
         /\ PeekBestAsk(b) \in OrdersOn(b.asks) /\ PeekBestAsk(b).price = BestAskPrice(b)
         /\ \A x \in OrdersOn(b.asks) : BestAskPrice(b) <= x.price
<1> DEFINE price == BestAskPrice(b)
<1>1. QueuesOK(b.asks, "sell")
  BY DEF QueuedBook
<1>2. DOMAIN b.asks \subseteq Nat
  BY <1>1 DEF QueuesOK
<1>3. price \in DOMAIN b.asks /\ \A p \in DOMAIN b.asks : price <= p
  BY <1>2, LeastExists DEF BestAskPrice
<1> HIDE DEF price
<1>4. b.asks[price] \in Seq(Entries) /\ b.asks[price] # << >>
  BY <1>1, <1>3 DEF QueuesOK
<1>5. PeekBestAsk(b) = b.asks[price][1] /\ 1 \in 1 .. Len(b.asks[price])
  BY <1>4, TailShortens DEF PeekBestAsk, price
<1>6. PeekBestAsk(b) \in OrdersOn(b.asks) /\ PeekBestAsk(b).price = price
  BY <1>1, <1>3, <1>5, OrdersOnLevels DEF QueuesOK
<1>7. \A x \in OrdersOn(b.asks) : x.price \in DOMAIN b.asks
  BY QueuedFacts
<1>8. QED
  BY <1>2, <1>3, <1>6, <1>7 DEF price

\* An order on a side gives the side a level.
LEMMA SideNotEmpty ==
  ASSUME NEW b, BookOK(b)
  PROVE  /\ DOMAIN b.bids = {} <=> OrdersOn(b.bids) = {}
         /\ DOMAIN b.asks = {} <=> OrdersOn(b.asks) = {}
BY OrdersOnFacts DEF BookOK

\* The book crosses exactly when a bid is at or above an ask.
LEMMA CrossingPair ==
  ASSUME NEW b, BookOK(b)
  PROVE  HasCrossing(b) <=> \E x \in OrdersOn(b.bids), y \in OrdersOn(b.asks) : x.price >= y.price
<1>1. ASSUME HasCrossing(b)
      PROVE  \E x \in OrdersOn(b.bids), y \in OrdersOn(b.asks) : x.price >= y.price
  <2>1. DOMAIN b.bids # {} /\ DOMAIN b.asks # {} /\ BestBidPrice(b) >= BestAskPrice(b)
    BY <1>1 DEF HasCrossing
  <2>2. /\ PeekBestBid(b) \in OrdersOn(b.bids) /\ PeekBestAsk(b) \in OrdersOn(b.asks)
        /\ PeekBestBid(b).price >= PeekBestAsk(b).price
    BY <2>1, BestBid, BestAsk, BookIsQueued
  <2>3. QED
    BY <2>2
<1>2. ASSUME NEW x \in OrdersOn(b.bids), NEW y \in OrdersOn(b.asks), x.price >= y.price
      PROVE  HasCrossing(b)
  <2>1. DOMAIN b.bids # {} /\ DOMAIN b.asks # {}
    BY SideNotEmpty
  <2>2. /\ BestBidPrice(b) \in Nat /\ x.price <= BestBidPrice(b)
        /\ BestAskPrice(b) \in Nat /\ BestAskPrice(b) <= y.price
    BY <2>1, BestBid, BestAsk, BookIsQueued
  <2>3. x.price \in Nat /\ y.price \in Nat
    BY RestingFacts, EntryFacts
  <2>4. BestBidPrice(b) >= BestAskPrice(b)
    BY <1>2, <2>2, <2>3
  <2>5. QED
    BY <2>1, <2>4 DEF HasCrossing
<1>3. QED
  BY <1>1, <1>2

LEMMA BidPopped ==
  ASSUME NEW b, BookOK(b), DOMAIN b.bids # {}
  PROVE  LET new == PopBestBid(b)
         IN  /\ BookOK(new) /\ (BookFifo(b) => BookFifo(new))
             /\ \A d : IndexOK(b, d) => IndexOK(new, d)
             /\ OrdersOn(new.bids) = OrdersOn(b.bids) \ {PeekBestBid(b)}
             /\ new.asks = b.asks
<1> DEFINE price == BestBidPrice(b)
           queue == Tail(b.bids[price])
           new == PopBestBid(b)
<1>1. price \in DOMAIN b.bids
  BY BestBid, BookIsQueued
<1>2. b.bids[price] \in Seq(Entries) /\ b.bids[price] # << >>
  BY <1>1 DEF BookOK, LevelsOK, QueuesOK
<1>3. /\ 1 \in 1 .. Len(b.bids[price]) /\ PeekBestBid(b) = b.bids[price][1]
      /\ Shortened(b.bids[price], 1, queue)
  BY <1>2, TailShortens DEF PeekBestBid
<1>4. PICK bids, asks, index : b = [bids |-> bids, asks |-> asks, index |-> index]
  BY DEF BookOK
<1>5. new = [b EXCEPT !.bids = SetLevel(b.bids, price, queue), !.asks = @, !.index = Without(@, PeekBestBid(b).id)]
  BY <1>4 DEF PopBestBid
<1>6. WithoutBid(b, price, 1, queue, new)
  <2> HIDE DEF new, price, queue
  <2>1. QED
    BY <1>1, <1>3, <1>4, <1>5 DEF WithoutBid
<1> HIDE DEF price, queue, new
<1>7. QED
  BY <1>3, <1>6, BidTakenOut DEF new

LEMMA AskPopped ==
  ASSUME NEW b, BookOK(b), DOMAIN b.asks # {}
  PROVE  LET new == PopBestAsk(b)
         IN  /\ BookOK(new) /\ (BookFifo(b) => BookFifo(new))
             /\ \A d : IndexOK(b, d) => IndexOK(new, d)
             /\ OrdersOn(new.asks) = OrdersOn(b.asks) \ {PeekBestAsk(b)}
             /\ new.bids = b.bids
<1> DEFINE price == BestAskPrice(b)
           queue == Tail(b.asks[price])
           new == PopBestAsk(b)
<1>1. price \in DOMAIN b.asks
  BY BestAsk, BookIsQueued
<1>2. b.asks[price] \in Seq(Entries) /\ b.asks[price] # << >>
  BY <1>1 DEF BookOK, LevelsOK, QueuesOK
<1>3. /\ 1 \in 1 .. Len(b.asks[price]) /\ PeekBestAsk(b) = b.asks[price][1]
      /\ Shortened(b.asks[price], 1, queue)
  BY <1>2, TailShortens DEF PeekBestAsk
<1>4. PICK bids, asks, index : b = [bids |-> bids, asks |-> asks, index |-> index]
  BY DEF BookOK
<1>5. new = [b EXCEPT !.bids = @, !.asks = SetLevel(b.asks, price, queue), !.index = Without(@, PeekBestAsk(b).id)]
  BY <1>4 DEF PopBestAsk
<1>6. WithoutAsk(b, price, 1, queue, new)
  <2> HIDE DEF new, price, queue
  <2>1. QED
    BY <1>1, <1>3, <1>4, <1>5 DEF WithoutAsk
<1> HIDE DEF price, queue, new
<1>7. QED
  BY <1>3, <1>6, AskTakenOut DEF new

\* remove_order takes one order of an id that the index knows out of the book.
LEMMA OrderRemoved ==
  ASSUME NEW b, BookOK(b), IndexFindsOrders(b), NEW id \in DOMAIN b.index
  PROVE  \E e \in Resting(b) :
           /\ e.id = id
           /\ BookOK(RemoveOrder(b, id)) /\ (BookFifo(b) => BookFifo(RemoveOrder(b, id)))
           /\ \A d : IndexOK(b, d) => IndexOK(RemoveOrder(b, id), d)
           /\ OrdersOn(RemoveOrder(b, id).bids) = OrdersOn(b.bids) \ {e}
           /\ OrdersOn(RemoveOrder(b, id).asks) = OrdersOn(b.asks) \ {e}
<1>1. PICK e0 \in Resting(b) : e0.id = id /\ b.index[id] = << e0.side, e0.price >>
  BY DEF IndexFindsOrders
<1> DEFINE new == RemoveOrder(b, id)
<1>3. new = [bids  |-> IF e0.side = "buy" THEN RemoveFromLevels(b.bids, e0.price, id) ELSE b.bids,
             asks  |-> IF e0.side = "sell" THEN RemoveFromLevels(b.asks, e0.price, id) ELSE b.asks,
             index |-> Without(b.index, id)]
  BY <1>1 DEF RemoveOrder
<1> HIDE DEF new
<1>4. CASE e0 \in OrdersOn(b.bids)
  <2>1. e0.side = "buy" /\ e0.price \in DOMAIN b.bids
    BY <1>4, RestingFacts
  <2> DEFINE price == e0.price
             queue == RemoveFromQueue(b.bids[price], id)
  <2>2. PICK p \in DOMAIN b.bids : \E i \in 1 .. Len(b.bids[p]) : e0 = b.bids[p][i]
    BY <1>4, OrdersOnLevels
  <2>3. PICK i \in 1 .. Len(b.bids[p]) : e0 = b.bids[p][i]
    BY <2>2
  <2>4. p = price /\ b.bids[price] \in Seq(Entries)
    BY <2>3 DEF BookOK, LevelsOK, QueuesOK
  <2>5. \E j \in 1 .. Len(b.bids[price]) : b.bids[price][j].id = id
    BY <1>1, <2>3, <2>4
  <2> HIDE DEF price
  <2>6. PICK k \in 1 .. Len(b.bids[price]) :
          b.bids[price][k].id = id /\ Shortened(b.bids[price], k, queue)
    BY <2>4, <2>5, FirstShortens
  <2> DEFINE e == b.bids[price][k]
  <2>7. WithoutBid(b, price, k, queue, new)
    BY <1>3, <2>1, <2>6 DEF RemoveFromLevels, WithoutBid, price
  <2> HIDE DEF queue
  <2>8. /\ e \in OrdersOn(b.bids)
        /\ BookOK(new) /\ (BookFifo(b) => BookFifo(new))
        /\ \A d : IndexOK(b, d) => IndexOK(new, d)
        /\ OrdersOn(new.bids) = OrdersOn(b.bids) \ {e} /\ new.asks = b.asks
    BY <2>7, BidTakenOut
  <2> HIDE DEF e
  <2>9. e \in Resting(b) /\ OrdersOn(new.asks) = OrdersOn(b.asks) \ {e}
    BY <2>8, SidesDisjoint DEF Resting
  <2>10. e.id = id
    BY <2>6 DEF e
  <2>11. QED
    BY <2>8, <2>9, <2>10 DEF new
<1>5. CASE e0 \in OrdersOn(b.asks)
  <2>1. e0.side = "sell" /\ e0.price \in DOMAIN b.asks
    BY <1>5, RestingFacts
  <2> DEFINE price == e0.price
             queue == RemoveFromQueue(b.asks[price], id)
  <2>2. PICK p \in DOMAIN b.asks : \E i \in 1 .. Len(b.asks[p]) : e0 = b.asks[p][i]
    BY <1>5, OrdersOnLevels
  <2>3. PICK i \in 1 .. Len(b.asks[p]) : e0 = b.asks[p][i]
    BY <2>2
  <2>4. p = price /\ b.asks[price] \in Seq(Entries)
    BY <2>3 DEF BookOK, LevelsOK, QueuesOK
  <2>5. \E j \in 1 .. Len(b.asks[price]) : b.asks[price][j].id = id
    BY <1>1, <2>3, <2>4
  <2> HIDE DEF price
  <2>6. PICK k \in 1 .. Len(b.asks[price]) :
          b.asks[price][k].id = id /\ Shortened(b.asks[price], k, queue)
    BY <2>4, <2>5, FirstShortens
  <2> DEFINE e == b.asks[price][k]
  <2>7. WithoutAsk(b, price, k, queue, new)
    BY <1>3, <2>1, <2>6 DEF RemoveFromLevels, WithoutAsk, price
  <2> HIDE DEF queue
  <2>8. /\ e \in OrdersOn(b.asks)
        /\ BookOK(new) /\ (BookFifo(b) => BookFifo(new))
        /\ \A d : IndexOK(b, d) => IndexOK(new, d)
        /\ OrdersOn(new.asks) = OrdersOn(b.asks) \ {e} /\ new.bids = b.bids
    BY <2>7, AskTakenOut
  <2> HIDE DEF e
  <2>9. e \in Resting(b) /\ OrdersOn(new.bids) = OrdersOn(b.bids) \ {e}
    BY <2>8, SidesDisjoint DEF Resting
  <2>10. e.id = id
    BY <2>6 DEF e
  <2>11. QED
    BY <2>8, <2>9, <2>10 DEF new
<1>6. QED
  BY <1>4, <1>5 DEF Resting

-------------------------------------------------------------------------------
(* One iteration of run_matching *)

\* What is left of an entry after a fill: nothing, or the entry with less.
Left(e, q) == IF e.quantity > q THEN {[e EXCEPT !.quantity = @ - q]} ELSE {}

LEMMA LeftFacts ==
  ASSUME NEW e \in Entries, NEW q \in Nat \ {0}, q <= e.quantity
  PROVE  \A x \in Left(e, q) :
           /\ x \in Entries
           /\ x.id = e.id /\ x.side = e.side /\ x.price = e.price /\ x.timestamp = e.timestamp
           /\ x.quantity = e.quantity - q
           /\ x.quantity < Original(x.id).quantity
<1>1. SUFFICES ASSUME e.quantity > q, NEW x, x = [e EXCEPT !.quantity = @ - q]
               PROVE  /\ x \in Entries
                      /\ x.id = e.id /\ x.side = e.side /\ x.price = e.price
                      /\ x.timestamp = e.timestamp /\ x.quantity = e.quantity - q
                      /\ x.quantity < Original(x.id).quantity
  BY DEF Left
<1>2. e.quantity \in Nat /\ Original(e.id).quantity \in Nat /\ e.quantity <= Original(e.id).quantity
  BY EntryFacts
<1>3. e.quantity - q \in 1 .. e.quantity
  BY <1>1, <1>2
<1>4. x = [e EXCEPT !.quantity = e.quantity - q]
  BY <1>1
<1>5. /\ x \in Entries /\ x.id = e.id /\ x.side = e.side /\ x.price = e.price
      /\ x.timestamp = e.timestamp /\ x.quantity = e.quantity - q
  BY <1>3, <1>4, ReducedEntry
<1>6. QED
  BY <1>2, <1>5

\* What is left goes to the back of its level, if anything is.
LEMMA Reinserted ==
  ASSUME NEW b, BookOK(b), NEW e \in Entries, NEW q \in Nat \ {0}, q <= e.quantity,
         \A x \in Resting(b) : x.timestamp # e.timestamp
  PROVE  LET new == Reinsert(b, e, q)
         IN  /\ BookOK(new) /\ (BookFifo(b) => BookFifo(new))
             /\ OrdersOn(new.bids) =
                  OrdersOn(b.bids) \cup (IF e.side = "buy" THEN Left(e, q) ELSE {})
             /\ OrdersOn(new.asks) =
                  OrdersOn(b.asks) \cup (IF e.side = "sell" THEN Left(e, q) ELSE {})
             /\ \A d : IndexOK(b, d) /\ (\A x \in Resting(b) : x.id = e.id => x.id \in d)
                  => IndexOK(new, d)
<1> DEFINE new == Reinsert(b, e, q)
<1>1. CASE e.quantity > q
  <2> DEFINE x == [e EXCEPT !.quantity = @ - q]
  <2>1. new = AddOrder(b, x) /\ Left(e, q) = {x}
    BY <1>1 DEF Reinsert, Left
  <2>2. /\ x \in Entries /\ x.id = e.id /\ x.side = e.side /\ x.timestamp = e.timestamp
        /\ x.quantity < Original(x.id).quantity
    BY <2>1, LeftFacts
  <2> HIDE DEF x, new
  <2>3. /\ BookOK(new) /\ (BookFifo(b) => BookFifo(new))
        /\ OrdersOn(new.bids) = OrdersOn(b.bids) \cup (IF x.side = "buy" THEN {x} ELSE {})
        /\ OrdersOn(new.asks) = OrdersOn(b.asks) \cup (IF x.side = "sell" THEN {x} ELSE {})
        /\ \A d : IndexOK(b, d) /\ (\A y \in Resting(b) : y.id = x.id => y.id \in d) => IndexOK(new, d)
    BY <2>1, <2>2, OrderAdded
  <2>4. QED
    BY <2>1, <2>2, <2>3 DEF new
<1>2. CASE ~(e.quantity > q)
  <2>1. new = b /\ Left(e, q) = {}
    BY <1>2 DEF Reinsert, Left
  <2> HIDE DEF new
  <2>2. QED
    BY <2>1 DEF new
<1>3. QED
  BY <1>1, <1>2

\* The best bid and the best ask trade what the smaller of them has left; the
\* other one stays with the rest, and all other orders as they were.
LEMMA Traded ==
  ASSUME NEW b, BookOK(b), HasCrossing(b)
  PROVE  LET trade == NextTrade(b)
             new == AfterTrade(b)
         IN  /\ trade = [buy |-> trade.buy, sell |-> trade.sell,
                         price |-> trade.price, quantity |-> trade.quantity]
             /\ trade.price = trade.sell.price
             /\ trade.buy \in OrdersOn(b.bids) /\ trade.sell \in OrdersOn(b.asks)
             /\ \A x \in OrdersOn(b.bids) : x.price <= trade.buy.price
             /\ \A y \in OrdersOn(b.asks) : trade.sell.price <= y.price
             /\ trade.buy.price >= trade.sell.price
             /\ trade.quantity \in Nat \ {0}
             /\ trade.quantity = IF trade.buy.quantity <= trade.sell.quantity
                                 THEN trade.buy.quantity ELSE trade.sell.quantity
             /\ trade.quantity <= trade.buy.quantity /\ trade.quantity <= trade.sell.quantity
             /\ BookOK(new) /\ (BookFifo(b) => BookFifo(new))
             /\ \A d : IndexOK(b, d) => IndexOK(new, d)
             /\ OrdersOn(new.bids) =
                  (OrdersOn(b.bids) \ {trade.buy}) \cup Left(trade.buy, trade.quantity)
             /\ OrdersOn(new.asks) =
                  (OrdersOn(b.asks) \ {trade.sell}) \cup Left(trade.sell, trade.quantity)
<1> DEFINE bid == PeekBestBid(b)
           ask == PeekBestAsk(b)
           q == ExecutionQuantity(bid, ask)
           one == PopBestBid(b)
           two == PopBestAsk(one)
           three == Reinsert(two, bid, q)
           new == Reinsert(three, ask, q)
<1>1. DOMAIN b.bids # {} /\ DOMAIN b.asks # {} /\ BestBidPrice(b) >= BestAskPrice(b)
  BY DEF HasCrossing
<1>2. /\ bid \in OrdersOn(b.bids) /\ bid.price = BestBidPrice(b)
      /\ \A x \in OrdersOn(b.bids) : x.price <= BestBidPrice(b)
      /\ ask \in OrdersOn(b.asks) /\ ask.price = BestAskPrice(b)
      /\ \A y \in OrdersOn(b.asks) : BestAskPrice(b) <= y.price
  BY <1>1, BestBid, BestAsk, BookIsQueued
<1>3. NextTrade(b) = [buy |-> bid, sell |-> ask, price |-> ask.price, quantity |-> q]
  BY DEF NextTrade, ExecutionPrice
<1>4. AfterTrade(b) = new
  BY <1>3 DEF AfterTrade
<1> HIDE DEF bid, ask
<1>5. /\ bid \in Entries /\ bid.side = "buy" /\ bid.quantity \in Nat \ {0}
      /\ ask \in Entries /\ ask.side = "sell" /\ ask.quantity \in Nat \ {0}
  BY <1>2, RestingFacts, EntryFacts
<1>6. /\ q \in Nat \ {0} /\ q <= bid.quantity /\ q <= ask.quantity
      /\ q = IF bid.quantity <= ask.quantity THEN bid.quantity ELSE ask.quantity
  BY <1>5 DEF ExecutionQuantity
<1> HIDE DEF q, one, two, three, new
<1>7. /\ BookOK(one) /\ (BookFifo(b) => BookFifo(one))
      /\ \A d : IndexOK(b, d) => IndexOK(one, d)
      /\ OrdersOn(one.bids) = OrdersOn(b.bids) \ {bid} /\ one.asks = b.asks
  BY <1>1, BidPopped DEF one, bid
<1>8. PeekBestAsk(one) = ask
  BY <1>7 DEF PeekBestAsk, BestAskPrice, ask
<1>9. /\ BookOK(two) /\ (BookFifo(b) => BookFifo(two))
      /\ \A d : IndexOK(b, d) => IndexOK(two, d)
      /\ OrdersOn(two.asks) = OrdersOn(b.asks) \ {ask} /\ two.bids = one.bids
  <2>1. DOMAIN one.asks # {}
    BY <1>1, <1>7
  <2>2. /\ BookOK(two) /\ (BookFifo(one) => BookFifo(two))
        /\ \A d : IndexOK(one, d) => IndexOK(two, d)
        /\ OrdersOn(two.asks) = OrdersOn(one.asks) \ {PeekBestAsk(one)} /\ two.bids = one.bids
    BY <1>7, <2>1, AskPopped DEF two
  <2>3. QED
    BY <1>7, <1>8, <2>2
<1>10. /\ Resting(two) \subseteq Resting(b) \ {bid, ask}
       /\ \A x \in Resting(two) : x.timestamp # bid.timestamp /\ x.timestamp # ask.timestamp
       /\ bid \in Resting(b) /\ ask \in Resting(b) /\ bid.timestamp # ask.timestamp
       /\ bid.id # ask.id
  <2>1. Resting(two) \subseteq Resting(b) \ {bid, ask}
    BY <1>2, <1>7, <1>9, SidesDisjoint DEF Resting
  <2>2. bid \in Resting(b) /\ ask \in Resting(b) /\ bid # ask
    BY <1>2, <1>5 DEF Resting
  <2>3. /\ \A x \in Resting(two) : x.timestamp # bid.timestamp /\ x.timestamp # ask.timestamp
        /\ bid.timestamp # ask.timestamp
    BY <2>1, <2>2, RestingFacts
  <2>4. bid.id # ask.id
    BY <1>5, EntryFacts
  <2>5. QED
    BY <2>1, <2>2, <2>3, <2>4
<1>11. /\ BookOK(three) /\ (BookFifo(b) => BookFifo(three))
       /\ OrdersOn(three.bids) = (OrdersOn(b.bids) \ {bid}) \cup Left(bid, q)
       /\ OrdersOn(three.asks) = OrdersOn(b.asks) \ {ask}
       /\ \A d : IndexOK(b, d) => IndexOK(three, d)
  <2>1. /\ BookOK(two) /\ bid \in Entries /\ q \in Nat \ {0} /\ q <= bid.quantity
        /\ \A x \in Resting(two) : x.timestamp # bid.timestamp
        /\ three = Reinsert(two, bid, q)
    BY <1>5, <1>6, <1>9, <1>10 DEF three
  <2>2. /\ BookOK(three) /\ (BookFifo(two) => BookFifo(three))
        /\ OrdersOn(three.bids) = OrdersOn(two.bids) \cup (IF bid.side = "buy" THEN Left(bid, q) ELSE {})
        /\ OrdersOn(three.asks) = OrdersOn(two.asks) \cup (IF bid.side = "sell" THEN Left(bid, q) ELSE {})
        /\ \A d : IndexOK(two, d) /\ (\A x \in Resting(two) : x.id = bid.id => x.id \in d)
             => IndexOK(three, d)
    BY ONLY <2>1, Reinserted
  <2>3. \A d : IndexOK(b, d) => \A x \in Resting(two) : x.id = bid.id => x.id \in d
    BY <1>10 DEF IndexOK
  <2>4. QED
    BY <1>5, <1>7, <1>9, <2>2, <2>3
<1>12. /\ Resting(three) = Resting(two) \cup Left(bid, q)
       /\ \A x \in Left(bid, q) : x.timestamp = bid.timestamp /\ x.id = bid.id
  <2>1. Resting(three) = Resting(two) \cup Left(bid, q)
    BY <1>7, <1>9, <1>11 DEF Resting
  <2>2. QED
    BY <1>5, <1>6, <2>1, LeftFacts
<1>13. /\ BookOK(new) /\ (BookFifo(b) => BookFifo(new))
       /\ OrdersOn(new.bids) = (OrdersOn(b.bids) \ {bid}) \cup Left(bid, q)
       /\ OrdersOn(new.asks) = (OrdersOn(b.asks) \ {ask}) \cup Left(ask, q)
       /\ \A d : IndexOK(b, d) => IndexOK(new, d)
  <2>1. /\ BookOK(three) /\ ask \in Entries /\ q \in Nat \ {0} /\ q <= ask.quantity
        /\ \A x \in Resting(three) : x.timestamp # ask.timestamp
        /\ new = Reinsert(three, ask, q)
    BY <1>5, <1>6, <1>10, <1>11, <1>12 DEF new
  <2>2. /\ BookOK(new) /\ (BookFifo(three) => BookFifo(new))
        /\ OrdersOn(new.bids) = OrdersOn(three.bids) \cup (IF ask.side = "buy" THEN Left(ask, q) ELSE {})
        /\ OrdersOn(new.asks) = OrdersOn(three.asks) \cup (IF ask.side = "sell" THEN Left(ask, q) ELSE {})
        /\ \A d : IndexOK(three, d) /\ (\A x \in Resting(three) : x.id = ask.id => x.id \in d)
             => IndexOK(new, d)
    BY ONLY <2>1, Reinserted
  <2>3. \A d : IndexOK(b, d) => \A x \in Resting(three) : x.id = ask.id => x.id \in d
    BY <1>10, <1>12 DEF IndexOK
  <2>4. QED
    BY <1>5, <1>11, <2>2, <2>3
<1>14. QED
  BY <1>1, <1>2, <1>3, <1>4, <1>6, <1>13 DEF bid, ask

-------------------------------------------------------------------------------
(* The same, of all orders that rest, on whichever side.                       *)

LEMMA OrderJoins ==
  ASSUME NEW b, BookOK(b), NEW e \in Entries, \A x \in Resting(b) : x.timestamp # e.timestamp
  PROVE  /\ BookOK(AddOrder(b, e))
         /\ Resting(AddOrder(b, e)) = Resting(b) \cup {e}
         /\ \A d : IndexOK(b, d) => IndexOK(AddOrder(b, e), d \cup ({e.id} \cap RestingIds(b)))
<1> DEFINE new == AddOrder(b, e)
<1>1. /\ BookOK(new)
      /\ OrdersOn(new.bids) = OrdersOn(b.bids) \cup (IF e.side = "buy" THEN {e} ELSE {})
      /\ OrdersOn(new.asks) = OrdersOn(b.asks) \cup (IF e.side = "sell" THEN {e} ELSE {})
      /\ \A d : IndexOK(b, d) /\ (\A x \in Resting(b) : x.id = e.id => x.id \in d)
           => IndexOK(new, d)
  BY OrderAdded
<1> HIDE DEF new
<1>2. Resting(new) = Resting(b) \cup {e}
  BY <1>1, EntryFacts DEF Resting
<1>3. ASSUME NEW d, IndexOK(b, d) PROVE IndexOK(new, d \cup ({e.id} \cap RestingIds(b)))
  <2> DEFINE more == d \cup ({e.id} \cap RestingIds(b))
  <2>1. IndexOK(b, more)
    BY <1>3 DEF IndexOK
  <2>2. \A x \in Resting(b) : x.id = e.id => x.id \in more
    BY DEF RestingIds
  <2> HIDE DEF more
  <2>3. QED
    BY <1>1, <2>1, <2>2 DEF more
<1>4. QED
  BY <1>1, <1>2, <1>3 DEF new

LEMMA OrderLeaves ==
  ASSUME NEW b, BookOK(b), NEW d, IndexOK(b, d), NEW id
  PROVE  LET new == RemoveOrder(b, id)
         IN  /\ BookOK(new) /\ IndexOK(new, d)
             /\ Resting(new) \subseteq Resting(b)
             /\ DOMAIN new.index = DOMAIN b.index \ {id}
<1> DEFINE new == RemoveOrder(b, id)
<1>1. CASE id \notin DOMAIN b.index
  BY <1>1 DEF RemoveOrder
<1>2. CASE id \in DOMAIN b.index
  <2>1. new.index = Without(b.index, id)
    BY <1>2 DEF RemoveOrder
  <2>2. DOMAIN new.index = DOMAIN b.index \ {id}
    BY <2>1 DEF Without
  <2>3. IndexFindsOrders(b)
    BY DEF IndexOK
  <2>4. /\ BookOK(new) /\ IndexOK(new, d)
        /\ OrdersOn(new.bids) \subseteq OrdersOn(b.bids)
        /\ OrdersOn(new.asks) \subseteq OrdersOn(b.asks)
    BY <1>2, <2>3, OrderRemoved
  <2> HIDE DEF new
  <2>5. QED
    BY <2>2, <2>4 DEF Resting, new
<1>3. QED
  BY <1>1, <1>2

\* A trade takes its two orders out of book and index, and puts back what is
\* left of the larger.
LEMMA TradeMade ==
  ASSUME NEW b, BookOK(b), HasCrossing(b)
  PROVE  LET trade == NextTrade(b)
             new == AfterTrade(b)
         IN  /\ Resting(new) \subseteq Resting(b) \cup Left(trade.buy, trade.quantity)
                                                  \cup Left(trade.sell, trade.quantity)
             /\ DOMAIN b.index \subseteq DOMAIN new.index \cup {trade.buy.id, trade.sell.id}
<1> DEFINE trade == NextTrade(b)
           new == AfterTrade(b)
<1>1. /\ OrdersOn(new.bids) = (OrdersOn(b.bids) \ {trade.buy}) \cup Left(trade.buy, trade.quantity)
      /\ OrdersOn(new.asks) = (OrdersOn(b.asks) \ {trade.sell}) \cup Left(trade.sell, trade.quantity)
  BY Traded
<1>2. DOMAIN b.index \subseteq DOMAIN new.index \cup {trade.buy.id, trade.sell.id}
  <2> DEFINE one == PopBestBid(b)
             two == PopBestAsk(one)
             three == Reinsert(two, trade.buy, trade.quantity)
  <2>1. \A x, e, q : DOMAIN x.index \subseteq DOMAIN Reinsert(x, e, q).index
    BY DEF Reinsert, AddOrder, Put
  <2>2. new = Reinsert(three, trade.sell, trade.quantity)
    BY DEF AfterTrade
  <2>3. trade.buy = PeekBestBid(b) /\ trade.sell = PeekBestAsk(b)
    BY DEF NextTrade
  <2>4. PICK bids, asks, index : b = [bids |-> bids, asks |-> asks, index |-> index]
    BY DEF BookOK
  <2>5. one.asks = b.asks /\ one.index = Without(b.index, trade.buy.id)
    BY <2>3, <2>4 DEF PopBestBid
  <2>6. one = [bids |-> one.bids, asks |-> one.asks, index |-> one.index]
    BY BidPopped DEF HasCrossing, BookOK
  <2>7. PeekBestAsk(one) = trade.sell
    BY <2>3, <2>5 DEF PeekBestAsk, BestAskPrice
  <2>8. two.index = Without(one.index, trade.sell.id)
    BY <2>6, <2>7 DEF PopBestAsk
  <2> HIDE DEF one, two, trade, new
  <2>9. DOMAIN b.index \subseteq DOMAIN two.index \cup {trade.buy.id, trade.sell.id}
    BY <2>5, <2>8 DEF Without
  <2>10. DOMAIN two.index \subseteq DOMAIN new.index
    BY <2>1, <2>2
  <2>11. QED
    BY <2>9, <2>10
<1> HIDE DEF trade, new
<1>3. Resting(new) \subseteq Resting(b) \cup Left(trade.buy, trade.quantity)
                                      \cup Left(trade.sell, trade.quantity)
  BY <1>1 DEF Resting
<1>4. QED
  BY <1>2, <1>3 DEF trade, new

\* On a well formed side each submission is filed once, and only ids in d more
\* often than that.
LEMMA SideFiledOnce ==
  ASSUME NEW levels, NEW side, LevelsOK(levels, side), NEW d,
         \A x, y \in OrdersOn(levels) : x.id = y.id => x = y \/ x.id \in d
  PROVE  FiledOnce(levels, d)
<1>1. ASSUME NEW p \in Positions(levels), NEW q \in Positions(levels),
             At(levels, p).timestamp = At(levels, q).timestamp
      PROVE  p = q
  <2>1. PICK price \in DOMAIN levels : \E i \in 1 .. Len(levels[price]) : p = << price, i >>
    BY DEF Positions
  <2>2. PICK i \in 1 .. Len(levels[price]) : p = << price, i >>
    BY <2>1
  <2>3. PICK other \in DOMAIN levels : \E j \in 1 .. Len(levels[other]) : q = << other, j >>
    BY DEF Positions
  <2>4. PICK j \in 1 .. Len(levels[other]) : q = << other, j >>
    BY <2>3
  <2>5. levels[price][i].timestamp = levels[other][j].timestamp
    BY <1>1, <2>2, <2>4 DEF At
  <2>6. price = other /\ i = j
    BY <2>5 DEF LevelsOK
  <2>7. QED
    BY <2>2, <2>4, <2>6
<1>2. ASSUME NEW p \in Positions(levels), NEW q \in Positions(levels),
             At(levels, p).id = At(levels, q).id
      PROVE  p = q \/ At(levels, p).id \in d
  <2>1. At(levels, p) \in OrdersOn(levels) /\ At(levels, q) \in OrdersOn(levels)
    BY DEF OrdersOn
  <2>2. At(levels, p) = At(levels, q) \/ At(levels, p).id \in d
    BY <1>2, <2>1
  <2>3. QED
    BY <1>1, <2>2
<1>3. QED
  BY <1>1, <1>2 DEF FiledOnce

\* The parts of BookConsistent.
LEMMA BookInOrder ==
  ASSUME NEW b, BookOK(b), NEW d, IndexOK(b, d)
  PROVE  /\ IndexFindsOrders(b)
         /\ RestingIds(b) \subseteq DOMAIN b.index \cup d
         /\ NoEmptyLevel(b)
         /\ FiledOnce(b.bids, d) /\ FiledOnce(b.asks, d)
<1>1. LevelsOK(b.bids, "buy") /\ LevelsOK(b.asks, "sell")
  BY DEF BookOK
<1>2. NoEmptyLevel(b)
  BY <1>1 DEF LevelsOK, QueuesOK, NoEmptyLevel
<1>3. \A x, y \in Resting(b) : x.id = y.id => x = y \/ x.id \in d
  BY DEF IndexOK
<1>4. FiledOnce(b.bids, d) /\ FiledOnce(b.asks, d)
  BY <1>1, <1>3, SideFiledOnce DEF Resting
<1>5. QED
  BY <1>2, <1>4 DEF IndexOK

-------------------------------------------------------------------------------
(* The engine *)

TradeRecords == [buy : Entries, sell : Entries, price : Nat, quantity : Nat \ {0}]

TradesOK(t) ==
  /\ t \in Seq(TradeRecords)
  /\ \A i \in 1 .. Len(t) : t[i].buy.side = "buy" /\ t[i].sell.side = "sell"

Uncrossed(b) == \A x \in OrdersOn(b.bids), y \in OrdersOn(b.asks) : x.price < y.price

\* The order o is the one of the youngest timestamp, in the book ...
YoungestIs(o, b, c) == \A e \in Resting(b) : e.timestamp = c - 1 => e.id = o.id

\* ... and one party of every trade of the call, which buys from the lowest
\* asks up or sells to the highest bids down.
BuysUpwards(o, b, t, c) ==
  /\ \A i \in 1 .. Len(t) : /\ t[i].buy.id = o.id /\ t[i].buy.timestamp = c - 1
                            /\ \A y \in OrdersOn(b.asks) : t[i].sell.price <= y.price
  /\ \A i, j \in 1 .. Len(t) : i < j => t[i].sell.price <= t[j].sell.price

SellsDownwards(o, b, t, c) ==
  /\ \A i \in 1 .. Len(t) : /\ t[i].sell.id = o.id /\ t[i].buy.timestamp # c - 1
                            /\ \A x \in OrdersOn(b.bids) : x.price <= t[i].buy.price
  /\ \A i, j \in 1 .. Len(t) : i < j => t[j].buy.price <= t[i].buy.price

\* While the loop runs, only the latest submission crosses the book, and what it
\* has traded and what is left of it are what was submitted.
OnlyCrossing(b, c) ==
  \A x \in OrdersOn(b.bids), y \in OrdersOn(b.asks) :
    x.price >= y.price => x.timestamp = c - 1 \/ y.timestamp = c - 1

Accounted(o, b, t, c) ==
  /\ \A e \in Resting(b) : e.timestamp = c - 1 => QuantityOf(t) + e.quantity = o.quantity
  /\ (\A e \in Resting(b) : e.timestamp # c - 1) => QuantityOf(t) = o.quantity

CallOf(o, b, m, t, c) ==
  /\ YoungestIs(o, b, c)
  /\ o.side = "buy" => BuysUpwards(o, b, t, c)
  /\ o.side = "sell" => SellsDownwards(o, b, t, c)
  /\ m => OnlyCrossing(b, c) /\ Accounted(o, b, t, c)

EngineOK(b, m, t, c, d) ==
  /\ BookOK(b) /\ BookFifo(b) /\ IndexOK(b, d)
  /\ m \in BOOLEAN /\ c \in Nat
  /\ \A e \in Resting(b) : e.timestamp < c
  /\ TradesOK(t)
  /\ ~m => Uncrossed(b)
  /\ m \/ t # << >> => \E o \in Orders : CallOf(o, b, m, t, c)

\* The inductive invariant.
EngineInv == EngineOK(book, matching, trades, clock, doubled) /\ clock <= MaxOrders

-------------------------------------------------------------------------------
(* The invariant holds initially, and every step keeps it *)

\* An empty book is in order whatever the clock says.
LEMMA EmptyEngineOK ==
  ASSUME NEW c \in Nat
  PROVE  EngineOK(EmptyBook, FALSE, << >>, c, {})
<1>1. TradesOK(<< >>)
  BY DEF TradesOK
<1>2. Resting(EmptyBook) = {} /\ BookOK(EmptyBook) /\ BookFifo(EmptyBook) /\ IndexOK(EmptyBook, {})
  BY EmptyBookOK
<1>3. Uncrossed(EmptyBook)
  BY <1>2 DEF Uncrossed, Resting
<1>4. QED
  BY <1>1, <1>2, <1>3 DEF EngineOK

\* A submission to an idle engine.
LEMMA SubmitOK ==
  ASSUME NEW b, NEW t, NEW c, NEW d, EngineOK(b, FALSE, t, c, d),
         NEW o \in Orders, o.quantity > 0
  PROVE  EngineOK(AddOrder(b, Entry(o, c)), TRUE, << >>, c + 1, d \cup ({o.id} \cap RestingIds(b)))
<1> DEFINE e == Entry(o, c)
           new == AddOrder(b, e)
           more == d \cup ({o.id} \cap RestingIds(b))
<1>1. /\ BookOK(b) /\ BookFifo(b) /\ IndexOK(b, d) /\ c \in Nat /\ Uncrossed(b)
      /\ \A x \in Resting(b) : x.timestamp < c
  BY DEF EngineOK
<1>2. /\ e \in Entries /\ e.id = o.id /\ e.side = o.side /\ e.price = o.price
      /\ e.timestamp = c /\ e.quantity = o.quantity
  BY <1>1, NewEntry
<1>3. \A x \in Resting(b) : x.timestamp \in Nat /\ x.timestamp <= c /\ x.timestamp # c
  <2>1. \A x \in Resting(b) : x.timestamp \in Nat
    BY <1>1, RestingFacts, EntryFacts DEF Resting
  <2>2. QED
    BY <1>1, <2>1
<1> HIDE DEF e, new, more
<1>4. /\ BookOK(new) /\ BookFifo(new)
      /\ OrdersOn(new.bids) = OrdersOn(b.bids) \cup (IF e.side = "buy" THEN {e} ELSE {})
      /\ OrdersOn(new.asks) = OrdersOn(b.asks) \cup (IF e.side = "sell" THEN {e} ELSE {})
  BY <1>1, <1>2, <1>3, OrderAdded DEF new
<1>5. IndexOK(new, more)
  BY <1>1, <1>2, <1>3, OrderJoins DEF new, more
<1>6. o.side \in {"buy", "sell"} /\ o.quantity \in Nat
  BY OrdersAssumption
<1>7. Resting(new) = Resting(b) \cup {e}
  BY <1>2, <1>4, <1>6 DEF Resting
<1>8. \A x \in Resting(new) : x.timestamp < c + 1
  BY <1>1, <1>2, <1>3, <1>7
<1>9. TradesOK(<< >>)
  BY DEF TradesOK
<1>10. CallOf(o, new, TRUE, << >>, c + 1)
  <2>1. YoungestIs(o, new, c + 1)
    BY <1>1, <1>2, <1>3, <1>7 DEF YoungestIs
  <2>2. BuysUpwards(o, new, << >>, c + 1) /\ SellsDownwards(o, new, << >>, c + 1)
    BY DEF BuysUpwards, SellsDownwards
  <2>3. OnlyCrossing(new, c + 1)
    <3>1. SUFFICES ASSUME NEW x \in OrdersOn(new.bids), NEW y \in OrdersOn(new.asks),
                          x.price >= y.price, x # e, y # e
                   PROVE  FALSE
      BY <1>1, <1>2 DEF OnlyCrossing
    <3>2. x \in OrdersOn(b.bids) /\ y \in OrdersOn(b.asks)
      BY <1>4, <3>1
    <3>3. x.price \in Nat /\ y.price \in Nat
      BY <1>1, <3>2, RestingFacts, EntryFacts
    <3>4. QED
      BY <1>1, <3>1, <3>2, <3>3 DEF Uncrossed
  <2>4. Accounted(o, new, << >>, c + 1)
    BY <1>1, <1>2, <1>3, <1>6, <1>7, QuantityOfEmpty DEF Accounted
  <2>5. QED
    BY <2>1, <2>2, <2>3, <2>4 DEF CallOf
<1>11. \E order \in Orders : CallOf(order, new, TRUE, << >>, c + 1)
  BY <1>10
<1>12. EngineOK(new, TRUE, << >>, c + 1, more)
  <2>1. c + 1 \in Nat
    BY <1>1
  <2>2. QED
    BY <1>4, <1>5, <1>8, <1>9, <1>11, <2>1 DEF EngineOK
<1>13. QED
  BY <1>12 DEF e, new, more

\* The loop returns once nothing crosses.
LEMMA ReturnOK ==
  ASSUME NEW b, NEW t, NEW c, NEW d, EngineOK(b, TRUE, t, c, d), ~HasCrossing(b)
  PROVE  EngineOK(b, FALSE, t, c, d)
<1>1. BookOK(b)
  BY DEF EngineOK
<1>2. Uncrossed(b)
  <2>1. SUFFICES ASSUME NEW x \in OrdersOn(b.bids), NEW y \in OrdersOn(b.asks)
                 PROVE  x.price < y.price
    BY DEF Uncrossed
  <2>2. x.price \in Nat /\ y.price \in Nat
    BY <1>1, RestingFacts, EntryFacts
  <2>3. ~(x.price >= y.price)
    BY <1>1, CrossingPair
  <2>4. QED
    BY <2>2, <2>3
<1>3. PICK o \in Orders : CallOf(o, b, TRUE, t, c)
  BY DEF EngineOK
<1>4. CallOf(o, b, FALSE, t, c)
  BY <1>3 DEF CallOf
<1>5. QED
  BY <1>2, <1>4 DEF EngineOK

\* A cancel between two calls.
LEMMA CancelOK ==
  ASSUME NEW b, NEW t, NEW c, NEW d, EngineOK(b, FALSE, t, c, d), NEW id
  PROVE  EngineOK(RemoveOrder(b, id), FALSE, t, c, d \cap RestingIds(RemoveOrder(b, id)))
<1>1. CASE id \notin DOMAIN b.index
  <2>1. RemoveOrder(b, id) = b
    BY <1>1 DEF RemoveOrder
  <2>2. IndexOK(b, d \cap RestingIds(b))
    BY IndexShrinks DEF EngineOK
  <2>3. EngineOK(b, FALSE, t, c, d \cap RestingIds(b))
    BY <2>2 DEF EngineOK
  <2>4. QED
    BY <2>1, <2>3
<1>2. CASE id \in DOMAIN b.index
  <2> DEFINE new == RemoveOrder(b, id)
  <2>1. BookOK(b) /\ BookFifo(b) /\ Uncrossed(b) /\ IndexOK(b, d) /\ IndexFindsOrders(b)
    BY DEF EngineOK, IndexOK
  <2>2. /\ BookOK(new) /\ BookFifo(new) /\ IndexOK(new, d)
        /\ OrdersOn(new.bids) \subseteq OrdersOn(b.bids)
        /\ OrdersOn(new.asks) \subseteq OrdersOn(b.asks)
    <3>1. PICK e \in Resting(b) :
            /\ BookOK(new) /\ (BookFifo(b) => BookFifo(new))
            /\ \A more : IndexOK(b, more) => IndexOK(new, more)
            /\ OrdersOn(new.bids) = OrdersOn(b.bids) \ {e}
            /\ OrdersOn(new.asks) = OrdersOn(b.asks) \ {e}
      BY <1>2, <2>1, OrderRemoved
    <3>2. QED
      BY <2>1, <3>1
  <2> HIDE DEF new
  <2>3. Resting(new) \subseteq Resting(b)
    BY <2>2 DEF Resting
  <2>4. Uncrossed(new)
    BY <2>1, <2>2 DEF Uncrossed
  <2>5. ASSUME NEW o \in Orders, CallOf(o, b, FALSE, t, c) PROVE CallOf(o, new, FALSE, t, c)
    <3>1. YoungestIs(o, new, c)
      BY <2>3, <2>5 DEF CallOf, YoungestIs
    <3>2. BuysUpwards(o, b, t, c) => BuysUpwards(o, new, t, c)
      BY <2>2 DEF BuysUpwards
    <3>3. SellsDownwards(o, b, t, c) => SellsDownwards(o, new, t, c)
      BY <2>2 DEF SellsDownwards
    <3>4. QED
      BY <2>5, <3>1, <3>2, <3>3 DEF CallOf
  <2>6. IndexOK(new, d \cap RestingIds(new))
    BY <2>2, IndexShrinks
  <2>7. EngineOK(new, FALSE, t, c, d \cap RestingIds(new))
    BY <2>2, <2>3, <2>4, <2>5, <2>6 DEF EngineOK
  <2>8. QED
    BY <2>7 DEF new
<1>3. QED
  BY <1>1, <1>2

\* An iteration of the loop.  The invariant's clauses on the new book follow
\* from those on the old one because the orders that rest afterwards rested
\* before, with the same id, price and timestamp.
LEMMA TradeOK ==
  ASSUME NEW b, NEW t, NEW c, NEW d, EngineOK(b, TRUE, t, c, d), HasCrossing(b)
  PROVE  EngineOK(AfterTrade(b), TRUE, Append(t, NextTrade(b)), c, d \cap RestingIds(AfterTrade(b)))
<1> DEFINE trade == NextTrade(b)
           bid == trade.buy
           ask == trade.sell
           q == trade.quantity
           new == AfterTrade(b)
           longer == Append(t, trade)
<1>1. /\ BookOK(b) /\ BookFifo(b) /\ IndexOK(b, d) /\ c \in Nat /\ TradesOK(t)
      /\ \A x \in Resting(b) : x.timestamp < c
  BY DEF EngineOK
<1>2. /\ trade = [buy |-> bid, sell |-> ask, price |-> trade.price, quantity |-> q]
      /\ trade.price = ask.price
      /\ bid \in OrdersOn(b.bids) /\ ask \in OrdersOn(b.asks)
      /\ \A x \in OrdersOn(b.bids) : x.price <= bid.price
      /\ \A y \in OrdersOn(b.asks) : ask.price <= y.price
      /\ bid.price >= ask.price
      /\ q \in Nat \ {0} /\ q <= bid.quantity /\ q <= ask.quantity
      /\ q = IF bid.quantity <= ask.quantity THEN bid.quantity ELSE ask.quantity
      /\ BookOK(new) /\ BookFifo(new) /\ IndexOK(new, d)
      /\ OrdersOn(new.bids) = (OrdersOn(b.bids) \ {bid}) \cup Left(bid, q)
      /\ OrdersOn(new.asks) = (OrdersOn(b.asks) \ {ask}) \cup Left(ask, q)
  BY <1>1, Traded
<1>3. /\ bid \in Entries /\ bid.side = "buy" /\ bid \in Resting(b)
      /\ ask \in Entries /\ ask.side = "sell" /\ ask \in Resting(b)
      /\ bid.timestamp # ask.timestamp
  <2>1. /\ bid \in Entries /\ bid.side = "buy" /\ bid \in Resting(b)
        /\ ask \in Entries /\ ask.side = "sell" /\ ask \in Resting(b)
    BY <1>1, <1>2, RestingFacts DEF Resting
  <2>2. bid.timestamp # ask.timestamp
    <3> HIDE DEF bid, ask
    <3>1. QED
      BY <1>1, <2>1, RestingFacts
  <2>3. QED
    BY <2>1, <2>2
<1>4. trade \in TradeRecords
  <2> HIDE DEF trade, bid, ask, q
  <2>1. ask.price \in Nat
    BY <1>3, EntryFacts
  <2>2. QED
    BY <1>2, <1>3, <2>1 DEF TradeRecords
<1> HIDE DEF trade, bid, ask, q, new
<1>5. /\ longer \in Seq(TradeRecords) /\ Len(t) \in Nat /\ Len(longer) = Len(t) + 1
      /\ \A i \in 1 .. Len(t) : longer[i] = t[i] /\ t[i] \in TradeRecords
      /\ longer[Len(t) + 1] = trade
      /\ QuantityOf(t) \in Nat /\ QuantityOf(longer) = QuantityOf(t) + q
  <2>1. t \in Seq(TradeRecords)
    BY <1>1 DEF TradesOK
  <2>2. \A r \in TradeRecords : r.quantity \in Nat
    BY DEF TradeRecords
  <2>3. QuantityOf(t) \in Nat /\ QuantityOf(longer) = QuantityOf(t) + q
    BY <1>4, <2>1, <2>2, QuantityAppended DEF q
  <2>4. QED
    BY <1>4, <2>1, <2>3, AppendProperties, ElementOfSeq, LenProperties
<1> HIDE DEF longer
<1>6. TradesOK(longer)
  <2>1. ASSUME NEW i \in 1 .. Len(longer)
        PROVE  longer[i].buy.side = "buy" /\ longer[i].sell.side = "sell"
    <3>1. CASE i \in 1 .. Len(t)
      BY <1>1, <1>5, <3>1 DEF TradesOK
    <3>2. CASE i = Len(t) + 1
      BY <1>3, <1>5, <3>2 DEF bid, ask
    <3>3. QED
      BY <1>5, <3>1, <3>2
  <2>2. QED
    BY <1>5, <2>1 DEF TradesOK
\* Where the orders of the new book come from.
<1>7. /\ \A x \in Left(bid, q) : /\ x.id = bid.id /\ x.price = bid.price
                                 /\ x.timestamp = bid.timestamp /\ x.quantity = bid.quantity - q
      /\ \A x \in Left(ask, q) : /\ x.id = ask.id /\ x.price = ask.price
                                 /\ x.timestamp = ask.timestamp /\ x.quantity = ask.quantity - q
  BY <1>2, <1>3, LeftFacts
<1>8. /\ \A x \in OrdersOn(new.bids) : \E y \in OrdersOn(b.bids) :
           x.id = y.id /\ x.price = y.price /\ x.timestamp = y.timestamp
      /\ \A x \in OrdersOn(new.asks) : \E y \in OrdersOn(b.asks) :
           x.id = y.id /\ x.price = y.price /\ x.timestamp = y.timestamp
  BY <1>2, <1>7
<1>9. \A x \in Resting(new) : \E y \in Resting(b) :
        x.id = y.id /\ x.price = y.price /\ x.timestamp = y.timestamp
  BY <1>8 DEF Resting
<1>10. \A x \in Resting(new) : x.timestamp < c
  BY <1>1, <1>9
\* The order that was submitted is one of the two that trade.
<1>11. PICK o \in Orders : CallOf(o, b, TRUE, t, c)
  BY DEF EngineOK
<1>12. o.side \in {"buy", "sell"} /\ o.quantity \in Nat /\ Original(o.id) = o
  BY OrdersAssumption, OriginalOf
<1>13. /\ YoungestIs(o, b, c) /\ OnlyCrossing(b, c) /\ Accounted(o, b, t, c)
       /\ o.side = "buy" => BuysUpwards(o, b, t, c)
       /\ o.side = "sell" => SellsDownwards(o, b, t, c)
  BY <1>11 DEF CallOf
<1>14. /\ o.side = "buy" => bid.id = o.id /\ bid.timestamp = c - 1
       /\ o.side = "sell" => /\ ask.id = o.id /\ ask.timestamp = c - 1
                             /\ bid.timestamp # c - 1
  <2>1. bid.timestamp = c - 1 \/ ask.timestamp = c - 1
    BY <1>2, <1>13 DEF OnlyCrossing
  <2>2. /\ bid.timestamp = c - 1 => bid.id = o.id
        /\ ask.timestamp = c - 1 => ask.id = o.id
    BY <1>3, <1>13 DEF YoungestIs
  <2>3. Original(bid.id).side = "buy" /\ Original(ask.id).side = "sell"
    BY <1>3, EntryFacts
  <2>4. (bid.id = o.id => o.side = "buy") /\ (ask.id = o.id => o.side = "sell")
    BY <1>12, <2>3
  <2>5. QED
    BY <2>1, <2>2, <2>4
<1>15. YoungestIs(o, new, c)
  BY <1>9, <1>13 DEF YoungestIs
<1>16. OnlyCrossing(new, c)
  <2>1. SUFFICES ASSUME NEW x \in OrdersOn(new.bids), NEW y \in OrdersOn(new.asks),
                        x.price >= y.price
                 PROVE  x.timestamp = c - 1 \/ y.timestamp = c - 1
    BY DEF OnlyCrossing
  <2>2. PICK xx \in OrdersOn(b.bids) : x.timestamp = xx.timestamp /\ x.price = xx.price
    BY <1>8
  <2>3. PICK yy \in OrdersOn(b.asks) : y.timestamp = yy.timestamp /\ y.price = yy.price
    BY <1>8
  <2>4. QED
    BY <1>13, <2>1, <2>2, <2>3 DEF OnlyCrossing
<1>17. ASSUME o.side = "buy" PROVE BuysUpwards(o, new, longer, c)
  <2>1. BuysUpwards(o, b, t, c)
    BY <1>13, <1>17
  <2>2. \A i \in 1 .. Len(longer) : i \in 1 .. Len(t) \/ i = Len(t) + 1
    BY <1>5
  <2>3. trade.buy = bid /\ trade.sell = ask
    BY DEF bid, ask
  <2>4. \A y \in OrdersOn(new.asks) : ask.price <= y.price
    BY <1>2, <1>8
  <2>5. ASSUME NEW i \in 1 .. Len(longer)
        PROVE  /\ longer[i].buy.id = o.id /\ longer[i].buy.timestamp = c - 1
               /\ \A y \in OrdersOn(new.asks) : longer[i].sell.price <= y.price
    <3>1. CASE i \in 1 .. Len(t)
      BY <1>5, <1>8, <2>1, <3>1 DEF BuysUpwards
    <3>2. CASE i = Len(t) + 1
      BY <1>5, <1>14, <1>17, <2>3, <2>4, <3>2
    <3>3. QED
      BY <2>2, <3>1, <3>2
  <2>6. ASSUME NEW i \in 1 .. Len(longer), NEW j \in 1 .. Len(longer), i < j
        PROVE  longer[i].sell.price <= longer[j].sell.price
    <3>1. i \in 1 .. Len(t)
      BY <1>5, <2>6
    <3>2. CASE j \in 1 .. Len(t)
      BY <1>5, <2>1, <2>6, <3>1, <3>2 DEF BuysUpwards
    <3>3. CASE j = Len(t) + 1
      BY <1>2, <1>5, <2>1, <2>3, <3>1, <3>3 DEF BuysUpwards
    <3>4. QED
      BY <2>2, <3>2, <3>3
  <2>7. QED
    BY <2>5, <2>6 DEF BuysUpwards
<1>18. ASSUME o.side = "sell" PROVE SellsDownwards(o, new, longer, c)
  <2>1. SellsDownwards(o, b, t, c)
    BY <1>13, <1>18
  <2>2. \A i \in 1 .. Len(longer) : i \in 1 .. Len(t) \/ i = Len(t) + 1
    BY <1>5
  <2>3. trade.buy = bid /\ trade.sell = ask
    BY DEF bid, ask
  <2>4. \A x \in OrdersOn(new.bids) : x.price <= bid.price
    BY <1>2, <1>8
  <2>5. ASSUME NEW i \in 1 .. Len(longer)
        PROVE  /\ longer[i].sell.id = o.id /\ longer[i].buy.timestamp # c - 1
               /\ \A x \in OrdersOn(new.bids) : x.price <= longer[i].buy.price
    <3>1. CASE i \in 1 .. Len(t)
      BY <1>5, <1>8, <2>1, <3>1 DEF SellsDownwards
    <3>2. CASE i = Len(t) + 1
      BY <1>5, <1>14, <1>18, <2>3, <2>4, <3>2
    <3>3. QED
      BY <2>2, <3>1, <3>2
  <2>6. ASSUME NEW i \in 1 .. Len(longer), NEW j \in 1 .. Len(longer), i < j
        PROVE  longer[j].buy.price <= longer[i].buy.price
    <3>1. i \in 1 .. Len(t)
      BY <1>5, <2>6
    <3>2. CASE j \in 1 .. Len(t)
      BY <1>5, <2>1, <2>6, <3>1, <3>2 DEF SellsDownwards
    <3>3. CASE j = Len(t) + 1
      BY <1>2, <1>5, <2>1, <2>3, <3>1, <3>3 DEF SellsDownwards
    <3>4. QED
      BY <2>2, <3>2, <3>3
  <2>7. QED
    BY <2>5, <2>6 DEF SellsDownwards
\* What the submitted order has traded grows by what it loses.
<1>19. Accounted(o, new, longer, c)
  <2>1. PICK e \in {bid, ask} : e.timestamp = c - 1
    BY <1>12, <1>14
  <2>2. e \in Resting(b) /\ e \in Entries /\ q <= e.quantity /\ e.quantity \in Nat
    BY <1>2, <1>3, <2>1, EntryFacts
  <2>3. QuantityOf(t) + e.quantity = o.quantity
    BY <1>13, <2>1, <2>2 DEF Accounted
  <2>4. \A x \in Resting(b) : x.timestamp = c - 1 => x = e
    BY <1>1, <2>1, <2>2, RestingFacts
  <2>5. Resting(new) = (OrdersOn(b.bids) \ {bid}) \cup Left(bid, q)
                         \cup (OrdersOn(b.asks) \ {ask}) \cup Left(ask, q)
    BY <1>2 DEF Resting
  <2>6. \A x \in Resting(new) : x.timestamp = c - 1 => x \in Left(e, q)
    <3>1. SUFFICES ASSUME NEW x \in Resting(new), x.timestamp = c - 1, x \notin Left(e, q)
                   PROVE  FALSE
      OBVIOUS
    <3>2. x \notin Left(bid, q) /\ x \notin Left(ask, q)
      BY <1>3, <1>7, <2>1, <3>1
    <3>3. \/ x \in OrdersOn(b.bids) /\ x # bid
          \/ x \in OrdersOn(b.asks) /\ x # ask
      BY <2>5, <3>1, <3>2
    <3>4. x \in Resting(b)
      BY <3>3 DEF Resting
    <3>5. x = e
      BY <2>4, <3>1, <3>4
    <3>6. bid \notin OrdersOn(b.asks) /\ ask \notin OrdersOn(b.bids)
      BY <1>1, <1>2, SidesDisjoint
    <3>7. QED
      BY <2>1, <3>3, <3>5, <3>6
  <2>7. Left(e, q) \subseteq Resting(new)
    BY <2>1, <2>5
  <2>8. \A x \in Left(e, q) : x.timestamp = c - 1 /\ x.quantity = e.quantity - q
    BY <1>7, <2>1
  <2>9. ASSUME NEW x \in Resting(new), x.timestamp = c - 1
        PROVE  QuantityOf(longer) + x.quantity = o.quantity
    <3>1. x.quantity = e.quantity - q
      BY <2>6, <2>8, <2>9
    <3>2. QED
      BY <1>2, <1>5, <2>2, <2>3, <3>1
  <2>10. ASSUME \A x \in Resting(new) : x.timestamp # c - 1
         PROVE  QuantityOf(longer) = o.quantity
    <3>1. Left(e, q) = {}
      BY <2>7, <2>8, <2>10
    <3>2. ~(e.quantity > q)
      BY <3>1 DEF Left
    <3>3. e.quantity = q
      BY <1>2, <2>2, <3>2
    <3>4. QED
      BY <1>5, <2>3, <3>3
  <2>11. QED
    BY <2>9, <2>10 DEF Accounted
<1>20. CallOf(o, new, TRUE, longer, c)
  BY <1>15, <1>16, <1>17, <1>18, <1>19 DEF CallOf
<1>21. \E order \in Orders : CallOf(order, new, TRUE, longer, c)
  BY <1>20
<1>22. EngineOK(new, TRUE, longer, c, d \cap RestingIds(new))
  <2>1. IndexOK(new, d \cap RestingIds(new))
    BY <1>2, IndexShrinks
  <2>2. QED
    BY <1>1, <1>2, <1>6, <1>10, <1>21, <2>1 DEF EngineOK
<1>23. QED
  BY <1>22 DEF new, longer, trade

-------------------------------------------------------------------------------
(* Safety of the engine *)

\* The inductive invariant holds in every state: the book is well formed, and a
\* running add_and_match is as far as its trades say.
THEOREM EngineInvariant == EngineSpec => []EngineInv
<1>1. EngineInit => EngineInv
  <2> SUFFICES ASSUME EngineInit PROVE EngineInv
    OBVIOUS
  <2>1. book = EmptyBook /\ matching = FALSE /\ trades = << >> /\ clock = 0 /\ doubled = {}
    BY DEF EngineInit
  <2>2. EngineOK(EmptyBook, FALSE, << >>, 0, {})
    BY EmptyEngineOK
  <2>3. EngineOK(book, matching, trades, clock, doubled)
    BY <2>1, <2>2, Zenon
  <2>4. clock <= MaxOrders
    BY <2>1, MaxOrdersAssumption
  <2>5. QED
    BY <2>3, <2>4 DEF EngineInv
<1>2. EngineInv /\ [EngineNext]_engineVars => EngineInv'
  <2> SUFFICES ASSUME EngineInv, [EngineNext]_engineVars PROVE EngineInv'
    OBVIOUS
  <2>1. EngineOK(book, matching, trades, clock, doubled) /\ clock \in Nat /\ clock <= MaxOrders
    BY DEF EngineInv, EngineOK
  <2>2. SUFFICES EngineOK(book', matching', trades', clock', doubled') /\ clock' <= MaxOrders
    BY DEF EngineInv
  <2>3. ASSUME NEW o \in Orders, Submit(o)
        PROVE  EngineOK(book', matching', trades', clock', doubled') /\ clock' <= MaxOrders
    <3> DEFINE e == Entry(o, clock)
    <3>1. /\ matching = FALSE /\ o.quantity > 0
          /\ book' = AddOrder(book, e) /\ matching' = TRUE
          /\ trades' = << >> /\ clock' = clock + 1 /\ clock < MaxOrders
          /\ doubled' = doubled \cup ({e.id} \cap RestingIds(book))
      BY <2>1, <2>3 DEF Submit, AddAndMatch, EngineOK
    <3>2. EngineOK(book, FALSE, trades, clock, doubled)
      BY <2>1, <3>1
    <3>3. EngineOK(AddOrder(book, e), TRUE, << >>, clock + 1,
                   doubled \cup ({o.id} \cap RestingIds(book)))
      BY <3>1, <3>2, SubmitOK
    <3>4. e.id = o.id
      BY <2>1, <3>1, NewEntry
    <3> HIDE DEF e
    <3>5. EngineOK(book', matching', trades', clock', doubled')
      BY <3>1, <3>3, <3>4, Zenon
    <3>6. clock' <= MaxOrders
      BY <2>1, <3>1, MaxOrdersAssumption
    <3>7. QED
      BY <3>5, <3>6
  <2>4. CASE MatchIteration
    <3>1. /\ matching = TRUE /\ HasCrossing(book) /\ matching' = TRUE /\ clock' = clock
          /\ book' = AfterTrade(book) /\ trades' = Append(trades, NextTrade(book))
          /\ doubled' = doubled \cap RestingIds(AfterTrade(book))
      BY <2>1, <2>4 DEF MatchIteration, MatchStep, EngineOK
    <3>2. EngineOK(AfterTrade(book), TRUE, Append(trades, NextTrade(book)), clock,
                   doubled \cap RestingIds(AfterTrade(book)))
      BY <2>1, <3>1, TradeOK
    <3>3. QED
      BY <2>1, <3>1, <3>2
  <2>5. CASE MatchReturn
    <3>1. /\ matching = TRUE /\ ~HasCrossing(book) /\ matching' = FALSE
          /\ book' = book /\ trades' = trades /\ clock' = clock /\ doubled' = doubled
      BY <2>1, <2>5 DEF MatchReturn, MatchDone, EngineOK
    <3>2. EngineOK(book, FALSE, trades, clock, doubled)
      BY <2>1, <3>1, ReturnOK
    <3>3. QED
      BY <2>1, <3>1, <3>2
  <2>6. ASSUME NEW id \in DOMAIN book.index, Cancel(id)
        PROVE  EngineOK(book', matching', trades', clock', doubled') /\ clock' <= MaxOrders
    <3>1. /\ matching = FALSE /\ matching' = FALSE /\ trades' = trades /\ clock' = clock
          /\ book' = RemoveOrder(book, id)
          /\ doubled' = doubled \cap RestingIds(RemoveOrder(book, id))
      BY <2>1, <2>6 DEF Cancel, EngineOK
    <3>2. EngineOK(RemoveOrder(book, id), FALSE, trades, clock,
                   doubled \cap RestingIds(RemoveOrder(book, id)))
      BY <2>1, <3>1, CancelOK
    <3>3. QED
      BY <2>1, <3>1, <3>2
  <2>7. CASE UNCHANGED engineVars
    BY <2>1, <2>7 DEF engineVars
  <2>8. QED
    BY <2>3, <2>4, <2>5, <2>6, <2>7 DEF EngineNext
<1>3. QED
  BY <1>1, <1>2, PTL DEF EngineSpec

\* Levels hold orders of their side and price, quantities are positive, and
\* trades are between a buy and a sell.
THEOREM EngineTypeCorrect == EngineSpec => []EngineTypeOK
<1>1. EngineInv => EngineTypeOK
  <2> SUFFICES ASSUME EngineInv PROVE EngineTypeOK
    OBVIOUS
  <2>1. /\ BookOK(book) /\ matching \in BOOLEAN /\ clock \in Nat /\ clock <= MaxOrders
        /\ TradesOK(trades) /\ \A e \in Resting(book) : e.timestamp < clock
    BY DEF EngineInv, EngineOK
  <2>2. clock \in 0 .. MaxOrders
    BY <2>1, MaxOrdersAssumption
  <2>3. FiledCorrectly(book)
    BY <2>1 DEF BookOK, LevelsOK, QueuesOK, FiledCorrectly, Positions, At
  <2>4. \A e \in Resting(book) : e.quantity > 0
    <3>1. \A e \in Resting(book) : e \in Entries
      BY <2>1, RestingFacts DEF Resting
    <3>2. \A e \in Entries : e.quantity > 0
      BY EntryFacts
    <3>3. QED
      BY <3>1, <3>2
  <2>5. \A i \in 1 .. Len(trades) : trades[i].quantity > 0
    <3>1. \A i \in 1 .. Len(trades) : trades[i] \in TradeRecords
      BY <2>1, ElementOfSeq DEF TradesOK
    <3>2. \A r \in TradeRecords : r.quantity > 0
      BY DEF TradeRecords
    <3>3. QED
      BY <3>1, <3>2
  <2>6. QED
    BY <2>1, <2>2, <2>3, <2>4, <2>5 DEF EngineTypeOK, TradesOK
<1>2. QED
  BY <1>1, EngineInvariant, PTL

\* After any sequence of adds, the same order again among them, fills, cancels and
\* re-insertions: what the index knows rests where it says, no level is empty, each
\* submission is filed once, and an order that the index does not know is one whose
\* id was submitted again while it rested.
THEOREM BookStaysConsistent == EngineSpec => []BookConsistent
<1>1. EngineInv => BookConsistent
  BY BookInOrder DEF EngineInv, EngineOK, BookConsistent
<1>2. QED
  BY <1>1, EngineInvariant, PTL

\* run_matching leaves no bid at or above an ask, and a cancel keeps it so.
THEOREM IdleBookUncrossed == EngineSpec => []NotCrossedWhenIdle
<1>1. EngineInv => NotCrossedWhenIdle
  BY DEF EngineInv, EngineOK, Uncrossed, NotCrossedWhenIdle
<1>2. QED
  BY <1>1, EngineInvariant, PTL

\* In a queue only what is left of a partly filled order stands behind a
\* younger one.
THEOREM QueuesAreFair == EngineSpec => []FifoUnlessPartlyFilled
<1>1. EngineInv => FifoUnlessPartlyFilled
  BY DEF EngineInv, EngineOK, BookFifo, Fifo, FifoUnlessPartlyFilled
<1>2. QED
  BY <1>1, EngineInvariant, PTL

\* The trades of one call go from the best price for the submitted order to
\* worse ones.
THEOREM BestPricesTradeFirst == EngineSpec => []BestPriceFirst
<1>1. EngineInv => BestPriceFirst
  <2> SUFFICES ASSUME EngineInv, NEW i \in 1 .. Len(trades), NEW j \in 1 .. Len(trades), i < j
               PROVE  IF TakerOf(trades[i]).side = "buy"
                      THEN MakerOf(trades[i]).price <= MakerOf(trades[j]).price
                      ELSE MakerOf(trades[i]).price >= MakerOf(trades[j]).price
    BY DEF BestPriceFirst
  <2>1. TradesOK(trades) /\ EngineOK(book, matching, trades, clock, doubled)
    BY DEF EngineInv, EngineOK
  <2>2. trades # << >>
    BY <2>1, EmptySeq DEF TradesOK
  <2>3. PICK o \in Orders : CallOf(o, book, matching, trades, clock)
    BY <2>1, <2>2 DEF EngineOK
  <2>4. o.side \in {"buy", "sell"}
    BY OrdersAssumption
  <2>5. /\ trades[i].buy.side = "buy" /\ trades[i].sell.side = "sell"
        /\ trades[i] \in TradeRecords /\ trades[j] \in TradeRecords
    BY <2>1, ElementOfSeq DEF TradesOK
  <2>6. CASE o.side = "buy"
    <3>1. /\ trades[i].sell.price <= trades[j].sell.price
          /\ trades[i].buy.timestamp = clock - 1 /\ trades[j].buy.timestamp = clock - 1
      BY <2>3, <2>6 DEF CallOf, BuysUpwards
    <3>2. QED
      BY <2>5, <3>1 DEF TakerOf, MakerOf, IsTaker
  <2>7. CASE o.side = "sell"
    <3>1. /\ trades[j].buy.price <= trades[i].buy.price
          /\ trades[i].buy.timestamp # clock - 1 /\ trades[j].buy.timestamp # clock - 1
      BY <2>3, <2>7 DEF CallOf, SellsDownwards
    <3>2. trades[i].buy.price \in Nat /\ trades[j].buy.price \in Nat
      BY <2>5, EntryFacts DEF TradeRecords
    <3>3. QED
      BY <2>5, <3>1, <3>2 DEF TakerOf, MakerOf, IsTaker
  <2>8. QED
    BY <2>4, <2>6, <2>7
<1>2. QED
  BY <1>1, EngineInvariant, PTL

\* What the submitted order has traded and what is left of it in the book are
\* what was submitted: no fill is lost or counted twice.
THEOREM QuantityIsConserved == EngineSpec => []SubmittedQuantityAccountedFor
<1>1. EngineInv => SubmittedQuantityAccountedFor
  <2> SUFFICES ASSUME EngineInv, matching, trades # << >>
               PROVE  LET submitted == Original(TakerOf(trades[1]).id).quantity
                          left == { entry \in Resting(book) : IsTaker(entry) }
                      IN  IF left = {}
                          THEN QuantityOf(trades) = submitted
                          ELSE \A entry \in left : QuantityOf(trades) + entry.quantity = submitted
    BY DEF SubmittedQuantityAccountedFor, QuantityOf
  <2>1. TradesOK(trades) /\ EngineOK(book, TRUE, trades, clock, doubled)
    BY DEF EngineInv, EngineOK
  <2>2. 1 \in 1 .. Len(trades)
    BY <2>1, EmptySeq DEF TradesOK
  <2>3. PICK o \in Orders : CallOf(o, book, TRUE, trades, clock)
    BY <2>1 DEF EngineOK
  <2>4. o.side \in {"buy", "sell"} /\ Original(o.id) = o
    BY OrdersAssumption, OriginalOf
  <2>5. TakerOf(trades[1]).id = o.id
    <3>1. CASE o.side = "buy"
      BY <2>2, <2>3, <3>1 DEF CallOf, BuysUpwards, TakerOf, IsTaker
    <3>2. CASE o.side = "sell"
      BY <2>2, <2>3, <3>2 DEF CallOf, SellsDownwards, TakerOf, IsTaker
    <3>3. QED
      BY <2>4, <3>1, <3>2
  <2>6. Accounted(o, book, trades, clock)
    BY <2>3 DEF CallOf
  <2>7. QED
    BY <2>4, <2>5, <2>6 DEF Accounted, IsTaker
<1>2. QED
  BY <1>1, EngineInvariant, PTL

-------------------------------------------------------------------------------
(* The engine implements the order book of Market.tla *)

LiveFields(e) == [side |-> e.side, price |-> e.price, quantity |-> e.quantity]

LEMMA FieldsOf ==
  \A e : /\ LiveFields(e).side = e.side /\ LiveFields(e).price = e.price
         /\ LiveFields(e).quantity = e.quantity
BY DEF LiveFields

LiveOf(b) == [time \in { e.timestamp : e \in Resting(b) } |->
                LiveFields(CHOOSE e \in Resting(b) : e.timestamp = time)]

LEMMA LiveFacts ==
  ASSUME NEW b, BookOK(b)
  PROVE  \A e \in Resting(b) :
           e.timestamp \in DOMAIN LiveOf(b) /\ LiveOf(b)[e.timestamp] = LiveFields(e)
<1>1. \A e \in Resting(b) : (CHOOSE other \in Resting(b) : other.timestamp = e.timestamp) = e
  BY RestingFacts
<1>2. QED
  BY <1>1 DEF LiveOf

\* Live orders are the same when they have the same numbers and fields.
LEMMA LiveEqual ==
  ASSUME NEW b, BookOK(b), NEW numbers, NEW f,
         numbers = { e.timestamp : e \in Resting(b) }, f = [n \in numbers |-> f[n]],
         \A e \in Resting(b) : f[e.timestamp] = LiveFields(e)
  PROVE  LiveOf(b) = f
<1>1. \A n \in numbers : LiveOf(b)[n] = f[n]
  BY LiveFacts
<1>2. LiveOf(b) = [n \in numbers |-> LiveOf(b)[n]]
  BY DEF LiveOf
<1>3. QED
  BY <1>1, <1>2

\* The live orders with o among them.
PlacedLive(live, o, number) ==
  [n \in DOMAIN live \cup {number} |-> IF n = number THEN LiveFields(o) ELSE live[n]]

LEMMA SubmitIsPlace ==
  ASSUME NEW b, NEW t, NEW c, NEW d, EngineOK(b, FALSE, t, c, d),
         NEW o \in Orders, o.quantity > 0
  PROVE  /\ c \notin DOMAIN LiveOf(b)
         /\ LiveOf(AddOrder(b, Entry(o, c))) = PlacedLive(LiveOf(b), o, c)
<1> DEFINE e == Entry(o, c)
           new == AddOrder(b, e)
           f == [n \in DOMAIN LiveOf(b) \cup {c} |-> IF n = c THEN LiveFields(o) ELSE LiveOf(b)[n]]
<1>1. BookOK(b) /\ c \in Nat /\ \A x \in Resting(b) : x.timestamp # c
  BY DEF EngineOK
<1>2. /\ e \in Entries /\ e.id = o.id /\ e.side = o.side /\ e.price = o.price
      /\ e.quantity = o.quantity /\ e.timestamp = c
  BY <1>1, NewEntry
<1>3. LiveFields(e) = LiveFields(o)
  BY <1>2 DEF LiveFields
<1> HIDE DEF e, new
<1>4. BookOK(new) /\ Resting(new) = Resting(b) \cup {e}
  BY <1>1, <1>2, OrderJoins DEF new
<1>5. DOMAIN LiveOf(b) = { x.timestamp : x \in Resting(b) }
  BY DEF LiveOf
<1>6. DOMAIN f = { x.timestamp : x \in Resting(new) } /\ f = [n \in DOMAIN f |-> f[n]]
  BY <1>2, <1>4, <1>5
<1>7. \A x \in Resting(new) : f[x.timestamp] = LiveFields(x)
  <2>1. f[e.timestamp] = LiveFields(e)
    BY <1>2, <1>3
  <2>2. \A x \in Resting(b) :
          x.timestamp \in DOMAIN LiveOf(b) /\ LiveOf(b)[x.timestamp] = LiveFields(x)
    BY <1>1, LiveFacts
  <2>3. \A x \in Resting(b) : f[x.timestamp] = LiveFields(x)
    BY <1>1, <2>2
  <2>4. QED
    BY <1>4, <2>1, <2>3
<1> HIDE DEF f
<1>8. LiveOf(new) = f
  BY <1>4, <1>6, <1>7, LiveEqual
<1>9. c \notin DOMAIN LiveOf(b)
  BY <1>1, <1>5
<1>10. QED
  BY <1>8, <1>9 DEF e, new, f, PlacedLive

\* A cancel takes one live order out, of those with the id.
LEMMA CancelIsCancel ==
  ASSUME NEW b, BookOK(b), IndexFindsOrders(b), NEW id \in DOMAIN b.index
  PROVE  \E number \in DOMAIN LiveOf(b) :
           LiveOf(RemoveOrder(b, id)) = [k \in DOMAIN LiveOf(b) \ {number} |-> LiveOf(b)[k]]
<1>1. PICK e \in Resting(b) : /\ e.id = id /\ BookOK(RemoveOrder(b, id))
                              /\ OrdersOn(RemoveOrder(b, id).bids) = OrdersOn(b.bids) \ {e}
                              /\ OrdersOn(RemoveOrder(b, id).asks) = OrdersOn(b.asks) \ {e}
  BY OrderRemoved
<1> DEFINE new == RemoveOrder(b, id)
           f == [k \in DOMAIN LiveOf(b) \ {e.timestamp} |-> LiveOf(b)[k]]
<1> HIDE DEF new
<1>2. BookOK(new) /\ Resting(new) = Resting(b) \ {e}
  BY <1>1 DEF Resting, new
<1>3. \A x \in Resting(b) : x.timestamp = e.timestamp <=> x = e
  BY RestingFacts
<1>4. DOMAIN LiveOf(b) = { x.timestamp : x \in Resting(b) }
  BY DEF LiveOf
<1>5. DOMAIN f = { x.timestamp : x \in Resting(new) } /\ f = [k \in DOMAIN f |-> f[k]]
  BY <1>2, <1>3, <1>4
<1>6. \A x \in Resting(new) : f[x.timestamp] = LiveFields(x)
  <2>1. \A x \in Resting(b) :
          x.timestamp \in DOMAIN LiveOf(b) /\ LiveOf(b)[x.timestamp] = LiveFields(x)
    BY LiveFacts
  <2>2. QED
    BY <1>2, <1>3, <2>1
<1> HIDE DEF f
<1>7. LiveOf(new) = f
  BY <1>2, <1>5, <1>6, LiveEqual
<1>8. e.timestamp \in DOMAIN LiveOf(b)
  BY <1>4
<1>9. QED
  BY <1>7, <1>8 DEF new, f

\* The live orders after b and a each trade q of their quantity.
FilledLive(live, b, a, q) ==
  LET left == [n \in DOMAIN live |->
                 IF n \in {b, a} THEN [live[n] EXCEPT !.quantity = @ - q] ELSE live[n]]
  IN  [n \in { k \in DOMAIN live : left[k].quantity > 0 } |-> left[n]]

LEMMA TradeIsTrade ==
  ASSUME NEW b, BookOK(b), HasCrossing(b)
  PROVE  LET trade == NextTrade(b)
             live == LiveOf(b)
         IN  /\ trade.buy \in OrdersOn(b.bids) /\ trade.sell \in OrdersOn(b.asks)
             /\ \A x \in OrdersOn(b.bids) : x.price <= trade.buy.price
             /\ \A y \in OrdersOn(b.asks) : trade.sell.price <= y.price
             /\ trade.buy.price >= trade.sell.price
             /\ trade.quantity = IF trade.buy.quantity <= trade.sell.quantity
                                 THEN trade.buy.quantity ELSE trade.sell.quantity
             /\ LiveOf(AfterTrade(b)) = FilledLive(live, trade.buy.timestamp, trade.sell.timestamp,
                                                 trade.quantity)
<1> DEFINE trade == NextTrade(b)
           bid == trade.buy
           ask == trade.sell
           q == trade.quantity
           new == AfterTrade(b)
           live == LiveOf(b)
           f == FilledLive(live, bid.timestamp, ask.timestamp, q)
           left == [n \in DOMAIN live |->
                      IF n \in {bid.timestamp, ask.timestamp}
                      THEN [live[n] EXCEPT !.quantity = @ - q] ELSE live[n]]
<1>1. /\ bid \in OrdersOn(b.bids) /\ ask \in OrdersOn(b.asks)
      /\ \A x \in OrdersOn(b.bids) : x.price <= bid.price
      /\ \A y \in OrdersOn(b.asks) : ask.price <= y.price
      /\ bid.price >= ask.price
      /\ q \in Nat \ {0} /\ q <= bid.quantity /\ q <= ask.quantity
      /\ q = IF bid.quantity <= ask.quantity THEN bid.quantity ELSE ask.quantity
      /\ BookOK(new)
      /\ OrdersOn(new.bids) = (OrdersOn(b.bids) \ {bid}) \cup Left(bid, q)
      /\ OrdersOn(new.asks) = (OrdersOn(b.asks) \ {ask}) \cup Left(ask, q)
  BY Traded
<1> HIDE DEF trade, bid, ask, q, new
<1>2. bid \in Entries /\ ask \in Entries /\ bid \in Resting(b) /\ ask \in Resting(b)
  BY <1>1, RestingFacts DEF Resting
<1>3. bid \notin OrdersOn(b.asks) /\ ask \notin OrdersOn(b.bids)
  BY <1>1, SidesDisjoint
<1>4. Resting(new) = (Resting(b) \ {bid, ask}) \cup Left(bid, q) \cup Left(ask, q)
  BY <1>1, <1>3 DEF Resting
<1>5. /\ \A x \in Left(bid, q) : /\ x.timestamp = bid.timestamp /\ x.side = bid.side /\ x.price = bid.price
                                 /\ x.quantity = bid.quantity - q
      /\ \A x \in Left(ask, q) : /\ x.timestamp = ask.timestamp /\ x.side = ask.side /\ x.price = ask.price
                                 /\ x.quantity = ask.quantity - q
  BY <1>1, <1>2, LeftFacts
<1>6. /\ DOMAIN live = { x.timestamp : x \in Resting(b) }
      /\ \A x \in Resting(b) : live[x.timestamp] = LiveFields(x)
  BY LiveFacts DEF LiveOf
<1>7. \A x \in Resting(b) : x # bid /\ x # ask => x.timestamp \notin {bid.timestamp, ask.timestamp}
  BY <1>2, RestingFacts
<1>8. \A x \in Resting(b) : x.quantity \in Nat \ {0}
  BY RestingFacts, EntryFacts DEF Resting
<1> HIDE DEF live
\* What the fill leaves of each order.
<1>9. ASSUME NEW x \in Resting(b), x # bid, x # ask
      PROVE  left[x.timestamp] = LiveFields(x) /\ left[x.timestamp].quantity > 0
  <2>1. left[x.timestamp] = LiveFields(x)
    BY <1>6, <1>7, <1>9
  <2>2. QED
    BY <1>8, <2>1 DEF LiveFields
<1>10. ASSUME NEW x \in {bid, ask}
       PROVE  /\ x.timestamp \in DOMAIN live
              /\ left[x.timestamp] = [side |-> x.side, price |-> x.price, quantity |-> x.quantity - q]
              /\ left[x.timestamp].quantity = x.quantity - q
  <2>1. x.timestamp \in DOMAIN live /\ live[x.timestamp] = LiveFields(x)
    BY <1>2, <1>6
  <2>2. left[x.timestamp] = [LiveFields(x) EXCEPT !.quantity = @ - q]
    BY <2>1
  <2>3. QED
    BY <2>1, <2>2 DEF LiveFields
<1>11. /\ DOMAIN f = { k \in DOMAIN live : left[k].quantity > 0 }
       /\ \A k \in DOMAIN f : f[k] = left[k]
       /\ f = [k \in DOMAIN f |-> f[k]]
  BY DEF FilledLive
<1> HIDE DEF f, left
<1>12. ASSUME NEW x \in Resting(new)
       PROVE  x.timestamp \in DOMAIN f /\ f[x.timestamp] = LiveFields(x)
  <2>1. CASE x \in Resting(b) \ {bid, ask}
    <3>1. x.timestamp \in DOMAIN live /\ left[x.timestamp].quantity > 0
      BY <1>6, <1>9, <2>1
    <3>2. QED
      BY <1>9, <1>11, <2>1, <3>1
  <2>2. ASSUME NEW e \in {bid, ask}, x \in Left(e, q) PROVE x.timestamp \in DOMAIN f /\ f[x.timestamp] = LiveFields(x)
    <3>1. x.timestamp = e.timestamp /\ LiveFields(x) = [side |-> e.side, price |-> e.price, quantity |-> e.quantity - q]
      BY <1>5, <2>2 DEF LiveFields
    <3>2. e.quantity > q
      BY <2>2 DEF Left
    <3>3. e.quantity - q > 0
      BY <1>1, <1>2, <1>8, <3>2
    <3>4. QED
      BY <1>10, <1>11, <3>1, <3>3
  <2>3. QED
    BY <1>4, <2>1, <2>2
<1>13. ASSUME NEW k \in DOMAIN f PROVE \E x \in Resting(new) : k = x.timestamp
  <2>1. k \in DOMAIN live /\ left[k].quantity > 0
    BY <1>11
  <2>2. PICK e \in Resting(b) : k = e.timestamp
    BY <1>6, <2>1
  <2>3. CASE e # bid /\ e # ask
    BY <1>4, <2>2, <2>3
  <2>4. CASE e \in {bid, ask}
    <3>1. e.quantity - q > 0
      BY <1>10, <2>1, <2>2, <2>4
    <3>2. e.quantity > q
      BY <1>1, <1>8, <3>1
    <3>3. PICK x \in Left(e, q) : TRUE
      BY <3>2 DEF Left
    <3>4. x \in Resting(new) /\ x.timestamp = e.timestamp
      BY <1>4, <1>5, <2>4
    <3>5. QED
      BY <2>2, <3>4
  <2>5. QED
    BY <2>3, <2>4
<1>14. DOMAIN f = { x.timestamp : x \in Resting(new) }
  BY <1>12, <1>13
<1>15. LiveOf(new) = f
  BY <1>1, <1>11, <1>12, <1>14, LiveEqual
<1>16. QED
  BY <1>1, <1>15 DEF trade, bid, ask, q, new, live, f

LEMMA LiveIsLiveOf == Live = LiveOf(book)
BY DEF Live, LiveOrder, LiveOf, LiveFields

\* The sides of the market are the ids resting on the sides of the book.
LEMMA MarketSides ==
  ASSUME BookOK(book)
  PROVE  /\ MarketView!Side("buy") = { e.timestamp : e \in OrdersOn(book.bids) }
         /\ MarketView!Side("sell") = { e.timestamp : e \in OrdersOn(book.asks) }
         /\ \A e \in Resting(book) : Live[e.timestamp] = LiveFields(e) /\ e.timestamp \in DOMAIN Live
<1>1. \A e \in Resting(book) : Live[e.timestamp] = LiveFields(e) /\ e.timestamp \in DOMAIN Live
  BY LiveIsLiveOf, LiveFacts
<1>2. DOMAIN Live = { e.timestamp : e \in Resting(book) }
  BY DEF Live
<1>3. \A e \in Resting(book) : Live[e.timestamp].side = e.side
  BY <1>1, FieldsOf
<1>4. /\ \A e \in OrdersOn(book.bids) : e \in Resting(book) /\ e.side = "buy"
      /\ \A e \in OrdersOn(book.asks) : e \in Resting(book) /\ e.side = "sell"
  BY RestingFacts DEF Resting
<1>5. MarketView!Side("buy") = { e.timestamp : e \in OrdersOn(book.bids) }
  <2>1. MarketView!Side("buy") = { n \in DOMAIN Live : Live[n].side = "buy" }
    BY DEF MarketView!Side
  <2>2. \A e \in Resting(book) : e.side = "buy" => e \in OrdersOn(book.bids)
    BY <1>4 DEF Resting
  <2>3. QED
    BY <1>1, <1>2, <1>3, <1>4, <2>1, <2>2
<1>6. MarketView!Side("sell") = { e.timestamp : e \in OrdersOn(book.asks) }
  <2>1. MarketView!Side("sell") = { n \in DOMAIN Live : Live[n].side = "sell" }
    BY DEF MarketView!Side
  <2>2. \A e \in Resting(book) : e.side = "sell" => e \in OrdersOn(book.asks)
    BY <1>4 DEF Resting
  <2>3. QED
    BY <1>1, <1>2, <1>3, <1>4, <2>1, <2>2
<1>7. QED
  BY <1>1, <1>5, <1>6

\* The engine implements the market: a submission places an order, an iteration
\* of the loop trades a best bid with a best ask, the loop returns when no two
\* orders cross, and a cancel takes one order out.
THEOREM EngineImplementsMarket == EngineSpec => ImplementsMarket
<1>1. EngineInit => MarketView!MInit
  <2> SUFFICES ASSUME EngineInit PROVE MarketView!MInit
    OBVIOUS
  <2>1. book = EmptyBook /\ matching = FALSE
    BY DEF EngineInit
  <2>2. Live = [id \in {} |-> 0]
    <3>1. Resting(book) = {}
      BY <2>1, EmptyBookOK
    <3>2. QED
      BY <3>1 DEF Live
  <2>3. QED
    BY <2>1, <2>2 DEF MarketView!MInit
<1>2. EngineInv /\ [EngineNext]_engineVars => [MarketView!MNext]_(MarketView!mvars)
  <2> SUFFICES ASSUME EngineInv, [EngineNext]_engineVars
               PROVE  [MarketView!MNext]_(MarketView!mvars)
    OBVIOUS
  <2>1. /\ EngineOK(book, matching, trades, clock, doubled) /\ BookOK(book) /\ matching \in BOOLEAN
        /\ Live = LiveOf(book) /\ IndexFindsOrders(book)
    BY LiveIsLiveOf DEF EngineInv, EngineOK, IndexOK
  <2>2. Live' = LiveOf(book')
    BY DEF Live, LiveOrder, LiveOf, LiveFields
  <2>3. ASSUME NEW o \in Orders, Submit(o)
        PROVE  \E number \in DOMAIN Live' \ DOMAIN Live : MarketView!Place(o, number)
    <3>1. /\ matching = FALSE /\ o.quantity > 0
          /\ book' = AddOrder(book, Entry(o, clock)) /\ matching' = TRUE
      BY <2>1, <2>3 DEF Submit, AddAndMatch
    <3>2. EngineOK(book, FALSE, trades, clock, doubled)
      BY <2>1, <3>1
    <3>3. /\ clock \notin DOMAIN Live
          /\ Live' = PlacedLive(Live, o, clock)
      <4>1. /\ clock \notin DOMAIN LiveOf(book)
            /\ LiveOf(AddOrder(book, Entry(o, clock))) = PlacedLive(LiveOf(book), o, clock)
        BY <2>3, <3>1, <3>2, SubmitIsPlace
      <4>2. Live' = LiveOf(AddOrder(book, Entry(o, clock))) /\ Live = LiveOf(book)
        BY <2>1, <2>2, <3>1
      <4>3. QED
        BY ONLY <4>1, <4>2
    <3>4. MarketView!Place(o, clock)
      BY <3>1, <3>3 DEF MarketView!Place, LiveFields, PlacedLive
    <3>5. clock \in DOMAIN Live'
      BY <3>3 DEF PlacedLive
    <3>6. QED
      BY <3>3, <3>4, <3>5
  <2>4. ASSUME MatchIteration
        PROVE  \E b, a \in DOMAIN Live : MarketView!Trade(b, a)
    <3> DEFINE bid == NextTrade(book).buy
               ask == NextTrade(book).sell
               q == NextTrade(book).quantity
    <3>1. /\ matching = TRUE /\ matching' = TRUE /\ HasCrossing(book)
          /\ book' = AfterTrade(book)
      BY <2>1, <2>4 DEF MatchIteration, MatchStep
    <3>2. /\ bid \in OrdersOn(book.bids) /\ ask \in OrdersOn(book.asks)
          /\ \A x \in OrdersOn(book.bids) : x.price <= bid.price
          /\ \A y \in OrdersOn(book.asks) : ask.price <= y.price
          /\ bid.price >= ask.price
          /\ q = IF bid.quantity <= ask.quantity THEN bid.quantity ELSE ask.quantity
          /\ LiveOf(AfterTrade(book)) = FilledLive(LiveOf(book), bid.timestamp, ask.timestamp, q)
      BY <2>1, <3>1, TradeIsTrade
    <3>3. PICK b : b = bid
      OBVIOUS
    <3>4. PICK a : a = ask
      OBVIOUS
    <3>5. PICK n : n = q
      OBVIOUS
    <3> HIDE DEF bid, ask, q
    <3>6. /\ \A e \in Resting(book) : Live[e.timestamp] = LiveFields(e) /\ e.timestamp \in DOMAIN Live
          /\ MarketView!Side("buy") = { e.timestamp : e \in OrdersOn(book.bids) }
          /\ MarketView!Side("sell") = { e.timestamp : e \in OrdersOn(book.asks) }
      BY <2>1, MarketSides
    <3>7. b \in Resting(book) /\ a \in Resting(book)
      BY <3>2, <3>3, <3>4 DEF Resting
    <3>8. \A e \in Resting(book) : Live[e.timestamp].price = e.price /\ Live[e.timestamp].quantity = e.quantity
      BY <3>6, FieldsOf
    <3>9. \A x \in Resting(book) : x.price \in Nat
      BY <2>1, RestingFacts, EntryFacts DEF Resting
    <3>10. MarketView!BestBid(b.timestamp)
      <4>1. b.timestamp \in MarketView!Side("buy")
        BY <3>2, <3>3, <3>6
      <4>2. ASSUME NEW other \in MarketView!Side("buy") PROVE Live[b.timestamp].price >= Live[other].price
        <5>1. PICK x \in OrdersOn(book.bids) : other = x.timestamp
          BY <3>6
        <5>2. x \in Resting(book) /\ x.price <= b.price
          BY <3>2, <3>3 DEF Resting
        <5>3. QED
          BY <3>7, <3>8, <3>9, <5>1, <5>2
      <4>3. QED
        BY <4>1, <4>2 DEF MarketView!BestBid
    <3>11. MarketView!BestAsk(a.timestamp)
      <4>1. a.timestamp \in MarketView!Side("sell")
        BY <3>2, <3>4, <3>6
      <4>2. ASSUME NEW other \in MarketView!Side("sell") PROVE Live[a.timestamp].price <= Live[other].price
        <5>1. PICK x \in OrdersOn(book.asks) : other = x.timestamp
          BY <3>6
        <5>2. x \in Resting(book) /\ a.price <= x.price
          BY <3>2, <3>4 DEF Resting
        <5>3. QED
          BY <3>7, <3>8, <3>9, <5>1, <5>2
      <4>3. QED
        BY <4>1, <4>2 DEF MarketView!BestAsk
    <3>12. Live[b.timestamp].price >= Live[a.timestamp].price
      BY <3>2, <3>3, <3>4, <3>7, <3>8
    <3>13. n = IF Live[b.timestamp].quantity <= Live[a.timestamp].quantity
               THEN Live[b.timestamp].quantity ELSE Live[a.timestamp].quantity
      BY <3>2, <3>3, <3>4, <3>5, <3>7, <3>8
    <3>14. Live' = MarketView!Filled(b.timestamp, a.timestamp, n)
      <4>1. Live' = FilledLive(Live, b.timestamp, a.timestamp, n)
        BY <2>1, <2>2, <3>1, <3>2, <3>3, <3>4, <3>5
      <4>2. MarketView!Filled(b.timestamp, a.timestamp, n) = FilledLive(Live, b.timestamp, a.timestamp, n)
        BY DEF MarketView!Filled, FilledLive
      <4>3. QED
        BY <4>1, <4>2
    <3>15. MarketView!Trade(b.timestamp, a.timestamp)
      BY <3>1, <3>10, <3>11, <3>12, <3>13, <3>14 DEF MarketView!Trade
    <3>16. QED
      BY <3>6, <3>7, <3>15
  <2>5. ASSUME MatchReturn PROVE MarketView!Close
    <3>1. matching = TRUE /\ matching' = FALSE /\ ~HasCrossing(book) /\ book' = book
      BY <2>1, <2>5 DEF MatchReturn, MatchDone
    <3>2. ~MarketView!Crossed
      <4>1. SUFFICES ASSUME NEW b \in MarketView!Side("buy"), NEW a \in MarketView!Side("sell"),
                            Live[b].price >= Live[a].price
                     PROVE  FALSE
        BY DEF MarketView!Crossed
      <4>2. PICK x \in OrdersOn(book.bids) : b = x.timestamp
        BY <2>1, MarketSides
      <4>3. PICK y \in OrdersOn(book.asks) : a = y.timestamp
        BY <2>1, MarketSides
      <4>4. Live[b].price = x.price /\ Live[a].price = y.price
        <5>1. x \in Resting(book) /\ y \in Resting(book)
          BY DEF Resting
        <5>2. Live[x.timestamp] = LiveFields(x) /\ Live[y.timestamp] = LiveFields(y)
          BY <2>1, <5>1, MarketSides
        <5>3. QED
          BY <4>2, <4>3, <5>2 DEF LiveFields
      <4>5. QED
        BY <2>1, <3>1, <4>1, <4>4, CrossingPair
    <3>3. Live' = Live
      BY <2>1, <2>2, <3>1
    <3>4. QED
      BY <3>1, <3>2, <3>3 DEF MarketView!Close
  <2>6. ASSUME NEW id \in DOMAIN book.index, Cancel(id)
        PROVE  \E number \in DOMAIN Live : MarketView!Cancel(number)
    <3>1. matching = FALSE /\ matching' = FALSE /\ book' = RemoveOrder(book, id)
      BY <2>1, <2>6 DEF Cancel
    <3>2. PICK number \in DOMAIN LiveOf(book) :
            LiveOf(RemoveOrder(book, id)) = [k \in DOMAIN LiveOf(book) \ {number} |-> LiveOf(book)[k]]
      BY <2>1, <2>6, CancelIsCancel
    <3>3. number \in DOMAIN Live /\ Live' = [k \in DOMAIN Live \ {number} |-> Live[k]]
      <4>1. Live' = LiveOf(RemoveOrder(book, id)) /\ Live = LiveOf(book)
        BY <2>1, <2>2, <3>1
      <4>2. QED
        BY ONLY <3>2, <4>1
    <3>4. MarketView!Cancel(number)
      BY <3>1, <3>3 DEF MarketView!Cancel
    <3>5. QED
      BY <3>3, <3>4
  <2>7. ASSUME UNCHANGED engineVars PROVE UNCHANGED MarketView!mvars
    <3>1. book' = book /\ matching' = matching
      BY <2>7 DEF engineVars
    <3>2. Live' = Live
      BY <2>1, <2>2, <3>1
    <3>3. QED
      BY <3>1, <3>2 DEF MarketView!mvars
  <2>8. QED
    BY <2>3, <2>4, <2>5, <2>6, <2>7 DEF EngineNext, MarketView!MNext
<1>3. QED
  BY <1>1, <1>2, EngineInvariant, PTL DEF EngineSpec, ImplementsMarket, MarketView!MSpec
===============================================================================
