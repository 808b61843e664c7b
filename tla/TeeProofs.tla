------------------------------- MODULE TeeProofs -------------------------------
(***************************************************************************)
(* Proofs about the server and the pool together, for any orders, requests *)
(* and deposits, with faults, disconnects and any number of restarts.      *)
(***************************************************************************)
EXTENDS DarkPool, MatchingProofs, PoolProofs

\* The fold of StoreNotes.
Stored(map, s) == Put(Put(map, s.buyerOld, s.buyerNew), s.sellerOld, s.sellerNew)
NoteStore == INSTANCE LeftFolds WITH Op <- Stored

-------------------------------------------------------------------------------
(* The inductive invariant *)

\* The orders that can pass verification.
Covered == { o \in Orders : o.price > 0 /\ o.quantity > 0 /\ CoversOrder(o) }

\* Where a request is once the contract knows its deposit and before its order is
\* placed.
Verified == {"nullifier", "root", "lock"}

\* Requests p with orders o, of the good ones, and settlements x in hand, w holding
\* the lock.
CallsOK(p, o, x, w, good) ==
  /\ p = [r \in Requests |-> p[r]] /\ o = [r \in Requests |-> o[r]] /\ x = [r \in Requests |-> x[r]]
  /\ w \in Requests \cup {NONE}
  /\ \A r \in Requests : p[r] = "matching" <=> w = r
  /\ \A r \in Requests : p[r] = "commitment" => o[r] \in Covered
  /\ \A r \in Requests : p[r] \in Verified => o[r] \in good
  /\ \A r \in Requests : x[r] # << >> => p[r] \in {"settling", "watching"}

\* Trades between good orders, within what is left of both and at a price
\* the buyer accepts.
SoundTrades(good) ==
  { t \in [buy : Entries, sell : Entries, price : Nat \ {0}, quantity : Nat \ {0}] :
      /\ t.buy.side = "buy" /\ t.sell.side = "sell"
      /\ t.quantity <= t.buy.quantity /\ t.quantity <= t.sell.quantity
      /\ t.price <= t.buy.price
      /\ Original(t.buy.id) \in good /\ Original(t.sell.id) \in good }

\* A well formed book of good orders, all of them older than c, and whatever rests
\* there is in the index but for the ids in d.
BookSound(b, t, c, d, good) ==
  /\ BookOK(b) /\ IndexOK(b, d) /\ c \in Nat
  /\ \A e \in Resting(b) : Original(e.id) \in good /\ e.timestamp < c
  /\ t \in Seq(SoundTrades(good))

IdsOf(t) == UNION { { t[i].buy.id, t[i].sell.id } : i \in 1 .. Len(t) }

\* The index knows the order an id in the lock map stands for, or the loop that is
\* running has just traded it.
Present(id, b, m, t) == id \in DOMAIN b.index \/ (m /\ id \in IdsOf(t))

\* The deposits locked, the two maps of orders and the notes stored, over a book
\* b, a loop m that runs or not, and its trades t.
MapsOK(locked, deposits, details, stored, b, m, t) ==
  /\ DOMAIN details = DOMAIN deposits
  /\ \A d \in DOMAIN locked :
       /\ locked[d] \in DOMAIN deposits /\ deposits[locked[d]] = d
       /\ Nullifier(details[locked[d]].deposit) = d
       /\ Nullifier(Original(locked[d]).deposit) = d
       /\ Present(locked[d], b, m, t)
  /\ \A id \in DOMAIN deposits :
       \/ deposits[id] \in DOMAIN locked /\ locked[deposits[id]] = id
       \/ deposits[id] \in DOMAIN stored

\* What is locked is an order's deposit until that order is traded or cancelled:
\* the lock map alone says what may be traded, so every step has to keep the two
\* other maps and the book in step with it.
ServerInv(good) ==
  /\ CallsOK(pc, order, outbox, writer, good)
  /\ matching \in BOOLEAN /\ (matching <=> writer # NONE)
  /\ BookSound(book, trades, clock, doubled, good)
  /\ MapsOK(lockedDeposits, orderToDeposit, orderDetails, settlements, book, matching, trades)

TeeInv == ServerInv(Covered)

\* Of those, the orders whose deposit is in the tree.
Owned(leaves) == { o \in Covered : o.deposit \in leaves }

\* Every order buys one token for another or sells it for that.  The one book the
\* server keeps would match orders of other pairs with each other.
OnePair(base, quote) ==
  /\ base # quote
  /\ \A o \in Covered : \/ o.side = "buy" /\ o.tokenIn = quote /\ o.tokenOut = base
                        \/ o.side = "sell" /\ o.tokenIn = base /\ o.tokenOut = quote

\* The greatest secret drawn so far.
Top == MAX_LEAVES + minted

NewNotes(s) == {s.buyerNew, s.sellerNew}
Secrets(s) == {s.buyerNew.nn, s.sellerNew.nn}

\* Settlements between two leaves that give out no more of any token than both hold.
FairSettlements(leaves, top) ==
  { s \in [buyerOld : Nat, sellerOld : Nat, buyerNew : NoteSet, sellerNew : NoteSet] :
      /\ s.buyerNew.nn <= top /\ s.sellerNew.nn <= top /\ s.buyerNew.nn # s.sellerNew.nn
      /\ \E buyer, seller \in leaves :
           /\ buyer # seller /\ s.buyerOld = Nullifier(buyer) /\ s.sellerOld = Nullifier(seller)
           /\ \A token \in Tokens :
                PoolView!Claim(s.buyerNew, token) + PoolView!Claim(s.sellerNew, token)
                  <= PoolView!Claim(buyer, token) + PoolView!Claim(seller, token) }

Fresh(s, leaves) == \A leaf \in leaves : leaf.nn \notin Secrets(s)

Apart(s, other) == Secrets(s) \cap Secrets(other) = {}

\* Settlements not sent yet, h, and transactions not mined yet, m: the new notes of
\* each are neither in the tree nor those of another.
PendingOK(h, m, leaves, top) ==
  /\ \A r \in Requests : h[r] \in Seq(FairSettlements(leaves, top))
  /\ \A r \in Requests : \A i \in 1 .. Len(h[r]) : Fresh(h[r][i], leaves)
  /\ \A tx \in m : tx.settlement \in FairSettlements(leaves, top) /\ Fresh(tx.settlement, leaves)
  /\ \A tx, other \in m : tx # other => Apart(tx.settlement, other.settlement)
  /\ \A tx \in m, r \in Requests : \A i \in 1 .. Len(h[r]) : Apart(tx.settlement, h[r][i])
  /\ \A r, c \in Requests : \A i \in 1 .. Len(h[r]), j \in 1 .. Len(h[c]) :
       r # c \/ i # j => Apart(h[r][i], h[c][j])

\* What a request has in hand and has not sent.
Unsent(p, x) == [r \in Requests |-> IF p[r] = "watching" THEN Tail(x[r]) ELSE x[r]]

RangeOf(map) == { map[d] : d \in DOMAIN map }

\* Every note in the tree, in a file, stored for a client or in a settlement.
IssuedIn(leaves, files, stored, m, x) ==
  leaves \cup files \cup RangeOf(stored)
    \cup (UNION { NewNotes(tx.settlement) : tx \in m })
    \cup (UNION { UNION { NewNotes(x[r][i]) : i \in 1 .. Len(x[r]) } : r \in Requests })

\* Different notes have different secrets, all of them drawn already.
DistinctNotes(S, top) ==
  /\ S \subseteq NoteSet
  /\ \A note \in S : note.nn <= top
  /\ \A note, other \in S : note.nn = other.nn => note = other

\* Requests p with outboxes x, transactions m, a tree of these leaves, notes in
\* files and stored: nothing on its way can exceed what two leaves hold, take a
\* secret twice or be sent twice.
FundsOK(p, x, m, leaves, files, stored, top) ==
  /\ PendingOK(Unsent(p, x), m, leaves, top)
  /\ \A r \in Requests : x[r] \in Seq(FairSettlements(leaves, top))
  /\ \A r \in Requests : p[r] = "watching" => x[r] # << >>
  /\ DistinctNotes(IssuedIn(leaves, files, stored, m, x), top)

\* Together with the pool's own invariant: whatever becomes of the settlements on
\* their way, each is an exchange of two notes or refused.
FundsInv ==
  /\ PoolInv
  /\ ServerInv(Owned(LeafSet))
  /\ minted \in Nat
  /\ DepositSet \subseteq LeafSet
  /\ FundsOK(pc, outbox, mempool, LeafSet, saved, settlements, Top)

-------------------------------------------------------------------------------
(* Entries, trades and stored notes *)

\* An entry has the deposit and the tokens of its order.
LEMMA EntryDeposit ==
  ASSUME NEW e \in Entries
  PROVE  /\ e.deposit = Original(e.id).deposit
         /\ e.tokenIn = Original(e.id).tokenIn /\ e.tokenOut = Original(e.id).tokenOut
<1>1. PICK o \in Orders : \E time \in Nat, q \in 1 .. o.quantity : e = Part(o, time, q)
  BY DEF Entries
<1>2. PICK time \in Nat, q \in 1 .. o.quantity : e = Part(o, time, q)
  BY <1>1
<1>3. {"deposit", "tokenIn", "tokenOut", "quantity"} \subseteq DOMAIN o
  BY OrderIdAssumption, OrdersAssumption
<1>4. Entry(o, time) = [k \in DOMAIN o \cup {"timestamp"} |-> IF k = "timestamp" THEN time ELSE o[k]]
  BY DEF Entry, Put
<1>5. e.deposit = o.deposit /\ e.tokenIn = o.tokenIn /\ e.tokenOut = o.tokenOut
  BY <1>2, <1>3, <1>4 DEF Part
<1>6. Original(e.id) = o
  BY <1>2, PartFields, OriginalOf
<1>7. QED
  BY <1>5, <1>6

\* An entry has the side and the price of its order.
LEMMA EntryOfOrder ==
  ASSUME NEW e \in Entries
  PROVE  e.side = Original(e.id).side /\ e.price = Original(e.id).price
<1>1. PICK o \in Orders : \E time \in Nat, q \in 1 .. o.quantity : e = Part(o, time, q)
  BY DEF Entries
<1>2. PICK time \in Nat, q \in 1 .. o.quantity : e = Part(o, time, q)
  BY <1>1
<1>3. QED
  BY <1>2, PartFields, OriginalOf

LEMMA ProductPositive ==
  ASSUME NEW a \in Nat \ {0}, NEW b \in Nat \ {0}
  PROVE  a * b # 0
<1>1. PICK c \in Nat : a = c + 1
  <2>1. a - 1 \in Nat /\ a = (a - 1) + 1
    OBVIOUS
  <2>2. QED
    BY <2>1
<1>2. c * b \in Nat /\ (c + 1) * b = c * b + b
  OBVIOUS
<1>3. QED
  BY <1>1, <1>2

\* Smaller factors have a smaller product.
LEMMA ProductBounded ==
  ASSUME NEW a \in Nat, NEW b \in Nat, NEW x \in Nat, NEW y \in Nat, x <= a, y <= b
  PROVE  x * y <= a * b /\ x * y \in Nat
<1>1. x * y <= a * y
  <2>1. PICK d \in Nat : a = x + d
    <3>1. a - x \in Nat /\ a = x + (a - x)
      OBVIOUS
    <3>2. QED
      BY <3>1
  <2>2. (x + d) * y = x * y + d * y /\ d * y \in Nat /\ x * y \in Nat
    OBVIOUS
  <2>3. QED
    BY <2>1, <2>2
<1>2. a * y <= a * b
  <2>1. PICK d \in Nat : b = y + d
    <3>1. b - y \in Nat /\ b = y + (b - y)
      OBVIOUS
    <3>2. QED
      BY <3>1
  <2>2. a * (y + d) = a * y + a * d /\ a * d \in Nat /\ a * y \in Nat
    OBVIOUS
  <2>3. QED
    BY <2>1, <2>2
<1>3. x * y \in Nat /\ a * y \in Nat /\ a * b \in Nat
  OBVIOUS
<1>4. QED
  BY <1>1, <1>2, <1>3

\* A trade costs the buyer no more than verification found covered.
LEMMA TradeCovered ==
  ASSUME NEW good \in SUBSET Covered, NEW t \in SoundTrades(good)
  PROVE  /\ t.quantity * t.price \in Nat /\ t.quantity * t.price < UINT128
         /\ t.buy.deposit.amount \in Nat => t.quantity * t.price <= t.buy.deposit.amount
         /\ t.sell.deposit.amount \in Nat => t.quantity <= t.sell.deposit.amount
<1> DEFINE o == Original(t.buy.id)
           s == Original(t.sell.id)
<1>1. /\ t.buy \in Entries /\ t.sell \in Entries /\ t.price \in Nat /\ t.quantity \in Nat
      /\ t.buy.side = "buy" /\ t.sell.side = "sell"
      /\ t.quantity <= t.buy.quantity /\ t.quantity <= t.sell.quantity
      /\ t.price <= t.buy.price /\ CoversOrder(o) /\ CoversOrder(s)
  BY DEF SoundTrades, Covered
<1>2. /\ o.side = "buy" /\ o.price = t.buy.price /\ o.quantity \in Nat /\ o.price \in Nat
      /\ t.buy.quantity \in Nat /\ t.buy.quantity <= o.quantity
  BY <1>1, EntryFacts
<1>3. /\ s.side = "sell" /\ s.quantity \in Nat
      /\ t.sell.quantity \in Nat /\ t.sell.quantity <= s.quantity
  BY <1>1, EntryFacts
<1>4. o.quantity * o.price < UINT128 /\ o.quantity * o.price <= o.deposit.amount
  BY <1>1, <1>2 DEF CoversOrder, Required
<1>5. s.quantity <= s.deposit.amount
  BY <1>1, <1>3 DEF CoversOrder, Required
<1>6. t.buy.deposit = o.deposit /\ t.sell.deposit = s.deposit
  BY <1>1, EntryDeposit
<1> HIDE DEF o, s
<1>7. t.quantity <= o.quantity /\ t.price <= o.price
  BY <1>1, <1>2
<1>8. t.quantity * t.price <= o.quantity * o.price /\ t.quantity * t.price \in Nat
  BY <1>1, <1>2, <1>7, ProductBounded
<1>9. o.quantity * o.price \in Nat /\ UINT128 \in Nat
  BY <1>2, PoolAssumption
<1>10. t.quantity * t.price < UINT128
  BY <1>4, <1>8, <1>9
<1>11. ASSUME o.deposit.amount \in Nat PROVE t.quantity * t.price <= o.deposit.amount
  BY <1>4, <1>8, <1>9, <1>11
<1>12. ASSUME s.deposit.amount \in Nat PROVE t.quantity <= s.deposit.amount
  BY <1>1, <1>3, <1>5, <1>12
<1>13. QED
  BY <1>6, <1>8, <1>10, <1>11, <1>12

\* The notes stored after the first k settlements of a batch.
StoredAt(map, batch, k) == NoteStore!Folded(map, FirstOf(batch, k))

LEMMA OneStoredMore ==
  ASSUME NEW map, NEW batch, NEW k \in Nat
  PROVE  /\ StoredAt(map, batch, 0) = map
         /\ StoredAt(map, batch, k + 1) = Stored(StoredAt(map, batch, k), batch[k + 1])
<1> DEFINE f == FirstOf(batch, k)
           g == FirstOf(batch, k + 1)
           z == FirstOf(batch, 0)
<1>1. DOMAIN z = {}
  BY DEF FirstOf
<1>2. DOMAIN f = 1 .. k /\ DOMAIN g = 1 .. k + 1
  BY DEF FirstOf
<1>3. (\A i \in 1 .. k : g[i] = f[i]) /\ g[k + 1] = batch[k + 1]
  BY DEF FirstOf
<1> HIDE DEF f, g, z
<1>4. NoteStore!Folded(map, z) = map
  BY <1>1, NoteStore!FoldOfEmpty
<1>5. NoteStore!Folded(map, g) = Stored(NoteStore!Folded(map, f), g[k + 1])
  BY <1>2, <1>3, NoteStore!FoldOfLonger
<1>6. QED
  BY <1>3, <1>4, <1>5 DEF StoredAt, f, g, z

LEMMA AllStored ==
  ASSUME NEW map, NEW batch, NEW n \in Nat, batch = [i \in 1 .. n |-> batch[i]]
  PROVE  StoreNotes(map, batch) = StoredAt(map, batch, n)
<1>1. FirstOf(batch, n) = batch
  BY DEF FirstOf
<1>2. StoreNotes(map, batch) = NoteStore!Folded(map, batch)
  BY DEF StoreNotes, NoteStore!Folded, FoldLeft, MapThenFoldSet, Stored, Max,
         NoteStore!FoldLeft, NoteStore!MapThenFoldSet, NoteStore!Max
<1>3. QED
  BY <1>1, <1>2 DEF StoredAt

\* Storing keeps every deposit's entry, makes one for every deposit of the
\* batch, and stores no notes but those of the batch.
LEMMA NotesStored ==
  ASSUME NEW map, NEW batch, NEW n \in Nat, batch = [i \in 1 .. n |-> batch[i]]
  PROVE  /\ DOMAIN map \subseteq DOMAIN StoreNotes(map, batch)
         /\ \A i \in 1 .. n : /\ batch[i].buyerOld \in DOMAIN StoreNotes(map, batch)
                              /\ batch[i].sellerOld \in DOMAIN StoreNotes(map, batch)
         /\ RangeOf(StoreNotes(map, batch))
              \subseteq RangeOf(map) \cup UNION { NewNotes(batch[i]) : i \in 1 .. n }
<1> DEFINE After(k) == StoredAt(map, batch, k)
           Given(k) == UNION { NewNotes(batch[i]) : i \in 1 .. k }
           Good(k) == /\ DOMAIN map \subseteq DOMAIN After(k)
                      /\ \A i \in 1 .. k : /\ batch[i].buyerOld \in DOMAIN After(k)
                                           /\ batch[i].sellerOld \in DOMAIN After(k)
                      /\ RangeOf(After(k)) \subseteq RangeOf(map) \cup Given(k)
           T == { k \in Nat : Good(k) }
<1>1. 0 \in T
  <2>1. After(0) = map
    BY OneStoredMore
  <2> HIDE DEF After
  <2>2. QED
    BY <2>1
<1>2. ASSUME NEW k \in Nat, k \in T PROVE k + 1 \in T
  <2> DEFINE old == After(k)
             new == After(k + 1)
             s == batch[k + 1]
  <2>1. /\ DOMAIN map \subseteq DOMAIN old
        /\ \A i \in 1 .. k : batch[i].buyerOld \in DOMAIN old /\ batch[i].sellerOld \in DOMAIN old
        /\ RangeOf(old) \subseteq RangeOf(map) \cup Given(k)
    BY <1>2
  <2>2. new = Stored(old, s)
    BY OneStoredMore
  <2> HIDE DEF old, new, s, After
  <2>3. DOMAIN new = DOMAIN old \cup {s.buyerOld, s.sellerOld}
    BY <2>2 DEF Stored, Put
  <2>4. RangeOf(new) \subseteq RangeOf(old) \cup NewNotes(s)
    BY <2>2 DEF Stored, Put, RangeOf, NewNotes
  <2>5. \A i \in 1 .. k + 1 : i \in 1 .. k \/ i = k + 1
    OBVIOUS
  <2>6. /\ DOMAIN map \subseteq DOMAIN new
        /\ \A i \in 1 .. k + 1 : batch[i].buyerOld \in DOMAIN new /\ batch[i].sellerOld \in DOMAIN new
    BY <2>1, <2>3, <2>5 DEF s
  <2>7. Given(k) \subseteq Given(k + 1) /\ NewNotes(s) \subseteq Given(k + 1)
    <3>1. \A i \in 1 .. k : i \in 1 .. k + 1
      OBVIOUS
    <3>2. k + 1 \in 1 .. k + 1
      OBVIOUS
    <3>3. QED
      BY <3>1, <3>2 DEF s
  <2> HIDE DEF Given
  <2>8. RangeOf(new) \subseteq RangeOf(map) \cup Given(k + 1)
    BY <2>1, <2>4, <2>7
  <2>9. Good(k + 1)
    BY <2>6, <2>8 DEF new
  <2> HIDE DEF Good
  <2>10. QED
    BY <2>9
<1>3. n \in T
  <2> HIDE DEF T
  <2>1. QED
    BY <1>1, <1>2, SetInduction
<1>4. StoreNotes(map, batch) = After(n)
  BY AllStored
<1> HIDE DEF After, Given
<1>5. Good(n)
  BY <1>3
<1>6. QED
  BY <1>4, <1>5 DEF Given

-------------------------------------------------------------------------------
(* What the steps do to the book and the maps *)

LEMMA PlacedEntry ==
  ASSUME NEW o \in Covered, NEW time \in Nat, NEW e, e = Entry(o, time)
  PROVE  /\ e \in Entries /\ e.id = o.id /\ e.deposit = o.deposit
         /\ Original(e.id) = o /\ e.timestamp = time
<1>1. o \in Orders /\ o.quantity > 0
  BY DEF Covered
<1>2. e \in Entries /\ e.id = o.id /\ e.timestamp = time
  BY <1>1, NewEntry
<1>3. Original(o.id) = o
  BY <1>1, OriginalOf
<1>4. QED
  BY <1>2, <1>3, EntryDeposit

\* What filing order o does to the book b, the clock c and the doubled ids d.
Placed(o, b, c, d, newBook, newClock, newDoubled) ==
  /\ newBook = AddOrder(b, Entry(o, c))
  /\ newClock = c + 1
  /\ newDoubled = d \cup ({Entry(o, c).id} \cap RestingIds(b))

LEMMA PlacedSound ==
  ASSUME NEW good \in SUBSET Covered, NEW b, NEW t, NEW c, NEW d, BookSound(b, t, c, d, good),
         NEW o \in good, NEW new, NEW next, NEW more, Placed(o, b, c, d, new, next, more)
  PROVE  BookSound(new, << >>, next, more, good)
<1> DEFINE e == Entry(o, c)
<1>0. new = AddOrder(b, e) /\ next = c + 1 /\ more = d \cup ({e.id} \cap RestingIds(b))
  BY DEF Placed
<1>1. /\ BookOK(b) /\ IndexOK(b, d) /\ c \in Nat
      /\ \A x \in Resting(b) : Original(x.id) \in good /\ x.timestamp < c
  BY DEF BookSound
<1>2. e \in Entries /\ e.id = o.id /\ Original(e.id) = o /\ e.timestamp = c
  BY <1>1, PlacedEntry
<1>3. \A x \in Resting(b) : x.timestamp \in Nat /\ x.timestamp < c
  BY <1>1, RestingFacts, EntryFacts DEF Resting
<1>4. \A x \in Resting(b) : x.timestamp # e.timestamp
  BY <1>2, <1>3
<1>5. /\ BookOK(new) /\ Resting(new) = Resting(b) \cup {e}
      /\ IndexOK(new, more)
  BY <1>0, <1>1, <1>2, <1>4, OrderJoins
<1>6. \A x \in Resting(new) : Original(x.id) \in good /\ x.timestamp < next
  BY <1>0, <1>1, <1>2, <1>3, <1>5
<1>7. << >> \in Seq(SoundTrades(good))
  OBVIOUS
<1>8. QED
  BY <1>0, <1>1, <1>5, <1>6, <1>7 DEF BookSound

LEMMA IdsAppended ==
  ASSUME NEW good, NEW t \in Seq(SoundTrades(good)), NEW r \in SoundTrades(good)
  PROVE  IdsOf(Append(t, r)) = IdsOf(t) \cup {r.buy.id, r.sell.id}
<1> DEFINE n == Len(t)
           longer == Append(t, r)
<1>1. /\ n \in Nat /\ Len(longer) = n + 1
      /\ \A i \in 1 .. n : longer[i] = t[i]
      /\ longer[n + 1] = r
  OBVIOUS
<1> HIDE DEF longer
<1>2. \A id : (\E i \in 1 .. n + 1 : id \in {longer[i].buy.id, longer[i].sell.id})
               <=> (\E i \in 1 .. n : id \in {t[i].buy.id, t[i].sell.id}) \/ id \in {r.buy.id, r.sell.id}
  <2>1. \A i : i \in 1 .. n + 1 <=> i \in 1 .. n \/ i = n + 1
    BY <1>1
  <2> HIDE DEF n
  <2>2. QED
    BY <1>1, <2>1
<1>3. \A id : id \in IdsOf(longer) <=> \E i \in 1 .. n + 1 : id \in {longer[i].buy.id, longer[i].sell.id}
  BY <1>1 DEF IdsOf
<1>4. \A id : id \in IdsOf(t) <=> \E i \in 1 .. n : id \in {t[i].buy.id, t[i].sell.id}
  BY DEF IdsOf
<1> HIDE DEF n
<1>5. QED
  BY <1>2, <1>3, <1>4 DEF longer

LEMMA TradedSound ==
  ASSUME NEW good \in SUBSET Covered, NEW b, NEW t, NEW c, NEW d, BookSound(b, t, c, d, good),
         HasCrossing(b)
  PROVE  LET new == AfterTrade(b)
             more == Append(t, NextTrade(b))
         IN  /\ BookSound(new, more, c, d \cap RestingIds(new), good)
             /\ \A id : Present(id, b, TRUE, t) => Present(id, new, TRUE, more)
<1> DEFINE r == NextTrade(b)
           new == AfterTrade(b)
<1>1. /\ BookOK(b) /\ IndexOK(b, d) /\ c \in Nat /\ t \in Seq(SoundTrades(good))
      /\ \A e \in Resting(b) : Original(e.id) \in good /\ e.timestamp < c
  BY DEF BookSound
<1>2. /\ r = [buy |-> r.buy, sell |-> r.sell, price |-> r.price, quantity |-> r.quantity]
      /\ r.buy \in OrdersOn(b.bids) /\ r.sell \in OrdersOn(b.asks)
      /\ r.price = r.sell.price /\ r.buy.price >= r.sell.price
      /\ r.quantity \in Nat \ {0}
      /\ r.quantity <= r.buy.quantity /\ r.quantity <= r.sell.quantity
      /\ BookOK(new) /\ IndexOK(new, d)
  BY <1>1, Traded
<1>3. /\ Resting(new) \subseteq Resting(b) \cup Left(r.buy, r.quantity) \cup Left(r.sell, r.quantity)
      /\ DOMAIN b.index \subseteq DOMAIN new.index \cup {r.buy.id, r.sell.id}
  BY <1>1, TradeMade
<1> HIDE DEF r, new
<1>4. /\ r.buy \in Entries /\ r.buy.side = "buy" /\ r.sell \in Entries /\ r.sell.side = "sell"
      /\ r.buy \in Resting(b) /\ r.sell \in Resting(b)
  BY <1>1, <1>2, RestingFacts DEF Resting
<1>5. /\ Original(r.buy.id) \in good /\ Original(r.sell.id) \in good
      /\ r.price \in Nat \ {0} /\ r.price <= r.buy.price
  <2>1. r.sell.price \in Nat /\ r.sell.price = Original(r.sell.id).price /\ r.buy.price \in Nat
    BY <1>4, EntryFacts, EntryOfOrder
  <2>2. Original(r.sell.id) \in Covered
    BY <1>1, <1>4
  <2>3. r.sell.price # 0
    BY <2>1, <2>2 DEF Covered
  <2>4. QED
    BY <1>1, <1>2, <1>4, <2>1, <2>3
<1>6. r \in SoundTrades(good)
  <2>1. r \in [buy : Entries, sell : Entries, price : Nat \ {0}, quantity : Nat \ {0}]
    BY <1>2, <1>4, <1>5
  <2>2. QED
    BY <1>2, <1>4, <1>5, <2>1 DEF SoundTrades
<1>7. \A e \in Left(r.buy, r.quantity) : e.id = r.buy.id /\ e.timestamp = r.buy.timestamp
  BY <1>2, <1>4, LeftFacts
<1>8. \A e \in Left(r.sell, r.quantity) : e.id = r.sell.id /\ e.timestamp = r.sell.timestamp
  BY <1>2, <1>4, LeftFacts
<1>9. \A e \in Resting(new) : Original(e.id) \in good /\ e.timestamp < c
  BY <1>1, <1>3, <1>4, <1>7, <1>8
<1>10. Append(t, r) \in Seq(SoundTrades(good))
  BY <1>1, <1>6
<1>11. IdsOf(Append(t, r)) = IdsOf(t) \cup {r.buy.id, r.sell.id}
  BY <1>1, <1>6, IdsAppended
<1>12. ASSUME NEW id, Present(id, b, TRUE, t) PROVE Present(id, new, TRUE, Append(t, r))
  BY <1>3, <1>11, <1>12 DEF Present
<1>13. IndexOK(new, d \cap RestingIds(new))
  BY <1>2, IndexShrinks
<1>14. BookSound(new, Append(t, r), c, d \cap RestingIds(new), good)
  BY <1>1, <1>2, <1>9, <1>10, <1>13 DEF BookSound
<1>15. QED
  BY <1>12, <1>14 DEF r, new

LEMMA CancelledSound ==
  ASSUME NEW good \in SUBSET Covered, NEW b, NEW t, NEW c, NEW d, BookSound(b, t, c, d, good), NEW id
  PROVE  LET new == RemoveOrder(b, id)
         IN  /\ BookSound(new, t, c, d \cap RestingIds(new), good)
             /\ \A other : other # id /\ Present(other, b, FALSE, t) => Present(other, new, FALSE, t)
<1>1. /\ BookOK(b) /\ IndexOK(b, d) /\ c \in Nat /\ t \in Seq(SoundTrades(good))
      /\ \A e \in Resting(b) : Original(e.id) \in good /\ e.timestamp < c
  BY DEF BookSound
<1> DEFINE new == RemoveOrder(b, id)
<1>2. /\ BookOK(new) /\ IndexOK(new, d) /\ Resting(new) \subseteq Resting(b)
      /\ DOMAIN new.index = DOMAIN b.index \ {id}
  BY <1>1, OrderLeaves
<1> HIDE DEF new
<1>3. ASSUME NEW other, other # id, Present(other, b, FALSE, t) PROVE Present(other, new, FALSE, t)
  BY <1>2, <1>3 DEF Present
<1>4. IndexOK(new, d \cap RestingIds(new))
  BY <1>2, IndexShrinks
<1>5. BookSound(new, t, c, d \cap RestingIds(new), good)
  BY <1>1, <1>2, <1>4 DEF BookSound
<1>6. QED
  BY <1>3, <1>5 DEF new

\* Placing an order locks its deposit for it; what was locked stays in place.
LEMMA PlacedInMaps ==
  ASSUME NEW locked, NEW deposits, NEW details, NEW stored, NEW b, NEW t, NEW new,
         MapsOK(locked, deposits, details, stored, b, FALSE, t),
         NEW o \in Orders, NEW e, e.id = o.id, e.deposit = o.deposit,
         DOMAIN new.index = DOMAIN b.index \cup {o.id},
         Nullifier(o.deposit) \notin DOMAIN locked
  PROVE  MapsOK(Put(locked, Nullifier(o.deposit), o.id), Put(deposits, o.id, Nullifier(o.deposit)),
                Put(details, o.id, e), stored, new, TRUE, << >>)
<1> DEFINE n == Nullifier(o.deposit)
           l2 == Put(locked, n, o.id)
           d2 == Put(deposits, o.id, n)
           e2 == Put(details, o.id, e)
<1>1. Original(o.id) = o
  BY OriginalOf
<1>2. /\ DOMAIN l2 = DOMAIN locked \cup {n} /\ l2[n] = o.id
      /\ \A d \in DOMAIN locked : d # n => l2[d] = locked[d]
  BY DEF Put
<1>3. /\ DOMAIN d2 = DOMAIN deposits \cup {o.id} /\ d2[o.id] = n
      /\ \A id \in DOMAIN deposits : id # o.id => d2[id] = deposits[id]
  BY DEF Put
<1>4. /\ DOMAIN e2 = DOMAIN details \cup {o.id} /\ e2[o.id] = e
      /\ \A id \in DOMAIN details : id # o.id => e2[id] = details[id]
  BY DEF Put
<1>5. Nullifier(o.deposit) = n /\ n \notin DOMAIN locked
  OBVIOUS
<1> HIDE DEF n, l2, d2, e2
<1>6. DOMAIN e2 = DOMAIN d2
  BY <1>3, <1>4 DEF MapsOK
<1>7. ASSUME NEW d \in DOMAIN locked
      PROVE  /\ d # n /\ locked[d] # o.id
             /\ locked[d] \in DOMAIN deposits /\ deposits[locked[d]] = d
             /\ Nullifier(details[locked[d]].deposit) = d
             /\ Nullifier(Original(locked[d]).deposit) = d
             /\ locked[d] \in DOMAIN b.index
             /\ locked[d] \in DOMAIN details
  BY <1>1, <1>5 DEF MapsOK, Present
<1>8. ASSUME NEW d \in DOMAIN l2
      PROVE  /\ l2[d] \in DOMAIN d2 /\ d2[l2[d]] = d
             /\ Nullifier(e2[l2[d]].deposit) = d
             /\ Nullifier(Original(l2[d]).deposit) = d
             /\ Present(l2[d], new, TRUE, << >>)
  <2>1. CASE d = n
    BY <1>1, <1>2, <1>3, <1>4, <1>5, <2>1 DEF Present
  <2>2. CASE d \in DOMAIN locked
    <3>1. l2[d] = locked[d] /\ l2[d] # o.id
      BY <1>2, <1>7, <2>2
    <3>2. d2[l2[d]] = deposits[locked[d]] /\ e2[l2[d]] = details[locked[d]] /\ l2[d] \in DOMAIN d2
      BY <1>3, <1>4, <1>7, <2>2, <3>1
    <3>3. Present(l2[d], new, TRUE, << >>)
      BY <1>7, <2>2, <3>1 DEF Present
    <3>4. QED
      BY <1>7, <2>2, <3>1, <3>2, <3>3
  <2>3. QED
    BY <1>2, <2>1, <2>2
<1>9. ASSUME NEW id \in DOMAIN d2
      PROVE  (d2[id] \in DOMAIN l2 /\ l2[d2[id]] = id) \/ d2[id] \in DOMAIN stored
  <2>1. CASE id = o.id
    BY <1>2, <1>3, <2>1
  <2>2. CASE id # o.id
    <3>1. id \in DOMAIN deposits /\ d2[id] = deposits[id]
      BY <1>3, <2>2
    <3>2. (deposits[id] \in DOMAIN locked /\ locked[deposits[id]] = id) \/ deposits[id] \in DOMAIN stored
      BY <3>1 DEF MapsOK
    <3>3. QED
      BY <1>2, <1>7, <3>1, <3>2
  <2>3. QED
    BY <2>1, <2>2
<1>10. MapsOK(l2, d2, e2, stored, new, TRUE, << >>)
  BY <1>6, <1>8, <1>9 DEF MapsOK
<1>11. QED
  BY <1>10 DEF l2, d2, e2, n

\* A cancellation releases the deposit and forgets the order.
LEMMA CancelledInMaps ==
  ASSUME NEW locked, NEW deposits, NEW details, NEW stored, NEW b, NEW t, NEW new,
         MapsOK(locked, deposits, details, stored, b, FALSE, t),
         NEW o \in Orders, Nullifier(o.deposit) \in DOMAIN locked,
         locked[Nullifier(o.deposit)] = o.id,
         \A other : other # o.id /\ Present(other, b, FALSE, t) => Present(other, new, FALSE, t)
  PROVE  MapsOK(Without(locked, Nullifier(o.deposit)), Without(deposits, o.id),
                Without(details, o.id), stored, new, FALSE, t)
<1> DEFINE n == Nullifier(o.deposit)
           l2 == Without(locked, n)
           d2 == Without(deposits, o.id)
           e2 == Without(details, o.id)
<1>1. Original(o.id) = o
  BY OriginalOf
<1>2. DOMAIN l2 = DOMAIN locked \ {n} /\ \A d \in DOMAIN l2 : l2[d] = locked[d]
  BY DEF Without
<1>3. DOMAIN d2 = DOMAIN deposits \ {o.id} /\ \A id \in DOMAIN d2 : d2[id] = deposits[id]
  BY DEF Without
<1>4. DOMAIN e2 = DOMAIN details \ {o.id} /\ \A id \in DOMAIN e2 : e2[id] = details[id]
  BY DEF Without
<1>5. Nullifier(o.deposit) = n /\ n \in DOMAIN locked /\ locked[n] = o.id
  OBVIOUS
<1> HIDE DEF n, l2, d2, e2
<1>6. DOMAIN e2 = DOMAIN d2
  BY <1>3, <1>4 DEF MapsOK
<1>7. ASSUME NEW d \in DOMAIN l2
      PROVE  /\ l2[d] \in DOMAIN d2 /\ d2[l2[d]] = d
             /\ Nullifier(e2[l2[d]].deposit) = d
             /\ Nullifier(Original(l2[d]).deposit) = d
             /\ Present(l2[d], new, FALSE, t)
  <2>1. d \in DOMAIN locked /\ d # n /\ l2[d] = locked[d]
    BY <1>2
  <2>2. /\ locked[d] \in DOMAIN deposits /\ deposits[locked[d]] = d
        /\ Nullifier(details[locked[d]].deposit) = d
        /\ Nullifier(Original(locked[d]).deposit) = d
        /\ Present(locked[d], b, FALSE, t) /\ locked[d] \in DOMAIN details
    BY <2>1 DEF MapsOK
  <2>3. locked[d] # o.id
    BY <1>1, <1>5, <2>1, <2>2
  <2>4. l2[d] \in DOMAIN d2 /\ d2[l2[d]] = deposits[locked[d]] /\ e2[l2[d]] = details[locked[d]]
    BY <1>3, <1>4, <2>1, <2>2, <2>3
  <2>5. QED
    BY <2>1, <2>2, <2>3, <2>4
<1>8. ASSUME NEW id \in DOMAIN d2
      PROVE  (d2[id] \in DOMAIN l2 /\ l2[d2[id]] = id) \/ d2[id] \in DOMAIN stored
  <2>1. id \in DOMAIN deposits /\ id # o.id /\ d2[id] = deposits[id]
    BY <1>3
  <2>2. (deposits[id] \in DOMAIN locked /\ locked[deposits[id]] = id) \/ deposits[id] \in DOMAIN stored
    BY <2>1 DEF MapsOK
  <2>3. QED
    BY <1>2, <1>5, <2>1, <2>2
<1>9. MapsOK(l2, d2, e2, stored, new, FALSE, t)
  BY <1>6, <1>7, <1>8 DEF MapsOK
<1>10. QED
  BY <1>9 DEF l2, d2, e2, n

DepositsOf(t) ==
  UNION { { Nullifier(t[i].buy.deposit), Nullifier(t[i].sell.deposit) } : i \in 1 .. Len(t) }

\* After a loop the traded deposits have notes and the others are as locked as
\* they were: an order of a deposit that is still locked was not traded.
LEMMA CollectedInMaps ==
  ASSUME NEW good, NEW locked, NEW deposits, NEW details, NEW stored, NEW b,
         NEW t \in Seq(SoundTrades(good)), NEW new,
         MapsOK(locked, deposits, details, stored, b, TRUE, t),
         DOMAIN stored \subseteq DOMAIN new, DepositsOf(t) \subseteq DOMAIN new
  PROVE  MapsOK(Unlock(locked, DepositsOf(t)), Unlock(deposits, IdsOf(t)),
                Unlock(details, IdsOf(t)), new, b, FALSE, t)
<1> DEFINE D == DepositsOf(t)
           I == IdsOf(t)
           l2 == Unlock(locked, D)
           d2 == Unlock(deposits, I)
           e2 == Unlock(details, I)
<1>1. DOMAIN l2 = DOMAIN locked \ D /\ \A d \in DOMAIN l2 : l2[d] = locked[d]
  BY DEF Unlock
<1>2. DOMAIN d2 = DOMAIN deposits \ I /\ \A id \in DOMAIN d2 : d2[id] = deposits[id]
  BY DEF Unlock
<1>3. DOMAIN e2 = DOMAIN details \ I /\ \A id \in DOMAIN e2 : e2[id] = details[id]
  BY DEF Unlock
<1>4. ASSUME NEW id \in I PROVE Nullifier(Original(id).deposit) \in D
  <2>1. PICK i \in 1 .. Len(t) : id \in {t[i].buy.id, t[i].sell.id}
    BY DEF IdsOf
  <2>2. t[i] \in SoundTrades(good)
    BY ElementOfSeq
  <2>3. t[i].buy \in Entries /\ t[i].sell \in Entries
    BY <2>2 DEF SoundTrades
  <2>4. /\ t[i].buy.deposit = Original(t[i].buy.id).deposit
        /\ t[i].sell.deposit = Original(t[i].sell.id).deposit
    BY <2>3, EntryDeposit
  <2>5. {Nullifier(t[i].buy.deposit), Nullifier(t[i].sell.deposit)} \subseteq D
    BY DEF DepositsOf
  <2>6. QED
    BY <2>1, <2>4, <2>5
<1>5. D \subseteq DOMAIN new
  OBVIOUS
<1>6. \A id : Present(id, b, TRUE, t) /\ id \notin I => Present(id, b, FALSE, t)
  BY DEF Present
<1> HIDE DEF D, I, l2, d2, e2
<1>7. DOMAIN e2 = DOMAIN d2
  BY <1>2, <1>3 DEF MapsOK
<1>8. ASSUME NEW d \in DOMAIN l2
      PROVE  /\ l2[d] \in DOMAIN d2 /\ d2[l2[d]] = d
             /\ Nullifier(e2[l2[d]].deposit) = d
             /\ Nullifier(Original(l2[d]).deposit) = d
             /\ Present(l2[d], b, FALSE, t)
  <2>1. d \in DOMAIN locked /\ d \notin D /\ l2[d] = locked[d]
    BY <1>1
  <2>2. /\ locked[d] \in DOMAIN deposits /\ deposits[locked[d]] = d
        /\ Nullifier(details[locked[d]].deposit) = d
        /\ Nullifier(Original(locked[d]).deposit) = d
        /\ Present(locked[d], b, TRUE, t) /\ locked[d] \in DOMAIN details
    BY <2>1 DEF MapsOK
  <2>3. locked[d] \notin I
    BY <1>4, <2>1, <2>2
  <2>4. l2[d] \in DOMAIN d2 /\ d2[l2[d]] = deposits[locked[d]] /\ e2[l2[d]] = details[locked[d]]
    BY <1>2, <1>3, <2>1, <2>2, <2>3
  <2>5. QED
    BY <1>6, <2>1, <2>2, <2>3, <2>4
<1>9. ASSUME NEW id \in DOMAIN d2
      PROVE  (d2[id] \in DOMAIN l2 /\ l2[d2[id]] = id) \/ d2[id] \in DOMAIN new
  <2>1. id \in DOMAIN deposits /\ d2[id] = deposits[id]
    BY <1>2
  <2>2. (deposits[id] \in DOMAIN locked /\ locked[deposits[id]] = id) \/ deposits[id] \in DOMAIN stored
    BY <2>1 DEF MapsOK
  <2>3. QED
    BY <1>1, <1>5, <2>1, <2>2
<1>10. MapsOK(l2, d2, e2, new, b, FALSE, t)
  BY <1>7, <1>8, <1>9 DEF MapsOK
<1>11. QED
  BY <1>10 DEF l2, d2, e2, D, I

-------------------------------------------------------------------------------
(* The steps of a request *)

\* A request outside the loop goes to a place outside the loop.
LEMMA CallsMoved ==
  ASSUME NEW good, NEW p, NEW o, NEW x, NEW w, CallsOK(p, o, x, w, good),
         NEW r \in Requests, p[r] # "matching",
         NEW s, s # "matching", NEW v, s \in Verified => v \in good,
         s = "commitment" => v \in Covered,
         NEW q, q # << >> => s \in {"settling", "watching"}
  PROVE  CallsOK([p EXCEPT ![r] = s], [o EXCEPT ![r] = v], [x EXCEPT ![r] = q], w, good)
<1> DEFINE p2 == [p EXCEPT ![r] = s]
           o2 == [o EXCEPT ![r] = v]
           x2 == [x EXCEPT ![r] = q]
<1>1. /\ DOMAIN p = Requests /\ DOMAIN o = Requests /\ DOMAIN x = Requests
      /\ w \in Requests \cup {NONE}
      /\ \A c \in Requests : p[c] = "matching" <=> w = c
      /\ \A c \in Requests : p[c] = "commitment" => o[c] \in Covered
      /\ \A c \in Requests : p[c] \in Verified => o[c] \in good
      /\ \A c \in Requests : x[c] # << >> => p[c] \in {"settling", "watching"}
  BY DEF CallsOK
<1>2. /\ p2 = [c \in Requests |-> p2[c]] /\ o2 = [c \in Requests |-> o2[c]]
      /\ x2 = [c \in Requests |-> x2[c]]
  BY <1>1
<1>3. /\ p2[r] = s /\ o2[r] = v /\ x2[r] = q
      /\ \A c \in Requests : c # r => p2[c] = p[c] /\ o2[c] = o[c] /\ x2[c] = x[c]
  BY <1>1
<1> HIDE DEF p2, o2, x2
<1>4. CallsOK(p2, o2, x2, w, good)
  BY <1>1, <1>2, <1>3 DEF CallsOK
<1>5. QED
  BY <1>4 DEF p2, o2, x2

\* The same with what it holds left alone.
Moves(r, s, v, q) ==
  /\ pc' = [pc EXCEPT ![r] = s] /\ order' = [order EXCEPT ![r] = v]
  /\ outbox' = [outbox EXCEPT ![r] = q]
  /\ UNCHANGED << bookVars, mapVars, writer >>

LEMMA MovesKeep ==
  ASSUME NEW good \in SUBSET Covered, ServerInv(good), NEW r \in Requests, pc[r] # "matching",
         NEW s, s # "matching", NEW v, s \in Verified => v \in good,
         s = "commitment" => v \in Covered,
         NEW q, q # << >> => s \in {"settling", "watching"}, Moves(r, s, v, q)
  PROVE  ServerInv(good)'
<1>1. CallsOK(pc', order', outbox', writer, good)
  <2>1. CallsOK(pc, order, outbox, writer, good)
    BY DEF ServerInv
  <2>2. CallsOK([pc EXCEPT ![r] = s], [order EXCEPT ![r] = v], [outbox EXCEPT ![r] = q], writer, good)
    BY <2>1, CallsMoved
  <2>3. QED
    BY <2>2 DEF Moves
<1>2. QED
  BY <1>1 DEF ServerInv, Moves, bookVars, mapVars

LEMMA Unmoved ==
  ASSUME NEW good \in SUBSET Covered, ServerInv(good), NEW r \in Requests
  PROVE  order = [order EXCEPT ![r] = order[r]] /\ outbox = [outbox EXCEPT ![r] = outbox[r]]
<1>1. order = [c \in Requests |-> order[c]] /\ outbox = [c \in Requests |-> outbox[c]]
  BY DEF ServerInv, CallsOK
<1>2. QED
  BY <1>1

LEMMA ReceiveKeeps ==
  ASSUME NEW good \in SUBSET Covered, ServerInv(good), NEW r \in Requests, NEW o \in Orders,
         NEW k, Receive(r, o, k)
  PROVE  ServerInv(good)'
<1> DEFINE s == IF RequestValid(o, k) THEN "commitment" ELSE "rejected"
<1>1. /\ pc[r] = "idle" /\ pc' = [pc EXCEPT ![r] = s]
      /\ order' = [order EXCEPT ![r] = o] /\ outbox' = outbox
      /\ UNCHANGED << bookVars, mapVars, writer >>
  BY DEF Receive, Goto
<1>2. s = "commitment" => o \in Covered
  BY DEF RequestValid, Covered
<1>3. s # "matching" /\ s \notin Verified
  BY DEF Verified
<1>4. outbox[r] = << >>
  BY <1>1 DEF ServerInv, CallsOK
<1> HIDE DEF s
<1>5. Moves(r, s, o, outbox[r])
  BY <1>1, Unmoved DEF Moves
<1>6. QED
  BY <1>1, <1>2, <1>3, <1>4, <1>5, MovesKeep

\* A chain query: the first of them finds an order to be a good one.
LEMMA ChainCheckKeeps ==
  ASSUME NEW good \in SUBSET Covered, ServerInv(good), NEW r \in Requests,
         NEW here \in {"commitment"} \cup Verified, NEW next \in Verified, NEW wanted,
         wanted /\ pc[r] = "commitment" => order[r] \in good,
         ChainCheck(r, here, wanted, next)
  PROVE  ServerInv(good)'
<1>1. /\ pc[r] = here
      /\ (wanted /\ pc' = [pc EXCEPT ![r] = next]) \/ pc' = [pc EXCEPT ![r] = "rejected"]
      /\ UNCHANGED << bookVars, mapVars, writer, order, outbox >>
  BY DEF ChainCheck, Goto, Leave
<1>2. PICK s \in {next, "rejected"} : pc' = [pc EXCEPT ![r] = s] /\ (wanted \/ s = "rejected")
  BY <1>1
<1>3. s \notin {"matching", "commitment"} /\ pc[r] # "matching"
  BY <1>1 DEF Verified
<1>4. (wanted => order[r] \in good) /\ outbox[r] = << >>
  BY <1>1 DEF ServerInv, CallsOK, Verified
<1>5. s \in Verified => order[r] \in good
  BY <1>2, <1>4 DEF Verified
<1>6. Moves(r, s, order[r], outbox[r])
  BY <1>1, <1>2, Unmoved DEF Moves
<1>7. QED
  BY <1>3, <1>4, <1>5, <1>6, MovesKeep

\* The other steps of a request that leave book and maps alone.
LEMMA QuietStepsKeep ==
  ASSUME NEW good \in SUBSET Covered, ServerInv(good), NEW r \in Requests,
         \/ QueryFails(r) \/ RefuseLocked(r) \/ \E attestation : Send(r, attestation)
         \/ SendFails(r) \/ NextSettlement(r) \/ Reply(r) \/ Disconnect(r)
  PROVE  ServerInv(good)'
<1>1. CASE QueryFails(r) \/ RefuseLocked(r)
  <2>1. /\ pc[r] \in {"commitment", "nullifier", "root", "lock"}
        /\ Moves(r, "rejected", order[r], outbox[r])
    BY <1>1, Unmoved DEF QueryFails, RefuseLocked, Leave, Goto, Moves
  <2>2. outbox[r] = << >>
    BY <2>1 DEF ServerInv, CallsOK
  <2>3. QED
    BY <2>1, <2>2, MovesKeep DEF Verified
<1>2. CASE \E attestation : Send(r, attestation)
  <2>1. pc[r] = "settling" /\ Moves(r, "watching", order[r], outbox[r])
    BY <1>2, Unmoved DEF Send, Goto, Moves
  <2>2. QED
    BY <2>1, MovesKeep DEF Verified
<1>3. CASE SendFails(r)
  <2>1. pc[r] = "settling" /\ outbox' = [outbox EXCEPT ![r] = Tail(outbox[r])]
    BY <1>3 DEF SendFails
  <2>2. pc' = [pc EXCEPT ![r] = "settling"]
    <3>1. pc = [c \in Requests |-> pc[c]]
      BY DEF ServerInv, CallsOK
    <3>2. QED
      BY <1>3, <2>1, <3>1 DEF SendFails
  <2>3. Moves(r, "settling", order[r], Tail(outbox[r]))
    BY <1>3, <2>1, <2>2, Unmoved DEF SendFails, Moves
  <2>4. QED
    BY <2>1, <2>3, MovesKeep DEF Verified
<1>4. CASE NextSettlement(r)
  <2>1. pc[r] = "watching" /\ Moves(r, "settling", order[r], Tail(outbox[r]))
    BY <1>4, Unmoved DEF NextSettlement, Goto, Moves
  <2>2. QED
    BY <2>1, MovesKeep DEF Verified
<1>5. CASE Reply(r)
  <2>1. pc[r] = "settling" /\ outbox[r] = << >> /\ Moves(r, "accepted", order[r], outbox[r])
    BY <1>5, Unmoved DEF Reply, Goto, Moves
  <2>2. QED
    BY <2>1, MovesKeep DEF Verified
<1>6. CASE Disconnect(r)
  <2>1. pc[r] # "matching" /\ Moves(r, "lost", order[r], << >>)
    BY <1>6, Unmoved DEF Disconnect, Leave, Goto, Moves
  <2>2. QED
    BY <2>1, MovesKeep DEF Verified
<1>7. QED
  BY <1>1, <1>2, <1>3, <1>4, <1>5, <1>6

LEMMA PlaceOrderKeeps ==
  ASSUME NEW good \in SUBSET Covered, ServerInv(good), NEW r \in Requests, PlaceOrder(r)
  PROVE  ServerInv(good)'
<1> DEFINE o == order[r]
           e == Entry(o, clock)
           n == Nullifier(o.deposit)
<1>1. /\ pc[r] = "lock" /\ writer = NONE /\ n \notin DOMAIN lockedDeposits
      /\ lockedDeposits' = Put(lockedDeposits, n, o.id)
      /\ orderToDeposit' = Put(orderToDeposit, o.id, n)
      /\ orderDetails' = Put(orderDetails, o.id, e)
      /\ book' = AddOrder(book, e) /\ trades' = << >> /\ matching' = TRUE
      /\ doubled' = doubled \cup ({e.id} \cap RestingIds(book))
      /\ clock' = clock + 1 /\ writer' = r /\ pc' = [pc EXCEPT ![r] = "matching"]
      /\ UNCHANGED << settlements, order, outbox >>
  BY DEF PlaceOrder, AddAndMatch, DepositLocked, Goto
<1>2. /\ CallsOK(pc, order, outbox, writer, good) /\ matching = FALSE
      /\ BookSound(book, trades, clock, doubled, good)
      /\ MapsOK(lockedDeposits, orderToDeposit, orderDetails, settlements, book, FALSE, trades)
  BY <1>1, RequestsAssumption DEF ServerInv
<1>3. o \in good /\ o \in Orders
  BY <1>1, <1>2 DEF CallsOK, Verified, Covered
<1>4. CallsOK(pc', order', outbox', writer', good)
  <2>1. /\ DOMAIN pc = Requests
        /\ \A c \in Requests : pc[c] # "matching"
        /\ \A c \in Requests : pc[c] = "commitment" => order[c] \in Covered
        /\ \A c \in Requests : pc[c] \in Verified => order[c] \in good
        /\ \A c \in Requests : outbox[c] # << >> => pc[c] \in {"settling", "watching"}
    BY <1>1, <1>2, RequestsAssumption DEF CallsOK
  <2>2. /\ pc' = [c \in Requests |-> pc'[c]] /\ pc'[r] = "matching"
        /\ \A c \in Requests : c # r => pc'[c] = pc[c]
    BY <1>1, <2>1
  <2>3. order' = [c \in Requests |-> order'[c]] /\ outbox' = [c \in Requests |-> outbox'[c]]
    BY <1>1, <1>2 DEF CallsOK
  <2>4. outbox'[r] = << >>
    BY <1>1, <2>1
  <2>5. QED
    BY <1>1, <2>1, <2>2, <2>3, <2>4 DEF CallsOK, Verified
<1> DEFINE new == AddOrder(book, e)
           more == doubled \cup ({e.id} \cap RestingIds(book))
<1>5. /\ e.id = o.id /\ e.deposit = o.deposit
      /\ BookSound(new, << >>, clock + 1, more, good)
      /\ DOMAIN new.index = DOMAIN book.index \cup {o.id}
  <2> HIDE DEF o
  <2>1. /\ good \in SUBSET Covered /\ BookSound(book, trades, clock, doubled, good)
        /\ o \in good /\ o \in Covered
    BY <1>2, <1>3
  <2>2. clock \in Nat
    BY <2>1 DEF BookSound
  <2>3. e.id = o.id /\ e.deposit = o.deposit
    BY <2>1, <2>2, PlacedEntry
  <2>4. Placed(o, book, clock, doubled, new, clock + 1, more)
    BY DEF Placed
  <2>5. BookSound(new, << >>, clock + 1, more, good)
    <3> HIDE DEF e, n, new, more
    <3>1. QED
      BY <2>1, <2>4, PlacedSound, Zenon
  <2>6. DOMAIN new.index = DOMAIN book.index \cup {o.id}
    BY <2>3 DEF AddOrder, Put
  <2>7. QED
    BY <2>3, <2>5, <2>6
<1> HIDE DEF e, o, new, more
<1>6. MapsOK(Put(lockedDeposits, n, o.id), Put(orderToDeposit, o.id, n),
             Put(orderDetails, o.id, e), settlements, new, TRUE, << >>)
  BY <1>1, <1>2, <1>3, <1>5, PlacedInMaps DEF new
<1>7. BookSound(book', trades', clock', doubled', good)
  BY <1>1, <1>5 DEF new, more
<1>8. writer' # NONE
  BY <1>1, <1>2, RequestsAssumption
<1>9. QED
  BY <1>1, <1>4, <1>6, <1>7, <1>8 DEF ServerInv, new

LEMMA MatchKeeps ==
  ASSUME NEW good \in SUBSET Covered, ServerInv(good), NEW r \in Requests, MatchUnderLock(r)
  PROVE  ServerInv(good)'
<1>1. /\ matching = TRUE /\ matching' = TRUE /\ HasCrossing(book)
      /\ trades' = Append(trades, NextTrade(book)) /\ book' = AfterTrade(book) /\ clock' = clock
      /\ doubled' = doubled \cap RestingIds(book')
      /\ UNCHANGED << mapVars, writer, callVars >>
  BY DEF MatchUnderLock, MatchIteration, MatchStep, ServerInv
<1>2. /\ BookSound(book, trades, clock, doubled, good)
      /\ MapsOK(lockedDeposits, orderToDeposit, orderDetails, settlements, book, TRUE, trades)
  BY <1>1 DEF ServerInv
<1>3. /\ BookSound(book', trades', clock', doubled', good)
      /\ \A id : Present(id, book, TRUE, trades) => Present(id, book', TRUE, trades')
  BY <1>1, <1>2, TradedSound
<1>4. MapsOK(lockedDeposits, orderToDeposit, orderDetails, settlements, book', TRUE, trades')
  BY <1>2, <1>3 DEF MapsOK
<1>5. QED
  BY <1>1, <1>3, <1>4 DEF ServerInv, mapVars, callVars

\* The batch has a settlement of each trade, so every traded deposit gets a note.
LEMMA NotesForTraded ==
  ASSUME NEW good, trades \in Seq(SoundTrades(good))
  PROVE  /\ DOMAIN settlements \subseteq DOMAIN StoreNotes(settlements, Batch)
         /\ DepositsOf(trades) \subseteq DOMAIN StoreNotes(settlements, Batch)
<1> DEFINE n == Len(trades)
<1>1. n \in Nat
  BY LenProperties
<1>2. Batch = [i \in 1 .. n |-> Batch[i]]
  BY DEF Batch
<1>3. \A i \in 1 .. n : /\ Batch[i].buyerOld = Nullifier(trades[i].buy.deposit)
                        /\ Batch[i].sellerOld = Nullifier(trades[i].sell.deposit)
  BY DEF Batch, GenerateSettlement, Settlement
<1>4. \A d \in DepositsOf(trades) :
        \E i \in 1 .. n : d = Nullifier(trades[i].buy.deposit) \/ d = Nullifier(trades[i].sell.deposit)
  BY DEF DepositsOf
<1> DEFINE batch == Batch
           map == settlements
<1> HIDE DEF n
<1>5. /\ DOMAIN map \subseteq DOMAIN StoreNotes(map, batch)
      /\ \A i \in 1 .. n : /\ batch[i].buyerOld \in DOMAIN StoreNotes(map, batch)
                           /\ batch[i].sellerOld \in DOMAIN StoreNotes(map, batch)
  BY <1>1, <1>2, NotesStored
<1>6. QED
  BY <1>3, <1>4, <1>5

LEMMA CollectKeeps ==
  ASSUME NEW good \in SUBSET Covered, ServerInv(good), NEW r \in Requests, Collect(r)
  PROVE  ServerInv(good)'
<1>1. /\ pc[r] = "matching" /\ matching = TRUE /\ matching' = FALSE
      /\ book' = book /\ trades' = trades /\ clock' = clock /\ doubled' = doubled
      /\ lockedDeposits' = Unlock(lockedDeposits, TradedDeposits)
      /\ orderToDeposit' = Unlock(orderToDeposit, TradedIds)
      /\ orderDetails' = Unlock(orderDetails, TradedIds)
      /\ settlements' = StoreNotes(settlements, Batch)
      /\ outbox' = [outbox EXCEPT ![r] = Batch]
      /\ writer' = NONE /\ pc' = [pc EXCEPT ![r] = "settling"]
      /\ order' = order
  BY DEF Collect, MatchReturn, MatchDone, Goto, ServerInv
<1>2. /\ CallsOK(pc, order, outbox, writer, good)
      /\ BookSound(book, trades, clock, doubled, good)
      /\ MapsOK(lockedDeposits, orderToDeposit, orderDetails, settlements, book, TRUE, trades)
  BY <1>1 DEF ServerInv
<1>3. TradedDeposits = DepositsOf(trades) /\ TradedIds = IdsOf(trades)
  BY DEF TradedDeposits, DepositsOf, TradedIds, IdsOf
<1>4. CallsOK(pc', order', outbox', writer', good)
  <2>1. /\ DOMAIN pc = Requests /\ DOMAIN outbox = Requests
        /\ \A c \in Requests : pc[c] = "matching" <=> c = r
        /\ \A c \in Requests : pc[c] = "commitment" => order[c] \in Covered
        /\ \A c \in Requests : pc[c] \in Verified => order[c] \in good
        /\ \A c \in Requests : outbox[c] # << >> => pc[c] \in {"settling", "watching"}
    BY <1>1, <1>2 DEF CallsOK
  <2>2. /\ pc' = [c \in Requests |-> pc'[c]] /\ pc'[r] = "settling"
        /\ \A c \in Requests : c # r => pc'[c] = pc[c]
    BY <1>1, <2>1
  <2>3. /\ outbox' = [c \in Requests |-> outbox'[c]]
        /\ \A c \in Requests : c # r => outbox'[c] = outbox[c]
    BY <1>1, <2>1
  <2>4. order' = [c \in Requests |-> order'[c]]
    BY <1>1, <1>2 DEF CallsOK
  <2>5. \A c \in Requests : pc'[c] # "matching" /\ NONE # c
    BY <2>1, <2>2, RequestsAssumption
  <2>6. \A c \in Requests : /\ pc'[c] = "commitment" => order'[c] \in Covered
                            /\ pc'[c] \in Verified => order'[c] \in good
    BY <1>1, <2>1, <2>2 DEF Verified
  <2>7. \A c \in Requests : outbox'[c] # << >> => pc'[c] \in {"settling", "watching"}
    BY <2>1, <2>2, <2>3
  <2>8. QED
    BY <1>1, <2>2, <2>3, <2>4, <2>5, <2>6, <2>7 DEF CallsOK
<1>5. trades \in Seq(SoundTrades(good))
  BY <1>2 DEF BookSound
<1>6. MapsOK(lockedDeposits', orderToDeposit', orderDetails', settlements', book, FALSE, trades)
  <2> DEFINE new == StoreNotes(settlements, Batch)
  <2>1. DOMAIN settlements \subseteq DOMAIN new /\ DepositsOf(trades) \subseteq DOMAIN new
    BY <1>5, NotesForTraded
  <2> HIDE DEF new
  <2>2. MapsOK(Unlock(lockedDeposits, DepositsOf(trades)), Unlock(orderToDeposit, IdsOf(trades)),
               Unlock(orderDetails, IdsOf(trades)), new, book, FALSE, trades)
    BY <1>2, <1>5, <2>1, CollectedInMaps
  <2>3. QED
    BY <1>1, <1>3, <2>2 DEF new
<1>7. QED
  BY <1>1, <1>2, <1>4, <1>6 DEF ServerInv

LEMMA CancelKeeps ==
  ASSUME NEW good \in SUBSET Covered, ServerInv(good), NEW o \in Orders, CancelOrder(o)
  PROVE  ServerInv(good)'
<1> DEFINE n == Nullifier(o.deposit)
<1>1. /\ writer = NONE /\ n \in DOMAIN lockedDeposits /\ lockedDeposits[n] = o.id
      /\ book' = RemoveOrder(book, o.id) /\ matching' = matching /\ trades' = trades /\ clock' = clock
      /\ doubled' = doubled \cap RestingIds(book')
      /\ lockedDeposits' = Without(lockedDeposits, n)
      /\ orderToDeposit' = Without(orderToDeposit, o.id)
      /\ orderDetails' = Without(orderDetails, o.id)
      /\ UNCHANGED << settlements, writer, callVars >>
  BY DEF CancelOrder, Cancel, DepositLocked
<1>2. /\ matching = FALSE /\ BookSound(book, trades, clock, doubled, good)
      /\ MapsOK(lockedDeposits, orderToDeposit, orderDetails, settlements, book, FALSE, trades)
  BY <1>1 DEF ServerInv
<1>3. /\ BookSound(book', trades', clock', doubled', good)
      /\ \A other : other # o.id /\ Present(other, book, FALSE, trades) =>
                      Present(other, RemoveOrder(book, o.id), FALSE, trades)
  BY <1>1, <1>2, CancelledSound
<1> DEFINE new == RemoveOrder(book, o.id)
<1> HIDE DEF new
<1>4. MapsOK(Without(lockedDeposits, n), Without(orderToDeposit, o.id), Without(orderDetails, o.id),
             settlements, new, FALSE, trades)
  BY <1>1, <1>2, <1>3, CancelledInMaps DEF new
<1>5. QED
  BY <1>1, <1>2, <1>3, <1>4 DEF ServerInv, callVars, new

\* An empty server is consistent.
LEMMA EmptyServer ==
  /\ \A good : \A c \in Nat : BookSound(EmptyBook, << >>, c, {}, good)
  /\ \A m, t : MapsOK(EmptyMap, EmptyMap, EmptyMap, EmptyMap, EmptyBook, m, t)
<1>1. BookOK(EmptyBook) /\ IndexOK(EmptyBook, {}) /\ Resting(EmptyBook) = {}
  BY EmptyBookOK
<1>2. \A good : << >> \in Seq(SoundTrades(good))
  OBVIOUS
<1>3. DOMAIN EmptyMap = {}
  BY DEF EmptyMap
<1>4. QED
  BY <1>1, <1>2, <1>3 DEF BookSound, MapsOK

LEMMA RestartKeeps ==
  ASSUME NEW good \in SUBSET Covered, ServerInv(good), Restart
  PROVE  ServerInv(good)'
<1>1. CallsOK(pc', order', outbox', writer', good)
  <2>1. /\ pc' = [c \in Requests |-> IF pc[c] = "idle" THEN "idle" ELSE "lost"]
        /\ outbox' = [c \in Requests |-> << >>] /\ writer' = NONE /\ order' = order
    BY DEF Restart
  <2>2. order' = [c \in Requests |-> order'[c]]
    BY <2>1 DEF ServerInv, CallsOK
  <2>3. \A c \in Requests : pc'[c] \notin {"matching"} \cup Verified /\ outbox'[c] = << >> /\ c # NONE
    BY <2>1, RequestsAssumption DEF Verified
  <2>4. pc' = [c \in Requests |-> pc'[c]] /\ outbox' = [c \in Requests |-> outbox'[c]]
    BY <2>1
  <2>5. QED
    BY <2>1, <2>2, <2>3, <2>4 DEF CallsOK
<1>2. clock \in Nat
  BY DEF ServerInv, BookSound
<1>3. BookSound(book', trades', clock', doubled', good)
  BY <1>2, EmptyServer DEF Restart
<1>4. MapsOK(lockedDeposits', orderToDeposit', orderDetails', settlements', book', matching', trades')
  BY EmptyServer DEF Restart
<1>5. matching' = FALSE /\ writer' = NONE
  BY DEF Restart
<1>6. QED
  BY <1>1, <1>3, <1>4, <1>5 DEF ServerInv

-------------------------------------------------------------------------------
(* The theorems *)

LEMMA ServerStarts ==
  ASSUME NEW good, DarkPoolInit
  PROVE  ServerInv(good)
<1>1. CallsOK(pc, order, outbox, writer, good)
  BY RequestsAssumption DEF DarkPoolInit, TeeInit, CallsOK, Verified
<1>2. QED
  BY <1>1, EmptyServer DEF DarkPoolInit, TeeInit, EngineInit, ServerInv

LEMMA ServerStep ==
  ASSUME NEW good \in SUBSET Covered, ServerInv(good),
         \A o \in Covered : IsCommitmentKnown(o.deposit) => o \in good,
         [DarkPoolNext]_sysVars
  PROVE  ServerInv(good)'
<1>1. CASE ClientOrders
  BY <1>1, ReceiveKeeps DEF ClientOrders
<1>2. CASE ClientCancels
  BY <1>2, CancelKeeps DEF ClientCancels
<1>3. CASE UNCHANGED teeVars
  BY <1>3 DEF ServerInv, teeVars, bookVars, mapVars, callVars
<1>4. CASE ClientFetches \/ ClientWithdraws
  BY <1>3, <1>4 DEF ClientFetches, ClientWithdraws
<1>5. CASE ClientHangsUp
  BY <1>5, QuietStepsKeep DEF ClientHangsUp
<1>6. CASE ServerRuns
  <2>1. PICK r \in Requests : Handler(r)
    BY <1>6 DEF ServerRuns
  <2>2. CASE CheckCommitment(r) \/ CheckNullifier(r) \/ CheckRoot(r)
    <3>1. pc[r] = "commitment" => order[r] \in Covered
      BY DEF ServerInv, CallsOK
    <3>2. CASE CheckCommitment(r)
      <4>1. IsCommitmentKnown(order[r].deposit) /\ pc[r] = "commitment" => order[r] \in good
        BY <3>1
      <4>2. ChainCheck(r, "commitment", IsCommitmentKnown(order[r].deposit), "nullifier")
        BY <3>2 DEF CheckCommitment
      <4>3. "commitment" \in {"commitment"} \cup Verified /\ "nullifier" \in Verified
        BY DEF Verified
      <4>4. QED
        BY <4>1, <4>2, <4>3, ChainCheckKeeps
    <3>3. CASE CheckNullifier(r)
      <4>1. pc[r] = "nullifier"
        BY <3>3 DEF CheckNullifier, ChainCheck
      <4>2. QED
        BY <3>3, <4>1, ChainCheckKeeps DEF CheckNullifier, Verified
    <3>4. CASE CheckRoot(r)
      <4>1. pc[r] = "root"
        BY <3>4 DEF CheckRoot, ChainCheck
      <4>2. QED
        BY <3>4, <4>1, ChainCheckKeeps DEF CheckRoot, Verified
    <3>5. QED
      BY <2>2, <3>2, <3>3, <3>4
  <2>3. CASE RefuseLocked(r) \/ SendSettlement(r) \/ Watched(r) \/ Reply(r)
    BY <2>3, QuietStepsKeep DEF SendSettlement, Watched
  <2>4. CASE PlaceOrder(r)
    BY <2>4, PlaceOrderKeeps
  <2>5. CASE MatchUnderLock(r)
    BY <2>5, MatchKeeps
  <2>6. CASE Collect(r)
    BY <2>6, CollectKeeps
  <2>7. QED
    BY <2>1, <2>2, <2>3, <2>4, <2>5, <2>6 DEF Handler
<1>7. CASE ChainMines
  BY <1>7 DEF ChainMines, Mine, ServerInv, bookVars, mapVars, callVars
<1>8. CASE ServerRestarts
  BY <1>8, RestartKeeps DEF ServerRestarts
<1>9. CASE CallsFail
  BY <1>9, QuietStepsKeep DEF CallsFail, Fault, SignFails, WatchFails
<1>10. CASE UNCHANGED sysVars
  BY <1>3, <1>10 DEF sysVars
<1>11. QED
  BY <1>1, <1>2, <1>4, <1>5, <1>6, <1>7, <1>8, <1>9, <1>10 DEF DarkPoolNext

\* The inductive invariant holds of every reachable state.
THEOREM TeeInvariant == DarkPoolSafety => []TeeInv
<1>1. DarkPoolInit => TeeInv
  BY ServerStarts DEF TeeInv
<1>2. TeeInv /\ [DarkPoolNext]_sysVars => TeeInv'
  <2> SUFFICES ASSUME TeeInv, [DarkPoolNext]_sysVars PROVE TeeInv'
    OBVIOUS
  <2>1. ServerInv(Covered)'
    BY ServerStep DEF TeeInv
  <2>2. QED
    BY <2>1 DEF TeeInv
<1>3. QED
  BY <1>1, <1>2, PTL DEF DarkPoolSafety

\* The lock is held by the request that is matching, only then is a loop
\* running, and the book is well formed.
THEOREM TeeTypeCorrect == DarkPoolSafety => []TeeTypeOK
<1>1. TeeInv => TeeTypeOK
  <2> SUFFICES ASSUME TeeInv PROVE TeeTypeOK
    OBVIOUS
  <2>1. QueuesOK(book.bids, "buy") /\ QueuesOK(book.asks, "sell")
    BY BookIsQueued DEF TeeInv, ServerInv, BookSound, QueuedBook
  <2>2. FiledCorrectly(book)
    BY <2>1 DEF QueuesOK, FiledCorrectly, Positions, At
  <2>3. NoEmptyLevel(book)
    BY <2>1 DEF QueuesOK, NoEmptyLevel
  <2>4. QED
    BY <2>2, <2>3 DEF TeeInv, ServerInv, CallsOK, TeeTypeOK
<1>2. QED
  BY <1>1, TeeInvariant, PTL

\* Whatever is submitted, again or for the first time, matched, cancelled or lost,
\* the index finds what it knows and knows all that rests, but for ids that were
\* submitted again while they rested (OrderBook of tee/src/orderbook/mod.rs under
\* submit_order, cancel_order and restarts of the server).
THEOREM ServerBookConsistent == DarkPoolSafety => []BookConsistent
<1>1. TeeInv => BookConsistent
  BY BookInOrder DEF TeeInv, ServerInv, BookSound, BookConsistent
<1>2. QED
  BY <1>1, TeeInvariant, PTL

\* A locked deposit backs the order it is locked for, which its owner can cancel:
\* the index knows the id, and says where an order of that id and deposit rests.
\* What else the maps keep are orders of deposits that have been traded
\* (locked_deposits and order_to_deposit of tee/src/state.rs).
THEOREM LocksBackOrders == DarkPoolSafety => []LockedDepositsBackOrders
<1>1. TeeInv => LockedDepositsBackOrders
  <2> SUFFICES ASSUME TeeInv PROVE LockedDepositsBackOrders
    OBVIOUS
  <2>1. /\ MapsOK(lockedDeposits, orderToDeposit, orderDetails, settlements, book, matching, trades)
        /\ BookOK(book) /\ IndexFindsOrders(book) /\ matching \in BOOLEAN
    BY DEF TeeInv, ServerInv, BookSound, IndexOK
  <2>2. \A e \in Resting(book) : e.deposit = Original(e.id).deposit
    BY <2>1, BookIsQueued, QueuedFacts, EntryDeposit
  <2>3. ASSUME NEW d \in DOMAIN lockedDeposits, ~matching
        PROVE  LET id == lockedDeposits[d]
               IN  /\ id \in DOMAIN book.index
                   /\ \E e \in Resting(book) :
                        /\ e.id = id /\ Nullifier(e.deposit) = d
                        /\ book.index[id] = << e.side, e.price >>
    <3> DEFINE id == lockedDeposits[d]
    <3>1. id \in DOMAIN book.index /\ Nullifier(Original(id).deposit) = d
      BY <2>1, <2>3 DEF MapsOK, Present
    <3>2. PICK e \in Resting(book) : e.id = id /\ book.index[id] = << e.side, e.price >>
      BY <2>1, <3>1 DEF IndexFindsOrders
    <3>3. Nullifier(e.deposit) = d
      BY <2>2, <3>1, <3>2
    <3>4. QED
      BY <3>1, <3>2, <3>3
  <2>4. QED
    BY <2>1, <2>3 DEF MapsOK, LockedDepositsBackOrders
<1>2. QED
  BY <1>1, TeeInvariant, PTL

\* No payment to a seller saturates.
THEOREM PaymentsAreExact == DarkPoolSafety => []PaymentsExact
<1>1. TeeInv => PaymentsExact
  <2> SUFFICES ASSUME TeeInv, NEW i \in 1 .. Len(trades)
               PROVE  trades[i].quantity * trades[i].price < UINT128
    BY DEF PaymentsExact
  <2>1. trades[i] \in SoundTrades(Covered)
    BY ElementOfSeq DEF TeeInv, ServerInv, BookSound
  <2>2. QED
    BY <2>1, TradeCovered
<1>2. QED
  BY <1>1, TeeInvariant, PTL

-------------------------------------------------------------------------------
(* Settlements on their way *)

\* More leaves and more secrets leave a settlement fair.
LEMMA FairGrows ==
  ASSUME NEW leaves, NEW more, leaves \subseteq more, NEW top \in Nat, NEW higher \in Nat, top <= higher
  PROVE  /\ FairSettlements(leaves, top) \subseteq FairSettlements(more, higher)
         /\ \A q \in Seq(FairSettlements(leaves, top)) : q \in Seq(FairSettlements(more, higher))
<1>1. ASSUME NEW s \in FairSettlements(leaves, top)
      PROVE  s \in FairSettlements(more, higher)
  <2>1. s.buyerNew.nn \in Nat /\ s.sellerNew.nn \in Nat /\ s.buyerNew.nn <= top /\ s.sellerNew.nn <= top
    BY DEF FairSettlements, NoteSet
  <2>2. s.buyerNew.nn <= higher /\ s.sellerNew.nn <= higher
    BY <2>1
  <2>3. QED
    BY <2>2 DEF FairSettlements
<1>2. QED
  BY <1>1

\* What a trade between orders of the pair is settled by.
LEMMA FairTrade ==
  ASSUME NEW base, NEW quote, OnePair(base, quote), NEW leaves \in SUBSET NoteSet,
         NEW t \in SoundTrades(Owned(leaves)), NEW k \in Nat,
         NEW s, s = GenerateSettlement(t, k)
  PROVE  /\ s \in FairSettlements(leaves, MAX_LEAVES + k + 2)
         /\ Secrets(s) = {MAX_LEAVES + k + 1, MAX_LEAVES + k + 2}
<1> USE DEF Nullifier
<1> DEFINE o == Original(t.buy.id)
           v == Original(t.sell.id)
           n1 == s.buyerNew
           n2 == s.sellerNew
<1>1. /\ t.buy \in Entries /\ t.sell \in Entries /\ t.price \in Nat \ {0} /\ t.quantity \in Nat \ {0}
      /\ t.buy.side = "buy" /\ t.sell.side = "sell"
      /\ o \in Owned(leaves) /\ v \in Owned(leaves)
  BY DEF SoundTrades
<1>2. /\ o \in Covered /\ v \in Covered /\ o.deposit \in leaves /\ v.deposit \in leaves
  BY <1>1 DEF Owned
<1>3. o.side = "buy" /\ v.side = "sell"
  BY <1>1, EntryOfOrder
<1>4. /\ o.tokenIn = quote /\ o.tokenOut = base /\ v.tokenIn = base /\ v.tokenOut = quote
      /\ base # quote
  BY <1>2, <1>3 DEF OnePair
<1>5. o.deposit.token = quote /\ v.deposit.token = base
  BY <1>2, <1>4 DEF Covered, CoversOrder
<1>6. /\ t.buy.deposit = o.deposit /\ t.buy.tokenOut = base
      /\ t.sell.deposit = v.deposit /\ t.sell.tokenOut = quote
  BY <1>1, <1>4, EntryDeposit
<1>7. /\ o.deposit \in NoteSet /\ v.deposit \in NoteSet
      /\ o.deposit.amount \in Nat /\ v.deposit.amount \in Nat
      /\ base \in Tokens /\ quote \in Tokens
      /\ o.deposit.nn \in Nat /\ v.deposit.nn \in Nat
  BY <1>2, <1>5 DEF NoteSet
<1>8. Owned(leaves) \in SUBSET Covered
  BY DEF Owned
<1>9. /\ t.quantity * t.price \in Nat /\ t.quantity * t.price < UINT128
      /\ t.quantity * t.price <= o.deposit.amount /\ t.quantity <= v.deposit.amount
  BY <1>6, <1>7, <1>8, TradeCovered
<1>10. t.quantity * t.price # 0
  BY <1>1, ProductPositive
<1>11. /\ n1 = Note(MAX_LEAVES + (k + 1), base, t.quantity)
       /\ n2 = Note(MAX_LEAVES + (k + 2), quote, t.quantity * t.price)
       /\ s.buyerOld = o.deposit.nn /\ s.sellerOld = v.deposit.nn
       /\ s = [buyerOld |-> s.buyerOld, sellerOld |-> s.sellerOld, buyerNew |-> n1, sellerNew |-> n2]
  BY <1>6, <1>9 DEF GenerateSettlement, Settlement, NewNote, SaturatingMul
<1> HIDE DEF o, v, n1, n2
<1>12. MAX_LEAVES \in Nat
  BY MaxLeavesNat
<1>13. /\ n1.nn = MAX_LEAVES + k + 1 /\ n1.token = base /\ n1.amount = t.quantity
       /\ n2.nn = MAX_LEAVES + k + 2 /\ n2.token = quote /\ n2.amount = t.quantity * t.price
       /\ n1 \in NoteSet /\ n2 \in NoteSet
  BY <1>1, <1>7, <1>9, <1>10, <1>11, <1>12 DEF Note, NoteSet
<1>14. \A token \in Tokens : PoolView!Claim(n1, token) + PoolView!Claim(n2, token)
                               <= PoolView!Claim(o.deposit, token) + PoolView!Claim(v.deposit, token)
  BY <1>4, <1>5, <1>7, <1>9, <1>1, <1>13 DEF PoolView!Claim
<1>15. o.deposit # v.deposit
  BY <1>4, <1>5
<1>16. Secrets(s) = {MAX_LEAVES + k + 1, MAX_LEAVES + k + 2}
  BY <1>13 DEF Secrets, n1, n2
<1>17. s \in [buyerOld : Nat, sellerOld : Nat, buyerNew : NoteSet, sellerNew : NoteSet]
  BY <1>7, <1>11, <1>13
<1>18. n1.nn <= MAX_LEAVES + k + 2 /\ n2.nn <= MAX_LEAVES + k + 2 /\ n1.nn # n2.nn
  BY <1>12, <1>13
<1>19. s \in FairSettlements(leaves, MAX_LEAVES + k + 2)
  BY <1>2, <1>11, <1>14, <1>15, <1>17, <1>18 DEF FairSettlements, n1, n2
<1>20. QED
  BY <1>16, <1>19

\* What is left of a sequence of settlements when its first ones are dropped.
EndOf(q, seq) ==
  \E d \in Nat : /\ Len(q) + d <= Len(seq)
                 /\ \A i \in 1 .. Len(q) : q[i] = seq[i + d]

LEMMA EndsOf ==
  ASSUME NEW S, NEW seq \in Seq(S)
  PROVE  /\ EndOf(seq, seq) /\ EndOf(<< >>, seq)
         /\ seq # << >> => /\ Tail(seq) \in Seq(S) /\ EndOf(Tail(seq), seq)
                           /\ Len(seq) \in Nat /\ 1 <= Len(seq) /\ Head(seq) = seq[1] /\ Head(seq) \in S
                           /\ Len(Tail(seq)) = Len(seq) - 1
                           /\ \A i \in 1 .. Len(Tail(seq)) : Tail(seq)[i] = seq[i + 1]
<1>1. EndOf(seq, seq)
  <2>1. 0 \in Nat /\ Len(seq) + 0 <= Len(seq) /\ \A i \in 1 .. Len(seq) : seq[i] = seq[i + 0]
    OBVIOUS
  <2>2. QED
    BY <2>1 DEF EndOf
<1>2. EndOf(<< >>, seq)
  <2>1. 0 \in Nat /\ Len(<< >>) + 0 <= Len(seq) /\ \A i \in 1 .. Len(<< >>) : << >>[i] = seq[i + 0]
    OBVIOUS
  <2>2. QED
    BY <2>1 DEF EndOf
<1>3. ASSUME seq # << >>
      PROVE  /\ Tail(seq) \in Seq(S) /\ EndOf(Tail(seq), seq)
             /\ Len(seq) \in Nat /\ 1 <= Len(seq) /\ Head(seq) = seq[1] /\ Head(seq) \in S
             /\ Len(Tail(seq)) = Len(seq) - 1
             /\ \A i \in 1 .. Len(Tail(seq)) : Tail(seq)[i] = seq[i + 1]
  <2>1. /\ Tail(seq) \in Seq(S) /\ Len(seq) \in Nat /\ 1 <= Len(seq) /\ Head(seq) = seq[1] /\ Head(seq) \in S
        /\ Len(Tail(seq)) = Len(seq) - 1
    BY <1>3
  <2>2. \A i \in 1 .. Len(Tail(seq)) : Tail(seq)[i] = seq[i + 1]
    BY <1>3
  <2>3. Len(Tail(seq)) + 1 <= Len(seq) /\ 1 \in Nat
    BY <2>1
  <2>4. QED
    BY <2>1, <2>2, <2>3 DEF EndOf
<1>4. QED
  BY <1>1, <1>2, <1>3

\* Dropping settlements keeps the others apart.
LEMMA HandsShrink ==
  ASSUME NEW h, NEW m, NEW leaves, NEW top, PendingOK(h, m, leaves, top),
         NEW g, \A r \in Requests : g[r] \in Seq(FairSettlements(leaves, top)) /\ EndOf(g[r], h[r])
  PROVE  PendingOK(g, m, leaves, top)
<1> DEFINE S == FairSettlements(leaves, top)
<1>1. \A r \in Requests : h[r] \in Seq(S)
  BY DEF PendingOK
<1> HIDE DEF S
<1>2. ASSUME NEW r \in Requests
      PROVE  \E d \in Nat : \A i \in 1 .. Len(g[r]) : i + d \in 1 .. Len(h[r]) /\ g[r][i] = h[r][i + d]
  <2>1. PICK d \in Nat : Len(g[r]) + d <= Len(h[r]) /\ \A i \in 1 .. Len(g[r]) : g[r][i] = h[r][i + d]
    BY DEF EndOf
  <2>2. Len(g[r]) \in Nat /\ Len(h[r]) \in Nat
    BY <1>1
  <2>3. ASSUME NEW i \in 1 .. Len(g[r])
        PROVE  i + d \in 1 .. Len(h[r]) /\ g[r][i] = h[r][i + d]
    BY <2>1, <2>2
  <2>4. QED
    BY <2>3
<1>3. \A r \in Requests : \A i \in 1 .. Len(g[r]) : \E j \in 1 .. Len(h[r]) : g[r][i] = h[r][j]
  BY <1>2
<1>4. ASSUME NEW r \in Requests, NEW c \in Requests, NEW i \in 1 .. Len(g[r]), NEW j \in 1 .. Len(g[c]),
             r # c \/ i # j
      PROVE  Apart(g[r][i], g[c][j])
  <2>1. CASE r = c
    <3>1. PICK d \in Nat : \A k \in 1 .. Len(g[r]) : k + d \in 1 .. Len(h[r]) /\ g[r][k] = h[r][k + d]
      BY <1>2
    <3>2. i + d # j + d
      BY <1>4, <2>1
    <3>3. QED
      BY <2>1, <3>1, <3>2 DEF PendingOK
  <2>2. CASE r # c
    BY <1>3, <2>2 DEF PendingOK
  <2>3. QED
    BY <2>1, <2>2
<1>5. \A r \in Requests : g[r] \in Seq(FairSettlements(leaves, top))
  OBVIOUS
<1>6. \A r \in Requests : \A i \in 1 .. Len(g[r]) : Fresh(g[r][i], leaves)
  BY <1>3 DEF PendingOK
<1>7. \A tx \in m, r \in Requests : \A i \in 1 .. Len(g[r]) : Apart(tx.settlement, g[r][i])
  BY <1>3 DEF PendingOK
<1>8. QED
  BY <1>4, <1>5, <1>6, <1>7 DEF PendingOK

\* Sending the first settlement in hand makes a transaction of it.
LEMMA SettlementSent ==
  ASSUME NEW h, NEW m, NEW leaves, NEW top, PendingOK(h, m, leaves, top),
         NEW r \in Requests, h[r] # << >>, NEW tx, tx.settlement = Head(h[r]),
         NEW g, g[r] = Tail(h[r]), \A c \in Requests : c # r => g[c] = h[c]
  PROVE  PendingOK(g, m \cup {tx}, leaves, top)
<1> DEFINE S == FairSettlements(leaves, top)
           s == tx.settlement
<1>1. \A c \in Requests : h[c] \in Seq(S)
  BY DEF PendingOK
<1> HIDE DEF S
<1>2. /\ g[r] \in Seq(S) /\ EndOf(g[r], h[r]) /\ 1 \in 1 .. Len(h[r]) /\ s = h[r][1] /\ s \in S
      /\ \A i \in 1 .. Len(g[r]) : i + 1 \in 1 .. Len(h[r]) /\ i + 1 # 1 /\ g[r][i] = h[r][i + 1]
  <2>1. /\ Tail(h[r]) \in Seq(S) /\ EndOf(Tail(h[r]), h[r])
        /\ Len(h[r]) \in Nat /\ 1 <= Len(h[r]) /\ Head(h[r]) = h[r][1] /\ Head(h[r]) \in S
        /\ Len(Tail(h[r])) = Len(h[r]) - 1
        /\ \A i \in 1 .. Len(Tail(h[r])) : Tail(h[r])[i] = h[r][i + 1]
    BY <1>1, EndsOf
  <2>2. QED
    BY <2>1
<1>3. \A c \in Requests : g[c] \in Seq(S) /\ EndOf(g[c], h[c])
  <2>1. \A c \in Requests : EndOf(h[c], h[c])
    BY <1>1, EndsOf
  <2>2. QED
    BY <1>1, <1>2, <2>1
<1>4. PendingOK(g, m, leaves, top)
  BY <1>3, HandsShrink DEF S
<1>5. Fresh(s, leaves)
  BY <1>2 DEF PendingOK
<1>6. \A other \in m : Apart(s, other.settlement) /\ Apart(other.settlement, s)
  <2>1. \A other \in m : Apart(other.settlement, h[r][1])
    BY <1>2 DEF PendingOK
  <2>2. QED
    BY <1>2, <2>1 DEF Apart
<1>7. ASSUME NEW c \in Requests, NEW i \in 1 .. Len(g[c])
      PROVE  Apart(s, g[c][i])
  <2>1. CASE c = r
    BY <1>2, <2>1 DEF PendingOK
  <2>2. CASE c # r
    BY <1>2, <2>2 DEF PendingOK
  <2>3. QED
    BY <2>1, <2>2
<1>8. QED
  BY <1>2, <1>4, <1>5, <1>6, <1>7 DEF PendingOK, S

\* A batch of fresh notes joins what is on its way.
LEMMA BatchInHand ==
  ASSUME NEW h, NEW m, NEW leaves, NEW top \in Nat, PendingOK(h, m, leaves, top),
         NEW higher \in Nat, top <= higher, \A leaf \in leaves : leaf.nn \in Nat /\ leaf.nn <= top,
         NEW r \in Requests, h[r] = << >>,
         NEW batch \in Seq(FairSettlements(leaves, higher)),
         \A i \in 1 .. Len(batch) : \A nn \in Secrets(batch[i]) : nn > top,
         \A i, j \in 1 .. Len(batch) : i # j => Apart(batch[i], batch[j]),
         NEW g, g[r] = batch, \A c \in Requests : c # r => g[c] = h[c]
  PROVE  PendingOK(g, m, leaves, higher)
<1>1. FairSettlements(leaves, top) \subseteq FairSettlements(leaves, higher)
  BY FairGrows
<1>2. \A c \in Requests : h[c] \in Seq(FairSettlements(leaves, higher))
  BY FairGrows DEF PendingOK
<1>3. \A c \in Requests : g[c] \in Seq(FairSettlements(leaves, higher))
  BY <1>2
<1>4. \A s \in FairSettlements(leaves, top) : \A nn \in Secrets(s) : nn \in Nat /\ nn <= top
  BY DEF FairSettlements, NoteSet, Secrets
<1>5. \A s \in FairSettlements(leaves, top), i \in 1 .. Len(batch) :
        Apart(s, batch[i]) /\ Apart(batch[i], s)
  <2> SUFFICES ASSUME NEW s \in FairSettlements(leaves, top), NEW i \in 1 .. Len(batch)
               PROVE  Secrets(s) \cap Secrets(batch[i]) = {}
    BY DEF Apart
  <2>1. ASSUME NEW nn \in Secrets(s), nn \in Secrets(batch[i])
        PROVE  FALSE
    <3>1. nn \in Nat /\ nn <= top
      BY <1>4
    <3>2. nn > top
      BY <2>1
    <3>3. QED
      BY <3>1, <3>2
  <2>2. QED
    BY <2>1
<1>6. \A c \in Requests : \A i \in 1 .. Len(h[c]) : h[c][i] \in FairSettlements(leaves, top)
  BY DEF PendingOK
<1>7. \A c \in Requests : \A i \in 1 .. Len(g[c]) : Fresh(g[c][i], leaves)
  <2>1. ASSUME NEW i \in 1 .. Len(batch), NEW leaf \in leaves, leaf.nn \in Secrets(batch[i])
        PROVE  FALSE
    <3>1. leaf.nn \in Nat /\ leaf.nn <= top
      OBVIOUS
    <3>2. leaf.nn > top
      BY <2>1
    <3>3. QED
      BY <3>1, <3>2
  <2>2. QED
    BY <2>1 DEF PendingOK, Fresh
<1>8. \A tx \in m, c \in Requests : \A i \in 1 .. Len(g[c]) : Apart(tx.settlement, g[c][i])
  <2>1. \A tx \in m, i \in 1 .. Len(batch) : Apart(tx.settlement, batch[i])
    BY <1>5 DEF PendingOK
  <2>2. QED
    BY <2>1 DEF PendingOK
<1>9. ASSUME NEW c \in Requests, NEW d \in Requests, NEW i \in 1 .. Len(g[c]), NEW j \in 1 .. Len(g[d]),
             c # d \/ i # j
      PROVE  Apart(g[c][i], g[d][j])
  <2>1. CASE c = r /\ d = r
    BY <1>9, <2>1
  <2>2. CASE c = r /\ d # r
    BY <1>5, <1>6, <2>2
  <2>3. CASE c # r /\ d = r
    BY <1>5, <1>6, <2>3
  <2>4. CASE c # r /\ d # r
    BY <1>9, <2>4 DEF PendingOK
  <2>5. QED
    BY <2>1, <2>2, <2>3, <2>4
<1>10. /\ \A tx \in m : tx.settlement \in FairSettlements(leaves, higher) /\ Fresh(tx.settlement, leaves)
       /\ \A tx, other \in m : tx # other => Apart(tx.settlement, other.settlement)
  BY <1>1 DEF PendingOK
<1>11. QED
  BY <1>3, <1>7, <1>8, <1>9, <1>10 DEF PendingOK

\* A mined transaction is used up, and has no secret in common with the others.
LEMMA TransactionMined ==
  ASSUME NEW h, NEW m, NEW leaves, NEW top \in Nat, PendingOK(h, m, leaves, top),
         NEW tx \in m, NEW more, leaves \subseteq more, more \subseteq leaves \cup NewNotes(tx.settlement)
  PROVE  PendingOK(h, m \ {tx}, more, top)
<1> DEFINE s == tx.settlement
<1>1. FairSettlements(leaves, top) \subseteq FairSettlements(more, top)
      /\ \A q \in Seq(FairSettlements(leaves, top)) : q \in Seq(FairSettlements(more, top))
  <2>1. top <= top
    OBVIOUS
  <2>2. QED
    BY <2>1, FairGrows
<1>2. \A r \in Requests : h[r] \in Seq(FairSettlements(more, top))
  BY <1>1 DEF PendingOK
<1>3. ASSUME NEW other, Apart(s, other), Fresh(other, leaves)
      PROVE  Fresh(other, more)
  <2>1. \A leaf \in NewNotes(s) : leaf.nn \notin Secrets(other)
    BY <1>3 DEF NewNotes, Secrets, Apart
  <2>2. QED
    BY <1>3, <2>1 DEF Fresh
<1>4. \A r \in Requests : \A i \in 1 .. Len(h[r]) : Fresh(h[r][i], more)
  <2>1. \A r \in Requests : \A i \in 1 .. Len(h[r]) : Apart(s, h[r][i]) /\ Fresh(h[r][i], leaves)
    BY DEF PendingOK
  <2>2. QED
    BY <1>3, <2>1
<1>5. \A t \in m \ {tx} : t.settlement \in FairSettlements(more, top) /\ Fresh(t.settlement, more)
  <2>1. \A t \in m \ {tx} : /\ Apart(s, t.settlement) /\ Fresh(t.settlement, leaves)
                           /\ t.settlement \in FairSettlements(leaves, top)
    BY DEF PendingOK
  <2>2. QED
    BY <1>1, <1>3, <2>1
<1>6. QED
  BY <1>2, <1>4, <1>5 DEF PendingOK

LEMMA FewerNotes ==
  ASSUME NEW S, NEW top, DistinctNotes(S, top), NEW R, R \subseteq S
  PROVE  DistinctNotes(R, top)
BY DEF DistinctNotes

\* The notes of a batch are new ones.
LEMMA NotesOfBatch ==
  ASSUME NEW S, NEW top \in Nat, DistinctNotes(S, top), NEW higher \in Nat, top <= higher,
         NEW leaves, NEW batch \in Seq(FairSettlements(leaves, higher)),
         \A i \in 1 .. Len(batch) : \A nn \in Secrets(batch[i]) : nn > top,
         \A i, j \in 1 .. Len(batch) : i # j => Apart(batch[i], batch[j])
  PROVE  DistinctNotes(S \cup UNION { NewNotes(batch[i]) : i \in 1 .. Len(batch) }, higher)
<1> DEFINE B == UNION { NewNotes(batch[i]) : i \in 1 .. Len(batch) }
<1>1. \A i \in 1 .. Len(batch) : batch[i] \in FairSettlements(leaves, higher)
  OBVIOUS
<1>2. \A i \in 1 .. Len(batch) :
        /\ \A note \in NewNotes(batch[i]) : /\ note \in NoteSet /\ note.nn \in Nat /\ note.nn <= higher
                                           /\ note.nn \in Secrets(batch[i])
        /\ batch[i].buyerNew.nn # batch[i].sellerNew.nn
  BY <1>1 DEF FairSettlements, NewNotes, NoteSet, Secrets
<1>3. \A note \in B : /\ note \in NoteSet /\ note.nn \in Nat /\ note.nn <= higher /\ note.nn > top
  BY <1>2
<1>4. ASSUME NEW note \in B, NEW other \in B, note.nn = other.nn
      PROVE  note = other
  <2>1. PICK i \in 1 .. Len(batch) : note \in NewNotes(batch[i])
    OBVIOUS
  <2>2. PICK j \in 1 .. Len(batch) : other \in NewNotes(batch[j])
    OBVIOUS
  <2>3. i = j
    BY <1>2, <1>4, <2>1, <2>2 DEF Apart
  <2>4. QED
    BY <1>2, <1>4, <2>1, <2>2, <2>3 DEF NewNotes
<1>5. \A note \in S : note \in NoteSet /\ note.nn \in Nat /\ note.nn <= top /\ note.nn <= higher
  BY DEF DistinctNotes, NoteSet
<1> HIDE DEF B
<1>6. \A note \in S, other \in B : note.nn # other.nn
  BY <1>3, <1>5
<1>7. DistinctNotes(S \cup B, higher)
  BY <1>3, <1>4, <1>5, <1>6 DEF DistinctNotes
<1>8. QED
  BY <1>7 DEF B

\* How a request r with outbox x[r] may move on without sending anything.
MovesOn(p, x, p2, x2, r) ==
  \/ p2[r] = p[r] /\ x2[r] = x[r]
  \/ p[r] # "watching" /\ p2[r] # "watching" /\ x2[r] = x[r]
  \/ x[r] # << >> /\ p2[r] # "watching" /\ x2[r] = Tail(x[r])
  \/ p2[r] # "watching" /\ x2[r] = << >>

\* What moving on leaves in hand is the end of what was there.
LEMMA HandMovesOn ==
  ASSUME NEW S, NEW p, NEW x, NEW p2, NEW x2, NEW r \in Requests, MovesOn(p, x, p2, x2, r),
         x[r] \in Seq(S), p[r] = "watching" => x[r] # << >>
  PROVE  /\ x2[r] \in Seq(S) /\ EndOf(x2[r], x[r])
         /\ p2[r] = "watching" => x2[r] # << >>
         /\ Unsent(p2, x2)[r] \in Seq(S) /\ EndOf(Unsent(p2, x2)[r], Unsent(p, x)[r])
<1>1. Unsent(p, x)[r] = (IF p[r] = "watching" THEN Tail(x[r]) ELSE x[r])
      /\ Unsent(p2, x2)[r] = (IF p2[r] = "watching" THEN Tail(x2[r]) ELSE x2[r])
  BY DEF Unsent
<1>2. EndOf(x[r], x[r]) /\ EndOf(<< >>, x[r])
      /\ (x[r] # << >> => Tail(x[r]) \in Seq(S) /\ EndOf(Tail(x[r]), x[r]))
  BY EndsOf
<1>3. x[r] # << >> => EndOf(Tail(x[r]), Tail(x[r])) /\ EndOf(<< >>, Tail(x[r]))
  BY <1>2, EndsOf
<1>4. << >> \in Seq(S)
  OBVIOUS
<1>5. CASE p2[r] = p[r] /\ x2[r] = x[r]
  BY <1>1, <1>2, <1>3, <1>5
<1>6. CASE p[r] # "watching" /\ p2[r] # "watching" /\ x2[r] = x[r]
  BY <1>1, <1>2, <1>6
<1>7. CASE x[r] # << >> /\ p2[r] # "watching" /\ x2[r] = Tail(x[r])
  BY <1>1, <1>2, <1>3, <1>7
<1>8. CASE p2[r] # "watching" /\ x2[r] = << >>
  BY <1>1, <1>2, <1>3, <1>4, <1>8
<1>9. QED
  BY <1>5, <1>6, <1>7, <1>8 DEF MovesOn

\* The elements of an end are elements of the whole.
LEMMA ElementsOfEnd ==
  ASSUME NEW S, NEW seq \in Seq(S), NEW q \in Seq(S), EndOf(q, seq), NEW i \in 1 .. Len(q)
  PROVE  \E j \in 1 .. Len(seq) : q[i] = seq[j]
<1>1. PICK d \in Nat : Len(q) + d <= Len(seq) /\ \A k \in 1 .. Len(q) : q[k] = seq[k + d]
  BY DEF EndOf
<1>2. Len(q) \in Nat /\ Len(seq) \in Nat
  OBVIOUS
<1>3. i + d \in 1 .. Len(seq) /\ q[i] = seq[i + d]
  BY <1>1, <1>2
<1>4. QED
  BY <1>3

LEMMA FundsMove ==
  ASSUME NEW p, NEW x, NEW m, NEW leaves, NEW files, NEW stored, NEW top,
         FundsOK(p, x, m, leaves, files, stored, top),
         NEW p2, NEW x2, \A r \in Requests : MovesOn(p, x, p2, x2, r)
  PROVE  FundsOK(p2, x2, m, leaves, files, stored, top)
<1> DEFINE S == FairSettlements(leaves, top)
           h == Unsent(p, x)
           g == Unsent(p2, x2)
<1>1. /\ PendingOK(h, m, leaves, top)
      /\ \A r \in Requests : x[r] \in Seq(S) /\ (p[r] = "watching" => x[r] # << >>)
      /\ DistinctNotes(IssuedIn(leaves, files, stored, m, x), top)
  BY DEF FundsOK
<1> HIDE DEF S, h, g
<1>2. ASSUME NEW r \in Requests
      PROVE  /\ x2[r] \in Seq(S) /\ EndOf(x2[r], x[r])
             /\ p2[r] = "watching" => x2[r] # << >>
             /\ g[r] \in Seq(S) /\ EndOf(g[r], h[r])
  <2>1. x[r] \in Seq(S) /\ (p[r] = "watching" => x[r] # << >>) /\ MovesOn(p, x, p2, x2, r)
    BY <1>1
  <2>2. QED
    BY <2>1, HandMovesOn DEF g, h
<1>3. PendingOK(g, m, leaves, top)
  <2>1. \A r \in Requests : g[r] \in Seq(FairSettlements(leaves, top)) /\ EndOf(g[r], h[r])
    BY <1>2 DEF S
  <2>2. QED
    BY <1>1, <2>1, HandsShrink
<1>4. ASSUME NEW r \in Requests, NEW i \in 1 .. Len(x2[r])
      PROVE  \E j \in 1 .. Len(x[r]) : x2[r][i] = x[r][j]
  <2>1. x[r] \in Seq(S) /\ x2[r] \in Seq(S) /\ EndOf(x2[r], x[r])
    BY <1>1, <1>2
  <2>2. QED
    BY <2>1, ElementsOfEnd
<1>5. IssuedIn(leaves, files, stored, m, x2) \subseteq IssuedIn(leaves, files, stored, m, x)
  BY <1>4 DEF IssuedIn
<1>6. DistinctNotes(IssuedIn(leaves, files, stored, m, x2), top)
  BY <1>1, <1>5, FewerNotes
<1>7. QED
  BY <1>2, <1>3, <1>6 DEF FundsOK, S, g

LEMMA FundsSend ==
  ASSUME NEW p, NEW x, NEW m, NEW leaves, NEW files, NEW stored, NEW top,
         FundsOK(p, x, m, leaves, files, stored, top),
         NEW r \in Requests, p[r] # "watching", x[r] # << >>, NEW tx, tx.settlement = Head(x[r]),
         NEW p2, p2[r] = "watching", \A c \in Requests : c # r => p2[c] = p[c]
  PROVE  FundsOK(p2, x, m \cup {tx}, leaves, files, stored, top)
<1> DEFINE S == FairSettlements(leaves, top)
           h == Unsent(p, x)
           g == Unsent(p2, x)
<1>1. /\ PendingOK(h, m, leaves, top)
      /\ \A c \in Requests : x[c] \in Seq(S) /\ (p[c] = "watching" => x[c] # << >>)
      /\ DistinctNotes(IssuedIn(leaves, files, stored, m, x), top)
  BY DEF FundsOK
<1>2. h[r] = x[r] /\ g[r] = Tail(x[r]) /\ \A c \in Requests : c # r => g[c] = h[c]
  BY DEF Unsent
<1> HIDE DEF S, h, g
<1>3. PendingOK(g, m \cup {tx}, leaves, top)
  BY <1>1, <1>2, SettlementSent
<1>4. 1 \in 1 .. Len(x[r]) /\ tx.settlement = x[r][1]
  BY <1>1, EndsOf
<1>5. IssuedIn(leaves, files, stored, m \cup {tx}, x) \subseteq IssuedIn(leaves, files, stored, m, x)
  BY <1>4 DEF IssuedIn
<1>6. DistinctNotes(IssuedIn(leaves, files, stored, m \cup {tx}, x), top)
  BY <1>1, <1>5, FewerNotes
<1>7. \A c \in Requests : p2[c] = "watching" => x[c] # << >>
  BY <1>1
<1>8. QED
  BY <1>1, <1>3, <1>6, <1>7 DEF FundsOK, S, g

\* Notes fetched into files are notes the server has stored.
LEMMA FundsFetch ==
  ASSUME NEW p, NEW x, NEW m, NEW leaves, NEW files, NEW stored, NEW top,
         FundsOK(p, x, m, leaves, files, stored, top),
         NEW more, more \subseteq files \cup RangeOf(stored)
  PROVE  FundsOK(p, x, m, leaves, more, stored, top)
<1>1. IssuedIn(leaves, more, stored, m, x) \subseteq IssuedIn(leaves, files, stored, m, x)
  BY DEF IssuedIn
<1>2. QED
  BY <1>1, FewerNotes DEF FundsOK

\* So is what is left of them after a restart.
LEMMA FundsForget ==
  ASSUME NEW p, NEW x, NEW m, NEW leaves, NEW files, NEW stored, NEW top,
         FundsOK(p, x, m, leaves, files, stored, top),
         NEW less, RangeOf(less) \subseteq RangeOf(stored)
  PROVE  FundsOK(p, x, m, leaves, files, less, top)
<1>1. IssuedIn(leaves, files, less, m, x) \subseteq IssuedIn(leaves, files, stored, m, x)
  BY DEF IssuedIn
<1>2. QED
  BY <1>1, FewerNotes DEF FundsOK

LEMMA FundsMine ==
  ASSUME NEW p, NEW x, NEW m, NEW leaves, NEW files, NEW stored, NEW top \in Nat,
         FundsOK(p, x, m, leaves, files, stored, top),
         NEW tx \in m, NEW more, leaves \subseteq more, more \subseteq leaves \cup NewNotes(tx.settlement)
  PROVE  FundsOK(p, x, m \ {tx}, more, files, stored, top)
<1>1. PendingOK(Unsent(p, x), m \ {tx}, more, top)
  BY TransactionMined DEF FundsOK
<1>2. \A r \in Requests : x[r] \in Seq(FairSettlements(more, top))
  <2>1. top <= top
    OBVIOUS
  <2>2. \A q \in Seq(FairSettlements(leaves, top)) : q \in Seq(FairSettlements(more, top))
    BY <2>1, FairGrows
  <2>3. QED
    BY <2>2 DEF FundsOK
<1>3. IssuedIn(more, files, stored, m \ {tx}, x) \subseteq IssuedIn(leaves, files, stored, m, x)
  BY DEF IssuedIn
<1>4. QED
  BY <1>1, <1>2, <1>3, FewerNotes DEF FundsOK

LEMMA FundsCollect ==
  ASSUME NEW p, NEW x, NEW m, NEW leaves, NEW files, NEW stored, NEW top \in Nat,
         FundsOK(p, x, m, leaves, files, stored, top),
         NEW higher \in Nat, top <= higher,
         NEW batch \in Seq(FairSettlements(leaves, higher)),
         \A i \in 1 .. Len(batch) : \A nn \in Secrets(batch[i]) : nn > top,
         \A i, j \in 1 .. Len(batch) : i # j => Apart(batch[i], batch[j]),
         NEW r \in Requests, p[r] # "watching", x[r] = << >>,
         NEW p2, p2[r] # "watching", \A c \in Requests : c # r => p2[c] = p[c],
         NEW x2, x2[r] = batch, \A c \in Requests : c # r => x2[c] = x[c],
         NEW more, RangeOf(more) \subseteq RangeOf(stored) \cup UNION { NewNotes(batch[i]) : i \in 1 .. Len(batch) }
  PROVE  FundsOK(p2, x2, m, leaves, files, more, higher)
<1> DEFINE h == Unsent(p, x)
           g == Unsent(p2, x2)
           B == UNION { NewNotes(batch[i]) : i \in 1 .. Len(batch) }
           I == IssuedIn(leaves, files, stored, m, x)
<1>1. /\ PendingOK(h, m, leaves, top)
      /\ \A c \in Requests : x[c] \in Seq(FairSettlements(leaves, top)) /\ (p[c] = "watching" => x[c] # << >>)
      /\ DistinctNotes(I, top)
  BY DEF FundsOK
<1>2. h[r] = << >> /\ g[r] = batch /\ \A c \in Requests : c # r => g[c] = h[c]
  BY DEF Unsent
<1>3. \A leaf \in leaves : leaf.nn \in Nat /\ leaf.nn <= top
  BY <1>1 DEF DistinctNotes, IssuedIn, NoteSet
<1> HIDE DEF h, g
<1>4. PendingOK(g, m, leaves, higher)
  BY <1>1, <1>2, <1>3, BatchInHand
<1>5. \A c \in Requests : x2[c] \in Seq(FairSettlements(leaves, higher))
  <2>1. leaves \subseteq leaves
    OBVIOUS
  <2>2. \A q \in Seq(FairSettlements(leaves, top)) : q \in Seq(FairSettlements(leaves, higher))
    BY <2>1, FairGrows
  <2>3. QED
    BY <1>1, <2>2
<1>6. \A c \in Requests : p2[c] = "watching" => x2[c] # << >>
  BY <1>1
<1>7. DistinctNotes(I \cup B, higher)
  <2> HIDE DEF I
  <2>1. QED
    BY <1>1, NotesOfBatch
<1>8. IssuedIn(leaves, files, more, m, x2) \subseteq I \cup B
  <2>1. \A c \in Requests : \A i \in 1 .. Len(x2[c]) :
          NewNotes(x2[c][i]) \subseteq B \cup UNION { NewNotes(x[c][j]) : j \in 1 .. Len(x[c]) }
    OBVIOUS
  <2> HIDE DEF B
  <2>2. QED
    BY <2>1 DEF IssuedIn, B
<1>9. DistinctNotes(IssuedIn(leaves, files, more, m, x2), higher)
  <2> HIDE DEF I, B
  <2>1. QED
    BY <1>7, <1>8, FewerNotes
<1>10. QED
  BY <1>4, <1>5, <1>6, <1>9 DEF FundsOK, g

-------------------------------------------------------------------------------
(* The steps of the whole system *)

\* Orders that were good stay good when there are more of those.
LEMMA CallsGrow ==
  ASSUME NEW p, NEW o, NEW x, NEW w, NEW good, CallsOK(p, o, x, w, good), NEW more, good \subseteq more
  PROVE  CallsOK(p, o, x, w, more)
BY DEF CallsOK

LEMMA BookGrows ==
  ASSUME NEW b, NEW t, NEW c, NEW d, NEW good, BookSound(b, t, c, d, good), NEW more, good \subseteq more
  PROVE  BookSound(b, t, c, d, more)
<1>1. SoundTrades(good) \subseteq SoundTrades(more)
  BY DEF SoundTrades
<1>2. \A q \in Seq(SoundTrades(good)) : q \in Seq(SoundTrades(more))
  BY <1>1
<1>3. QED
  BY <1>2 DEF BookSound

\* The server's invariant, of the orders whose deposits are in the tree: a request
\* that passes the first check is one of those, and leaves are never removed.
LEMMA ServerStepGrows ==
  ASSUME PoolInv, ServerInv(Owned(LeafSet)), LeafSet \subseteq LeafSet', [DarkPoolNext]_sysVars
  PROVE  ServerInv(Owned(LeafSet))'
<1>1. PICK leaves : leaves = LeafSet
  OBVIOUS
<1>2. PICK good : good = Owned(leaves)
  OBVIOUS
<1>3. good \in SUBSET Covered /\ good \subseteq Owned(LeafSet')
  BY <1>1, <1>2 DEF Owned
<1>4. \A o \in Covered : IsCommitmentKnown(o.deposit) => o \in good
  BY <1>1, <1>2 DEF IsCommitmentKnown, PoolInv, Owned
<1>5. ServerInv(good)
  BY <1>1, <1>2
<1>6. ServerInv(good)'
  BY <1>3, <1>4, <1>5, ServerStep
<1> DEFINE more == Owned(LeafSet')
<1>7. CallsOK(pc', order', outbox', writer', more)
  <2>1. CallsOK(pc', order', outbox', writer', good) /\ good \subseteq more
    BY <1>3, <1>6 DEF ServerInv
  <2> HIDE DEF more
  <2>2. QED
    BY <2>1, CallsGrow
<1>8. BookSound(book', trades', clock', doubled', more)
  <2>1. BookSound(book', trades', clock', doubled', good) /\ good \subseteq more
    BY <1>3, <1>6 DEF ServerInv
  <2> HIDE DEF more
  <2>2. QED
    BY <2>1, BookGrows
<1>9. /\ (matching \in BOOLEAN /\ (matching <=> writer # NONE))'
      /\ MapsOK(lockedDeposits, orderToDeposit, orderDetails, settlements, book, matching, trades)'
  BY <1>6 DEF ServerInv
<1>10. (CallsOK(pc, order, outbox, writer, Owned(LeafSet)) /\ BookSound(book, trades, clock, doubled, Owned(LeafSet)))'
  BY <1>7, <1>8
<1> HIDE DEF more
<1>11. QED
  BY <1>9, <1>10, Zenon DEF ServerInv

\* What a step does to the pool and to what is on its way.
FundsKept ==
  /\ PoolInv' /\ LeafSet \subseteq LeafSet' /\ minted' \in Nat
  /\ FundsOK(pc', outbox', mempool', LeafSet', saved', settlements', MAX_LEAVES + minted')
  /\ NoteSet \subseteq Leaves => [PoolView!SPNext]_(PoolView!spvars)

\* A step that sends, mines and stores nothing.
LEMMA FundsStay ==
  ASSUME FundsInv, UNCHANGED << poolVars, mempool, minted, settlements >>,
         \A r \in Requests : MovesOn(pc, outbox, pc', outbox', r),
         saved' \subseteq saved \cup RangeOf(settlements)
  PROVE  FundsKept
<1>1. /\ PoolInv /\ minted \in Nat
      /\ FundsOK(pc, outbox, mempool, LeafSet, saved, settlements, Top)
  BY DEF FundsInv
<1>2. PoolInv' /\ LeafSet' = LeafSet /\ UNCHANGED PoolView!spvars
  BY <1>1, PoolUnchanged
<1>3. FundsOK(pc', outbox', mempool, LeafSet, saved, settlements, Top)
  BY <1>1, FundsMove
<1>4. FundsOK(pc', outbox', mempool, LeafSet, saved', settlements, Top)
  BY <1>3, FundsFetch
<1>5. minted' = minted /\ mempool' = mempool /\ settlements' = settlements
  OBVIOUS
<1>6. FundsOK(pc', outbox', mempool', LeafSet', saved', settlements', MAX_LEAVES + minted')
  BY <1>2, <1>4, <1>5 DEF Top
<1>7. QED
  BY <1>1, <1>2, <1>5, <1>6 DEF FundsKept

\* The steps of a request that send and store nothing.
LEMMA RequestFunds ==
  ASSUME FundsInv, saved' = saved, NEW r \in Requests,
         \/ \E o \in Orders, k \in Versions : Receive(r, o, k)
         \/ CheckCommitment(r) \/ CheckNullifier(r) \/ CheckRoot(r) \/ QueryFails(r)
         \/ RefuseLocked(r) \/ PlaceOrder(r) \/ MatchUnderLock(r)
         \/ SendFails(r) \/ NextSettlement(r) \/ Reply(r) \/ Disconnect(r)
  PROVE  FundsKept
<1> DEFINE Goes(s, q) == pc' = [pc EXCEPT ![r] = s] /\ outbox' = [outbox EXCEPT ![r] = q]
<1>1. /\ pc = [c \in Requests |-> pc[c]] /\ outbox = [c \in Requests |-> outbox[c]]
      /\ pc[r] = "watching" => outbox[r] # << >>
  BY DEF FundsInv, ServerInv, CallsOK, FundsOK
<1>2. outbox = [outbox EXCEPT ![r] = outbox[r]] /\ pc = [pc EXCEPT ![r] = pc[r]]
  BY <1>1
<1>3. UNCHANGED << poolVars, mempool, minted, settlements >>
  BY DEF Receive, CheckCommitment, CheckNullifier, CheckRoot, ChainCheck, QueryFails, RefuseLocked,
         PlaceOrder, MatchUnderLock, SendFails, NextSettlement, Reply, Disconnect, mapVars
<1>4. ASSUME NEW s, NEW q, Goes(s, q),
             \/ s = pc[r] /\ q = outbox[r]
             \/ pc[r] # "watching" /\ s # "watching" /\ q = outbox[r]
             \/ outbox[r] # << >> /\ s # "watching" /\ q = Tail(outbox[r])
             \/ s # "watching" /\ q = << >>
      PROVE  FundsKept
  <2>1. /\ pc'[r] = s /\ outbox'[r] = q
        /\ \A c \in Requests : c # r => pc'[c] = pc[c] /\ outbox'[c] = outbox[c]
    BY <1>1, <1>4
  <2>2. MovesOn(pc, outbox, pc', outbox', r)
    BY <1>4, <2>1 DEF MovesOn
  <2>3. \A c \in Requests : c # r => MovesOn(pc, outbox, pc', outbox', c)
    BY <2>1 DEF MovesOn
  <2>4. \A c \in Requests : MovesOn(pc, outbox, pc', outbox', c)
    BY <2>2, <2>3
  <2>5. QED
    BY <1>3, <2>4, FundsStay
<1> HIDE DEF Goes
<1>5. CASE \E o \in Orders, k \in Versions : Receive(r, o, k)
  <2>1. \E s \in {"commitment", "rejected"} : Goes(s, outbox[r])
    BY <1>2, <1>5 DEF Receive, Goto, Goes
  <2>2. pc[r] = "idle"
    BY <1>5 DEF Receive
  <2>3. QED
    BY <1>4, <2>1, <2>2
<1>6. CASE CheckCommitment(r) \/ CheckNullifier(r) \/ CheckRoot(r) \/ QueryFails(r)
  <2>1. /\ pc[r] \in {"commitment", "nullifier", "root"}
        /\ \E s \in {"nullifier", "root", "lock", "rejected"} : Goes(s, outbox[r])
    BY <1>2, <1>6 DEF CheckCommitment, CheckNullifier, CheckRoot, ChainCheck, QueryFails, Leave, Goto,
                      Goes
  <2>2. QED
    BY <1>4, <2>1
<1>7. CASE RefuseLocked(r) \/ PlaceOrder(r)
  <2>1. pc[r] = "lock" /\ \E s \in {"rejected", "matching"} : Goes(s, outbox[r])
    BY <1>2, <1>7 DEF RefuseLocked, PlaceOrder, Goto, Goes
  <2>2. QED
    BY <1>4, <2>1
<1>8. CASE MatchUnderLock(r)
  <2>1. Goes(pc[r], outbox[r])
    BY <1>2, <1>8 DEF MatchUnderLock, callVars, Goes
  <2>2. QED
    BY <1>4, <2>1
<1>9. CASE SendFails(r) \/ NextSettlement(r)
  <2>1. outbox[r] # << >> /\ Goes("settling", Tail(outbox[r]))
    BY <1>1, <1>2, <1>9 DEF SendFails, NextSettlement, Goto, Goes
  <2>2. QED
    BY <1>4, <2>1
<1>10. CASE Reply(r)
  <2>1. pc[r] = "settling" /\ Goes("accepted", outbox[r])
    BY <1>2, <1>10 DEF Reply, Goto, Goes
  <2>2. QED
    BY <1>4, <2>1
<1>11. CASE Disconnect(r)
  <2>1. Goes("lost", << >>)
    BY <1>11 DEF Disconnect, Leave, Goto, Goes
  <2>2. QED
    BY <1>4, <2>1
<1>12. QED
  BY <1>5, <1>6, <1>7, <1>8, <1>9, <1>10, <1>11

\* A settlement that is sent is fair, and leaves the outbox for the mempool.
LEMMA SendFunds ==
  ASSUME FundsInv, saved' = saved, NEW r \in Requests, NEW attestation, Send(r, attestation)
  PROVE  FundsKept
<1>1. /\ PoolInv /\ minted \in Nat
      /\ FundsOK(pc, outbox, mempool, LeafSet, saved, settlements, Top)
      /\ pc = [c \in Requests |-> pc[c]]
  BY DEF FundsInv, ServerInv, CallsOK
<1>2. /\ pc[r] = "settling" /\ outbox[r] # << >> /\ pc' = [pc EXCEPT ![r] = "watching"]
      /\ UNCHANGED << poolVars, mapVars, outbox, minted >>
  BY DEF Send, Goto
<1>3. mempool' = mempool \cup {[settlement |-> Head(outbox[r]), attestation |-> attestation]}
  BY DEF Send
<1>4. PICK tx : tx = [settlement |-> Head(outbox[r]), attestation |-> attestation]
  OBVIOUS
<1>5. tx.settlement = Head(outbox[r]) /\ mempool' = mempool \cup {tx}
  BY <1>3, <1>4
<1>6. pc'[r] = "watching" /\ \A c \in Requests : c # r => pc'[c] = pc[c]
  BY <1>1, <1>2
<1>7. FundsOK(pc', outbox, mempool \cup {tx}, LeafSet, saved, settlements, Top)
  BY <1>1, <1>2, <1>5, <1>6, FundsSend
<1>8. PoolInv' /\ LeafSet' = LeafSet /\ UNCHANGED PoolView!spvars
  BY <1>1, <1>2, PoolUnchanged
<1>9. minted' = minted /\ settlements' = settlements /\ outbox' = outbox
  BY <1>2 DEF mapVars
<1>10. FundsOK(pc', outbox', mempool', LeafSet', saved', settlements', MAX_LEAVES + minted')
  BY <1>5, <1>7, <1>8, <1>9 DEF Top
<1>11. QED
  BY <1>1, <1>8, <1>9, <1>10 DEF FundsKept

\* The batch of a loop with trades t when m notes have been generated.
BatchOf(t, m) == [i \in 1 .. Len(t) |-> GenerateSettlement(t[i], m + 2 * (i - 1))]

\* The settlements a matching loop ends with: fair, and all their secrets new.
LEMMA FairBatch ==
  ASSUME NEW base, NEW quote, OnePair(base, quote), NEW leaves \in SUBSET NoteSet,
         NEW t \in Seq(SoundTrades(Owned(leaves))), NEW m \in Nat, NEW batch, batch = BatchOf(t, m)
  PROVE  /\ batch \in Seq(FairSettlements(leaves, MAX_LEAVES + (m + 2 * Len(t))))
         /\ Len(batch) = Len(t)
         /\ \A i \in 1 .. Len(batch) : \A nn \in Secrets(batch[i]) : nn > MAX_LEAVES + m
         /\ \A i, j \in 1 .. Len(batch) : i # j => Apart(batch[i], batch[j])
<1> DEFINE n == Len(t)
           k(i) == m + 2 * (i - 1)
           higher == MAX_LEAVES + (m + 2 * n)
<1>1. n \in Nat /\ MAX_LEAVES \in Nat
  BY LenProperties, MaxLeavesNat
<1>2. ASSUME NEW i \in 1 .. n
      PROVE  /\ batch[i] \in FairSettlements(leaves, higher)
             /\ Secrets(batch[i]) = {MAX_LEAVES + k(i) + 1, MAX_LEAVES + k(i) + 2}
  <2>1. t[i] \in SoundTrades(Owned(leaves))
    BY ElementOfSeq
  <2>2. k(i) \in Nat
    OBVIOUS
  <2>3. batch[i] = GenerateSettlement(t[i], k(i))
    BY DEF BatchOf
  <2> DEFINE ki == k(i)
  <2> HIDE DEF ki
  <2>4. /\ batch[i] \in FairSettlements(leaves, MAX_LEAVES + ki + 2)
        /\ Secrets(batch[i]) = {MAX_LEAVES + ki + 1, MAX_LEAVES + ki + 2}
    <3>1. ki \in Nat /\ batch[i] = GenerateSettlement(t[i], ki)
      BY <2>2, <2>3 DEF ki
    <3>2. QED
      BY <2>1, <3>1, FairTrade
  <2>5. /\ MAX_LEAVES + ki + 2 \in Nat /\ higher \in Nat /\ MAX_LEAVES + ki + 2 <= higher
        /\ leaves \subseteq leaves
    <3>1. i \in Nat /\ 1 <= i /\ i <= n
      BY <1>1
    <3>2. QED
      BY <1>1, <3>1 DEF ki
  <2>6. FairSettlements(leaves, MAX_LEAVES + ki + 2) \subseteq FairSettlements(leaves, higher)
    <3> HIDE DEF higher
    <3>1. QED
      BY <2>5, FairGrows
  <2>7. QED
    BY <2>4, <2>6 DEF ki
<1>3. batch = [i \in 1 .. n |-> batch[i]]
  BY DEF BatchOf
<1> HIDE DEF higher, n
<1>4. batch \in Seq(FairSettlements(leaves, higher)) /\ Len(batch) = n
  <2>1. batch \in [1 .. n -> FairSettlements(leaves, higher)]
    BY <1>2, <1>3
  <2>2. QED
    BY <1>1, <2>1
<1>5. ASSUME NEW i \in 1 .. n, NEW nn \in Secrets(batch[i])
      PROVE  nn > MAX_LEAVES + m
  <2>1. Secrets(batch[i]) = {MAX_LEAVES + k(i) + 1, MAX_LEAVES + k(i) + 2}
    BY <1>2, <1>5
  <2>2. nn \in {MAX_LEAVES + k(i) + 1, MAX_LEAVES + k(i) + 2}
    BY <2>1, <1>5
  <2>3. i \in Nat /\ 1 <= i
    BY <1>1, <1>5
  <2>4. QED
    BY <1>1, <2>2, <2>3
<1>6. ASSUME NEW i \in 1 .. n, NEW j \in 1 .. n, i # j
      PROVE  Secrets(batch[i]) \cap Secrets(batch[j]) = {}
  <2>1. i \in Nat /\ j \in Nat
    BY <1>1
  <2>2. {MAX_LEAVES + k(i) + 1, MAX_LEAVES + k(i) + 2} \cap {MAX_LEAVES + k(j) + 1, MAX_LEAVES + k(j) + 2} = {}
    BY <1>1, <1>6, <2>1
  <2>3. QED
    BY <1>2, <2>2
<1>7. QED
  BY <1>4, <1>5, <1>6 DEF Apart, higher, n

\* The batch is in hand, stored, and on no chain yet.
LEMMA CollectFunds ==
  ASSUME NEW base, NEW quote, OnePair(base, quote), FundsInv, saved' = saved,
         NEW r \in Requests, Collect(r)
  PROVE  FundsKept
<1> DEFINE n == Len(trades)
           top == MAX_LEAVES + minted
           higher == MAX_LEAVES + (minted + 2 * n)
<1>1. /\ PoolInv /\ minted \in Nat
      /\ FundsOK(pc, outbox, mempool, LeafSet, saved, settlements, top)
      /\ pc = [c \in Requests |-> pc[c]] /\ outbox = [c \in Requests |-> outbox[c]]
      /\ outbox[r] # << >> => pc[r] \in {"settling", "watching"}
      /\ trades \in Seq(SoundTrades(Owned(LeafSet)))
  BY DEF FundsInv, ServerInv, CallsOK, BookSound, Top
<1>2. /\ pc[r] = "matching" /\ pc' = [pc EXCEPT ![r] = "settling"]
      /\ outbox' = [outbox EXCEPT ![r] = Batch]
      /\ settlements' = StoreNotes(settlements, Batch)
      /\ minted' = minted + 2 * n
      /\ UNCHANGED << poolVars, mempool >>
  BY DEF Collect, Goto
<1>3. n \in Nat /\ MAX_LEAVES \in Nat
  BY <1>1, LenProperties, MaxLeavesNat
<1>4. top \in Nat /\ higher \in Nat /\ top <= higher /\ minted' \in Nat
  BY <1>1, <1>2, <1>3
<1>5. LeafSet \in SUBSET NoteSet
  BY <1>1, UnspentNotes
<1>6. PICK batch : batch = Batch
  OBVIOUS
<1>7. batch = BatchOf(trades, minted) /\ batch = [i \in 1 .. n |-> batch[i]]
  BY <1>6 DEF Batch, BatchOf
<1>8. /\ batch \in Seq(FairSettlements(LeafSet, higher)) /\ Len(batch) = n
      /\ \A i \in 1 .. Len(batch) : \A nn \in Secrets(batch[i]) : nn > top
      /\ \A i, j \in 1 .. Len(batch) : i # j => Apart(batch[i], batch[j])
  <2>1. /\ batch \in Seq(FairSettlements(LeafSet, MAX_LEAVES + (minted + 2 * Len(trades))))
        /\ Len(batch) = Len(trades)
        /\ \A i \in 1 .. Len(batch) : \A nn \in Secrets(batch[i]) : nn > MAX_LEAVES + minted
        /\ \A i, j \in 1 .. Len(batch) : i # j => Apart(batch[i], batch[j])
    BY <1>1, <1>5, <1>7, FairBatch
  <2>2. QED
    BY <2>1
<1>9. RangeOf(settlements') \subseteq
        RangeOf(settlements) \cup UNION { NewNotes(batch[i]) : i \in 1 .. Len(batch) }
  <2> HIDE DEF n
  <2>1. batch = [i \in 1 .. n |-> batch[i]] /\ n \in Nat
    BY <1>3, <1>7
  <2>2. RangeOf(StoreNotes(settlements, batch)) \subseteq
          RangeOf(settlements) \cup UNION { NewNotes(batch[i]) : i \in 1 .. n }
    BY <2>1, NotesStored
  <2>3. QED
    BY <1>2, <1>6, <1>8, <2>2
<1>10. /\ pc'[r] = "settling" /\ outbox'[r] = batch /\ outbox[r] = << >>
       /\ \A c \in Requests : c # r => pc'[c] = pc[c] /\ outbox'[c] = outbox[c]
  BY <1>1, <1>2, <1>6
<1> HIDE DEF top, higher
<1>11. FundsOK(pc', outbox', mempool, LeafSet, saved, settlements', higher)
  <2>1. pc[r] # "watching" /\ pc'[r] # "watching" /\ outbox[r] = << >> /\ outbox'[r] = batch
    BY <1>2, <1>10
  <2>2. /\ \A c \in Requests : c # r => pc'[c] = pc[c]
        /\ \A c \in Requests : c # r => outbox'[c] = outbox[c]
    BY <1>10
  <2>3. FundsOK(pc, outbox, mempool, LeafSet, saved, settlements, top) /\ r \in Requests
    BY <1>1
  <2>4. QED
    BY ONLY <1>4, <1>8, <1>9, <2>1, <2>2, <2>3, FundsCollect
<1>12. PoolInv' /\ LeafSet' = LeafSet /\ UNCHANGED PoolView!spvars
  BY <1>1, <1>2, PoolUnchanged
<1>13. mempool' = mempool /\ higher = MAX_LEAVES + minted'
  BY <1>2 DEF higher
<1>14. FundsOK(pc', outbox', mempool', LeafSet', saved', settlements', MAX_LEAVES + minted')
  BY <1>11, <1>12, <1>13
<1>15. QED
  BY <1>4, <1>12, <1>14 DEF FundsKept

\* What the chain accepts of the mempool exchanges two notes for two new ones.
LEMMA MineFunds ==
  ASSUME FundsInv, saved' = saved, NEW tx \in mempool, Mine(tx)
  PROVE  FundsKept
<1> DEFINE s == tx.settlement
<1>1. /\ PoolInv /\ minted \in Nat /\ MAX_LEAVES \in Nat
      /\ FundsOK(pc, outbox, mempool, LeafSet, saved, settlements, Top)
  BY MaxLeavesNat DEF FundsInv
<1>2. /\ mempool' = mempool \ {tx}
      /\ SettleMatch(admin.teeOperator, s, tx.attestation) \/ UNCHANGED poolVars
      /\ UNCHANGED << mapVars, callVars, minted >>
  BY DEF Mine
<1>3. /\ pc' = pc /\ outbox' = outbox /\ settlements' = settlements /\ minted' = minted
  BY <1>2 DEF mapVars, callVars
<1>4. s \in FairSettlements(LeafSet, Top) /\ Fresh(s, LeafSet)
  BY <1>1 DEF FundsOK, PendingOK
<1>5. Top \in Nat
  BY <1>1 DEF Top
<1>6. ASSUME PoolInv', LeafSet \subseteq LeafSet', LeafSet' \subseteq LeafSet \cup NewNotes(s),
             NoteSet \subseteq Leaves => [PoolView!SPNext]_(PoolView!spvars)
      PROVE  FundsKept
  <2>1. FundsOK(pc, outbox, mempool \ {tx}, LeafSet', saved, settlements, Top)
    BY <1>1, <1>5, <1>6, FundsMine
  <2>2. FundsOK(pc', outbox', mempool', LeafSet', saved', settlements', MAX_LEAVES + minted')
    BY <1>2, <1>3, <2>1 DEF Top
  <2>3. QED
    BY <1>1, <1>3, <1>6, <2>2 DEF FundsKept
<1>7. CASE UNCHANGED poolVars
  <2>1. PoolInv' /\ LeafSet' = LeafSet /\ UNCHANGED PoolView!spvars
    BY <1>1, <1>7, PoolUnchanged
  <2>2. QED
    BY <1>6, <2>1
<1>8. CASE SettleMatch(admin.teeOperator, s, tx.attestation)
  <2>1. PICK buyer \in LeafSet, seller \in LeafSet :
          /\ buyer # seller /\ s.buyerOld = Nullifier(buyer) /\ s.sellerOld = Nullifier(seller)
          /\ \A token \in Tokens :
               PoolView!Claim(s.buyerNew, token) + PoolView!Claim(s.sellerNew, token)
                 <= PoolView!Claim(buyer, token) + PoolView!Claim(seller, token)
    BY <1>4 DEF FairSettlements
  <2> DEFINE n1 == s.buyerNew
             n2 == s.sellerNew
  <2>2. /\ n1 \in NoteSet /\ n2 \in NoteSet /\ n1.nn # n2.nn
        /\ s = Settlement(Nullifier(buyer), Nullifier(seller), n1, n2)
    BY <1>4, <2>1 DEF FairSettlements, Settlement
  <2>3. \A leaf \in LeafSet : leaf.nn # n1.nn /\ leaf.nn # n2.nn
    BY <1>4 DEF Fresh, Secrets
  <2>4. commitments' = commitments \cup {n1, n2}
    BY <1>8 DEF SettleMatch
  <2>5. SettleMatch(admin.teeOperator, Settlement(Nullifier(buyer), Nullifier(seller), n1, n2), tx.attestation)
    BY <1>8, <2>2
  <2>6. NewNotes(s) = {n1, n2}
    BY DEF NewNotes
  <2> HIDE DEF n1, n2
  <2>7. /\ PoolInv' /\ buyer \in Unspent /\ seller \in Unspent
        /\ n1 \in Unspent' /\ n2 \in Unspent'
        /\ PoolView!Exchange(buyer, seller, n1, n2)
    <3>1. \A token \in Tokens : PoolView!Claim(n1, token) + PoolView!Claim(n2, token)
                                  <= PoolView!Claim(buyer, token) + PoolView!Claim(seller, token)
      BY <2>1 DEF n1, n2
    <3>2. QED
      BY <1>1, <2>1, <2>2, <2>3, <2>5, <3>1, SettleExchanges
  <2>8. LeafSet' = LeafSet \cup {n1, n2}
    BY <1>1, <2>4, <2>7 DEF PoolInv
  <2>9. NoteSet \subseteq Leaves => PoolView!SPNext
    BY <2>2, <2>7 DEF PoolView!SPNext
  <2>10. QED
    BY <1>6, <2>6, <2>7, <2>8, <2>9
<1>9. QED
  BY <1>2, <1>7, <1>8

\* A client withdraws a note it has saved.
LEMMA WithdrawFunds ==
  ASSUME FundsInv, ClientWithdraws
  PROVE  FundsKept
<1>1. /\ PoolInv /\ minted \in Nat
      /\ FundsOK(pc, outbox, mempool, LeafSet, saved, settlements, Top)
  BY DEF FundsInv
<1>2. /\ pc' = pc /\ outbox' = outbox /\ mempool' = mempool /\ saved' = saved
      /\ settlements' = settlements /\ minted' = minted
  BY DEF ClientWithdraws, teeVars, callVars, mapVars
<1>3. PICK note \in saved : Withdraw(note, GetLastRoot(tree), note.amount)
  BY DEF ClientWithdraws
<1>4. note.amount \in Nat
  BY <1>1, <1>3 DEF FundsOK, DistinctNotes, IssuedIn, NoteSet
<1>5. PoolInv' /\ note \in Unspent /\ PoolView!Pay(note)
  BY <1>1, <1>3, <1>4, WithdrawPays
<1>6. LeafSet' = LeafSet
  BY <1>3 DEF Withdraw, LeafSet
<1>7. PoolView!SPNext
  BY <1>5 DEF PoolView!SPNext
<1>8. FundsOK(pc', outbox', mempool', LeafSet', saved', settlements', MAX_LEAVES + minted')
  BY <1>1, <1>2, <1>6 DEF Top
<1>9. QED
  BY <1>1, <1>2, <1>5, <1>6, <1>7, <1>8 DEF FundsKept

LEMMA FetchFunds ==
  ASSUME FundsInv, ClientFetches
  PROVE  FundsKept
<1>1. UNCHANGED << poolVars, mempool, minted, settlements, pc, outbox >>
  BY DEF ClientFetches, teeVars, callVars, mapVars
<1>2. \A r \in Requests : MovesOn(pc, outbox, pc', outbox', r)
  BY <1>1 DEF MovesOn
<1>3. saved' \subseteq saved \cup RangeOf(settlements)
  BY DEF ClientFetches, SettlementFor, RangeOf
<1>4. QED
  BY <1>1, <1>2, <1>3, FundsStay

\* A restart forgets what was in hand and stored, and nothing that was sent.
LEMMA RestartFunds ==
  ASSUME FundsInv, saved' = saved, Restart
  PROVE  FundsKept
<1>1. /\ PoolInv /\ minted \in Nat
      /\ FundsOK(pc, outbox, mempool, LeafSet, saved, settlements, Top)
  BY DEF FundsInv
<1>2. /\ settlements' = EmptyMap /\ mempool' = mempool /\ minted' = minted
      /\ \A r \in Requests : pc'[r] # "watching" /\ outbox'[r] = << >>
      /\ UNCHANGED poolVars
  BY DEF Restart
<1>3. \A r \in Requests : MovesOn(pc, outbox, pc', outbox', r)
  BY <1>2 DEF MovesOn
<1>4. FundsOK(pc', outbox', mempool, LeafSet, saved, settlements, Top)
  BY <1>1, <1>3, FundsMove
<1>5. RangeOf(EmptyMap) \subseteq RangeOf(settlements)
  BY DEF RangeOf, EmptyMap
<1>6. FundsOK(pc', outbox', mempool, LeafSet, saved, EmptyMap, Top)
  BY <1>4, <1>5, FundsForget
<1>7. PoolInv' /\ LeafSet' = LeafSet /\ UNCHANGED PoolView!spvars
  BY <1>1, <1>2, PoolUnchanged
<1>8. FundsOK(pc', outbox', mempool', LeafSet', saved', settlements', MAX_LEAVES + minted')
  BY <1>2, <1>6, <1>7 DEF Top
<1>9. QED
  BY <1>1, <1>2, <1>7, <1>8 DEF FundsKept

LEMMA FundsStart ==
  ASSUME DarkPoolInit
  PROVE  FundsInv
<1> DEFINE First == [nn : 1 .. MAX_LEAVES, token : Tokens, amount : Nat \ {0}]
<1>0. First \subseteq NoteSet /\ InitialDeposits \in Seq(First) /\ \A note \in First : note.nn \in 1 .. MAX_LEAVES
  BY PoolAssumption, DepositsAssumption DEF NoteSet
<1> HIDE DEF First
<1>1. InitialDeposits \in Seq(NoteSet)
  <2>1. \A q \in Seq(First) : q \in Seq(NoteSet)
    BY <1>0
  <2>2. QED
    BY <1>0, <2>1
<1>2. /\ Len(InitialDeposits) \in Nat /\ DOMAIN InitialDeposits = 1 .. Len(InitialDeposits)
      /\ \A i \in 1 .. Len(InitialDeposits) : InitialDeposits[i] \in First
  BY <1>0
<1>3. DepositSet = ToSet(InitialDeposits)
  BY <1>2 DEF DepositSet, ToSet
<1>4. /\ PoolHolding(InitialDeposits) /\ saved = DepositSet /\ minted = 0 /\ mempool = {}
      /\ settlements = EmptyMap
      /\ pc = [r \in Requests |-> "idle"] /\ outbox = [r \in Requests |-> << >>]
  BY DEF DarkPoolInit, TeeInit
<1>5. PoolInv /\ LeafSet = DepositSet
  BY <1>1, <1>3, <1>4, DepositsAssumption, PoolHoldsDeposits
<1>6. ServerInv(Owned(LeafSet))
  <2>1. \A good : ServerInv(good)
    BY ServerStarts
  <2>2. QED
    BY <2>1
<1>7. FundsOK(pc, outbox, mempool, LeafSet, saved, settlements, Top)
  <2> DEFINE h == Unsent(pc, outbox)
  <2>1. \A r \in Requests : h[r] = << >> /\ outbox[r] = << >> /\ pc[r] = "idle"
    BY <1>4 DEF Unsent
  <2> HIDE DEF h
  <2> DEFINE S == FairSettlements(LeafSet, Top)
  <2>2. PendingOK(h, mempool, LeafSet, Top) /\ \A r \in Requests : outbox[r] \in Seq(S)
    <3> HIDE DEF S
    <3>1. << >> \in Seq(S) /\ 1 .. Len(<< >>) = {}
      OBVIOUS
    <3>2. \A r \in Requests : h[r] \in Seq(S) /\ outbox[r] \in Seq(S) /\ 1 .. Len(h[r]) = {}
      BY <2>1, <3>1
    <3>3. QED
      BY <1>4, <3>2 DEF PendingOK, S
  <2>3. IssuedIn(LeafSet, saved, settlements, mempool, outbox) = DepositSet
    BY <1>4, <1>5, <2>1 DEF IssuedIn, RangeOf, EmptyMap
  <2>4. DistinctNotes(DepositSet, Top)
    <3>1. ASSUME NEW note \in DepositSet
          PROVE  note \in NoteSet /\ note.nn <= Top
      <4>1. PICK i \in 1 .. Len(InitialDeposits) : note = InitialDeposits[i]
        BY DEF DepositSet
      <4>2. note \in NoteSet /\ note.nn \in 1 .. MAX_LEAVES
        BY <1>0, <1>2, <4>1
      <4>3. QED
        BY <1>4, <4>2, MaxLeavesNat DEF Top
    <3>2. ASSUME NEW note \in DepositSet, NEW other \in DepositSet, note.nn = other.nn
          PROVE  note = other
      BY <3>2, DepositsAssumption DEF DepositSet
    <3>3. QED
      BY <3>1, <3>2 DEF DistinctNotes
  <2>5. QED
    BY <2>1, <2>2, <2>3, <2>4, Zenon DEF FundsOK, h
<1>8. QED
  BY <1>4, <1>5, <1>6, <1>7 DEF FundsInv

LEMMA FundsSteps ==
  ASSUME NEW base, NEW quote, OnePair(base, quote), FundsInv, [DarkPoolNext]_sysVars
  PROVE  FundsKept
<1>1. CASE ClientOrders
  BY <1>1, RequestFunds DEF ClientOrders
<1>2. CASE UNCHANGED << poolVars, mempool, minted, settlements, pc, outbox, saved >>
  <2>1. \A r \in Requests : MovesOn(pc, outbox, pc', outbox', r)
    BY <1>2 DEF MovesOn
  <2>2. QED
    BY <1>2, <2>1, FundsStay
<1>3. CASE ClientCancels
  BY <1>2, <1>3 DEF ClientCancels, CancelOrder, callVars
<1>4. CASE ClientFetches
  BY <1>4, FetchFunds
<1>5. CASE ClientWithdraws
  BY <1>5, WithdrawFunds
<1>6. CASE ClientHangsUp
  BY <1>6, RequestFunds DEF ClientHangsUp
<1>7. CASE ServerRuns
  <2>1. PICK r \in Requests : Handler(r) /\ saved' = saved
    BY <1>7 DEF ServerRuns
  <2>2. CASE Collect(r)
    BY <2>1, <2>2, CollectFunds
  <2>3. CASE SendSettlement(r)
    BY <2>1, <2>3, SendFunds DEF SendSettlement
  <2>4. CASE ~(Collect(r) \/ SendSettlement(r))
    BY <2>1, <2>4, RequestFunds DEF Handler, Watched
  <2>5. QED
    BY <2>2, <2>3, <2>4
<1>8. CASE ChainMines
  BY <1>8, MineFunds DEF ChainMines
<1>9. CASE ServerRestarts
  BY <1>9, RestartFunds DEF ServerRestarts
<1>10. CASE CallsFail
  <2>1. PICK r \in Requests : Fault(r) /\ saved' = saved
    BY <1>10 DEF CallsFail
  <2>2. CASE SignFails(r)
    BY <2>1, <2>2, SendFunds DEF SignFails
  <2>3. CASE QueryFails(r) \/ SendFails(r) \/ WatchFails(r)
    BY <2>1, <2>3, RequestFunds DEF WatchFails
  <2>4. QED
    BY <2>1, <2>2, <2>3 DEF Fault
<1>11. CASE UNCHANGED sysVars
  BY <1>2, <1>11 DEF sysVars, teeVars, mapVars, callVars
<1>12. QED
  BY <1>1, <1>3, <1>4, <1>5, <1>6, <1>7, <1>8, <1>9, <1>10, <1>11 DEF DarkPoolNext

LEMMA FundsStep ==
  ASSUME NEW base, NEW quote, OnePair(base, quote), FundsInv, [DarkPoolNext]_sysVars
  PROVE  FundsInv'
<1>1. /\ PoolInv' /\ LeafSet \subseteq LeafSet' /\ minted' \in Nat
      /\ FundsOK(pc', outbox', mempool', LeafSet', saved', settlements', MAX_LEAVES + minted')
  BY FundsSteps DEF FundsKept
<1>2. ServerInv(Owned(LeafSet))'
  BY <1>1, ServerStepGrows DEF FundsInv
<1>3. DepositSet \subseteq LeafSet'
  BY <1>1 DEF FundsInv
<1>4. FundsOK(pc, outbox, mempool, LeafSet, saved, settlements, Top)'
  BY <1>1 DEF Top
<1>5. (DepositSet \subseteq LeafSet)'
  BY <1>3 DEF DepositSet
<1>6. QED
  BY <1>1, <1>2, <1>4, <1>5 DEF FundsInv

\* One pair of tokens is traded.
OnePairTraded == \E base, quote : OnePair(base, quote)

\* Server and pool together: what is on its way to the chain is fair, fresh and
\* sent once, in every reachable state.
THEOREM FundsInvariant == OnePairTraded /\ DarkPoolSafety => []FundsInv
<1> SUFFICES ASSUME OnePairTraded
             PROVE  DarkPoolSafety => []FundsInv
  OBVIOUS
<1>1. DarkPoolInit => FundsInv
  BY FundsStart
<1>2. FundsInv /\ [DarkPoolNext]_sysVars => FundsInv'
  <2>1. PICK base, quote : OnePair(base, quote)
    BY DEF OnePairTraded
  <2>2. QED
    BY <2>1, FundsStep
<1>3. QED
  BY <1>1, <1>2, PTL DEF DarkPoolSafety

\* The contract can pay every unspent note whatever orders are matched, sent,
\* lost and mined in whatever order (settleMatch and withdraw of DePLOB.sol under
\* the TEE server of this source).
THEOREM PoolStaysSolvent == OnePairTraded /\ DarkPoolSafety => []Solvent
<1>1. FundsInv => Solvent
  BY DEF FundsInv, PoolInv
<1>2. QED
  BY <1>1, FundsInvariant, PTL

\* No step of the system pays a note twice or issues notes that claim more than
\* those they replace (settle_match of chain.rs against settleMatch of DePLOB.sol).
THEOREM PoolStepsOfSystem ==
  OnePairTraded /\ NoteSet \subseteq Leaves /\ DarkPoolSafety => PoolStepsOnly
<1> SUFFICES ASSUME OnePairTraded, NoteSet \subseteq Leaves
             PROVE  DarkPoolSafety => PoolStepsOnly
  OBVIOUS
<1>1. FundsInv /\ [DarkPoolNext]_sysVars => [PoolView!SPNext]_(PoolView!spvars)
  <2>1. PICK base, quote : OnePair(base, quote)
    BY DEF OnePairTraded
  <2>2. QED
    BY <2>1, FundsSteps DEF FundsKept
<1>2. DarkPoolSafety => []FundsInv
  BY FundsInvariant
<1>3. QED
  BY <1>1, <1>2, PTL DEF DarkPoolSafety, PoolStepsOnly

\* A settlement on its way gives out no more of any token than the two notes it
\* names hold, of all the notes in the tree and in files (generate_settlement of
\* settlement/mod.rs under the checks of verification.rs).
THEOREM SettlementsAreCovered == OnePairTraded /\ DarkPoolSafety => []SettlementsCovered
<1>1. ASSUME FundsInv, NEW s \in InFlight, NEW token \in Tokens,
             NEW old, old = { d \in DepositSet \cup saved \cup LeafSet : Nullifier(d) \in {s.buyerOld, s.sellerOld} }
      PROVE  PoolView!Claim(s.buyerNew, token) + PoolView!Claim(s.sellerNew, token)
               <= FoldSet(LAMBDA d, sum : sum + PoolView!Claim(d, token), 0, old)
  <2> USE DEF Nullifier
  <2>1. /\ FundsOK(pc, outbox, mempool, LeafSet, saved, settlements, Top) /\ DepositSet \subseteq LeafSet
        /\ LeafSet \subseteq NoteSet
    BY <1>1, UnspentNotes DEF FundsInv
  <2>2. s \in FairSettlements(LeafSet, Top)
    <3>1. CASE \E tx \in mempool : s = tx.settlement
      BY <2>1, <3>1 DEF FundsOK, PendingOK
    <3>2. CASE \E r \in Requests : s \in ToSet(outbox[r])
      <4>1. PICK r \in Requests : s \in ToSet(outbox[r])
        BY <3>2
      <4>2. outbox[r] \in Seq(FairSettlements(LeafSet, Top))
        BY <2>1 DEF FundsOK
      <4>3. QED
        BY <4>1, <4>2 DEF ToSet
    <3>3. QED
      BY <1>1, <3>1, <3>2 DEF InFlight
  <2>3. PICK buyer \in LeafSet, seller \in LeafSet :
          /\ buyer # seller /\ s.buyerOld = buyer.nn /\ s.sellerOld = seller.nn
          /\ PoolView!Claim(s.buyerNew, token) + PoolView!Claim(s.sellerNew, token)
               <= PoolView!Claim(buyer, token) + PoolView!Claim(seller, token)
    BY <2>2 DEF FairSettlements
  <2>4. \A note, other \in LeafSet \cup saved : note.nn = other.nn => note = other
    BY <2>1 DEF FundsOK, DistinctNotes, IssuedIn
  <2>5. old = {buyer, seller}
    BY <1>1, <2>1, <2>3, <2>4
  <2>6. FoldSet(LAMBDA d, sum : sum + PoolView!Claim(d, token), 0, {buyer, seller})
          = PoolView!Claim(buyer, token) + PoolView!Claim(seller, token)
    BY <2>1, <2>3, ClaimsOfTwo
  <2>7. QED
    BY <2>3, <2>5, <2>6
<1>2. FundsInv => SettlementsCovered
  BY <1>1 DEF SettlementsCovered
<1>3. QED
  BY <1>2, FundsInvariant, PTL
===============================================================================
