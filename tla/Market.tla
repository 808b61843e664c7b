-------------------------------- MODULE Market --------------------------------
(***************************************************************************)
(* What a limit order book promises, with no price levels, queues or index:*)
(* live orders have a side, a limit and a quantity that is left; only a    *)
(* best bid and a best ask trade, only when their limits cross, for as much*)
(* as both have left; and matching goes on until no two limits cross.      *)
(***************************************************************************)
EXTENDS Integers, FiniteSets

CONSTANT Orders                \* [side, price, quantity, ...] that may be placed

VARIABLES live,                \* number -> [side, price, quantity] for each live order
          open                 \* matching is in progress

mvars == << live, open >>

Side(side) == { n \in DOMAIN live : live[n].side = side }

BestBid(n) == n \in Side("buy") /\ \A other \in Side("buy") : live[n].price >= live[other].price
BestAsk(n) == n \in Side("sell") /\ \A other \in Side("sell") : live[n].price <= live[other].price

Crossed == \E b \in Side("buy"), a \in Side("sell") : live[b].price >= live[a].price

\* The live orders after b and a each trade q of their quantity.
Filled(b, a, q) ==
  LET left == [n \in DOMAIN live |->
                 IF n \in {b, a} THEN [live[n] EXCEPT !.quantity = @ - q] ELSE live[n]]
  IN  [n \in { k \in DOMAIN live : left[k].quantity > 0 } |-> left[n]]

MInit == live = [n \in {} |-> 0] /\ open = FALSE

\* The same order may be placed again: each time it has a number of its own.
Place(o, number) ==
  /\ ~open
  /\ number \notin DOMAIN live
  /\ live' = [n \in DOMAIN live \cup {number} |->
                IF n = number THEN [side |-> o.side, price |-> o.price, quantity |-> o.quantity]
                              ELSE live[n]]
  /\ open' = TRUE

Trade(b, a) ==
  /\ open
  /\ BestBid(b) /\ BestAsk(a)
  /\ live[b].price >= live[a].price
  /\ LET q == IF live[b].quantity <= live[a].quantity THEN live[b].quantity ELSE live[a].quantity
     IN  live' = Filled(b, a, q)
  /\ UNCHANGED open

Close ==
  /\ open
  /\ ~Crossed
  /\ open' = FALSE
  /\ UNCHANGED live

Cancel(number) ==
  /\ ~open
  /\ number \in DOMAIN live
  /\ live' = [n \in DOMAIN live \ {number} |-> live[n]]
  /\ UNCHANGED open

MNext ==
  \/ \E o \in Orders : \E number \in DOMAIN live' \ DOMAIN live : Place(o, number)
  \/ \E b, a \in DOMAIN live : Trade(b, a)
  \/ Close
  \/ \E number \in DOMAIN live : Cancel(number)

MSpec == MInit /\ [][MNext]_mvars
===============================================================================
