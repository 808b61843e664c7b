------------------------------ MODULE MCMatching ------------------------------
(* TLC instance of MatchingEngine: orders on both sides at overlapping       *)
(* prices, with quantities that give full fills, partial fills of the        *)
(* resting order and partial fills of the incoming one.                      *)
EXTENDS MatchingEngine

MCOrder(id, side, price, quantity) ==
  [id |-> id, side |-> side, price |-> price, quantity |-> quantity]

MCOrders ==
  { MCOrder(1, "buy", 1, 1), MCOrder(2, "buy", 2, 2), MCOrder(3, "buy", 2, 1), MCOrder(4, "buy", 3, 3),
    MCOrder(5, "sell", 1, 3), MCOrder(6, "sell", 2, 1), MCOrder(7, "sell", 2, 2), MCOrder(8, "sell", 3, 1) }
===============================================================================
