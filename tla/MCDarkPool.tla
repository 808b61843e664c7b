------------------------------ MODULE MCDarkPool ------------------------------
(* TLC instances of DarkPool.  Alice sells token A for B; Bob and Carol buy it. *)
(* Mallory has made no deposit.                                                 *)
EXTENDS DarkPool

CONSTANTS tA, tB, r1, r2, r3, r4

MCSymmetry == Permutations(Requests)

Alice == Note(1, tA, 2)
Bob   == Note(2, tB, 2)
Carol == Note(3, tB, 1)
Mallory == Note(4, tB, 2)

MCNotes == [nn : 1 .. MAX_LEAVES + 8, token : {tA, tB}, amount : 1 .. 8]

MCOrder(deposit, side, price, quantity, in, out) ==
  [id |-> << deposit.nn, side, price, quantity, in, out >>,
   deposit |-> deposit, side |-> side, price |-> price, quantity |-> quantity,
   tokenIn |-> in, tokenOut |-> out]

\* Alice's order is filled in two parts, by Bob's and by Carol's.
ThreeDeposits == << Alice, Bob, Carol >>
ThreeOrders ==
  { MCOrder(Alice, "sell", 1, 2, tA, tB),
    MCOrder(Bob, "buy", 2, 1, tB, tA),
    MCOrder(Carol, "buy", 1, 1, tB, tA) }

\* The same orders may be sent again after a fill or a cancel.
TwoDeposits == << Alice, Bob >>
TwoOrders ==
  { MCOrder(Alice, "sell", 1, 2, tA, tB),
    MCOrder(Bob, "buy", 2, 1, tB, tA) }

\* Alice has a second, smaller order for the same deposit.
SecondOrders == TwoOrders \cup { MCOrder(Alice, "sell", 1, 1, tA, tB) }

\* A bound on the run with faults: three requests of the two orders, interleaved
\* in every way and with everything else, or four requests of the three orders by
\* clients who wait for one answer before they send another.
Sent == { r \in Requests : pc[r] # "idle" }

FewOrSequential ==
  \/ /\ Cardinality(Sent) <= 3
     /\ \A r \in Sent : order[r] \in TwoOrders
  \/ /\ Cardinality({ r \in Sent : pc[r] \notin Answered }) <= 1
     /\ \A r \in Sent : pc[r] # "lost"
     /\ restarts = 0
     /\ saved = DepositSet
     /\ nullifierHashes \subseteq DOMAIN settlements

\* Orders at the edge of what a deposit covers and of what 128 bits hold.
EdgeOrders ==
  { MCOrder(Alice, "sell", p, q, tA, tB) : p \in {1, 4}, q \in 0 .. 3 }
    \cup { MCOrder(Bob, "buy", p, q, tB, tA) : p \in {1, 2, 4}, q \in {1, 2} }
    \cup { MCOrder(Bob, "buy", 1, 1, tA, tB), MCOrder(Mallory, "buy", 2, 1, tB, tA) }
===============================================================================
