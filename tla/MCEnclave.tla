------------------------------ MODULE MCEnclave ------------------------------
(* TLC instance of Enclave: two builds, two notes that can be traded.          *)
EXTENDS Enclave

CONSTANTS tA, tB

MCDeposits == << Note(1, tA, 1), Note(2, tB, 1) >>

MCQuotes == [mrenclave : Builds, key : Keys \cup {NONE}]

MCNotes == [nn : 1 .. MAX_LEAVES + 4, token : Tokens, amount : Amounts]

MCSymmetry == Permutations(Keys)
===============================================================================
