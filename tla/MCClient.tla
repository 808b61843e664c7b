------------------------------- MODULE MCClient -------------------------------
(* TLC instance of Client.  Two leaves are in the tree when the sessions begin, *)
(* in blocks 1 and 2; the second is the wallet's note, saved in f1.             *)
EXTENDS Client

CONSTANTS tA, f1, f2

MCDeposits == << Note(1, tA, 1), Note(2, tA, 1) >>
MCHeights  == << 1, 2 >>
MCFiles    == (f1 :> Note(2, tA, 1)) @@ (f2 :> NONE)

MCNotes == [nn : (1 .. MAX_LEAVES) \cup Sessions, token : Tokens, amount : Amounts]
===============================================================================
