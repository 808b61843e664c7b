---------------------------- MODULE MCPoolCallers ----------------------------
(* TLC instance of PoolCallers. *)
EXTENDS PoolCallers

MCLeaves == [nn : 1 .. MAX_LEAVES, token : Tokens, amount : Amounts] \cup Commitments

\* Nothing tells one secret or one token from another.
Interchangeable == Permutations(NoteSecrets) \cup Permutations(Tokens)
===============================================================================
