---------------------------- MODULE MCCoreMerkle ----------------------------
(* The tree for TLC: two commitments, and bytes32(0), which deposit accepts. *)
EXTENDS CoreMerkle

CONSTANTS c1, c2

MCLeaves == {c1, c2, ZERO}
=============================================================================
