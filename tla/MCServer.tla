------------------------------- MODULE MCServer -------------------------------
(* Instances of Server for TLC. *)
EXTENDS Server, TLC

CONSTANTS c1, c2, c3

TwoConns == {c1, c2}
ThreeConns == {c1, c2, c3}

Symmetry == Permutations(ThreeConns)
===============================================================================
