---------------------------- MODULE MCObjectCache ----------------------------
(* An instance of ObjectCache for TLC. *)
EXTENDS ObjectCache, TLC

CONSTANTS h1, h2, g1, worker, none

TwoUpdaters == {h1, h2}
OneGetter == {g1}
TwoValues == {0, 1}

Symmetry == Permutations(TwoUpdaters)
=============================================================================
