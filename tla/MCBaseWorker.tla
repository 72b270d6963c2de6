---------------------------- MODULE MCBaseWorker ----------------------------
(* Instances of BaseWorker for TLC. *)
EXTENDS BaseWorker, TLC

CONSTANTS h1, h2, t1, t2, t3, worker, none

TwoHandlers == {h1, h2}
TwoTasks == {t1, t2}
ThreeTasks == {t1, t2, t3}

Symmetry == Permutations(TwoHandlers) \cup Permutations(ThreeTasks)
=============================================================================
