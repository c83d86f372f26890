---------------------------- MODULE MCRecompute ----------------------------
(* Small instances of Recompute: one account that owns every goal.            *)
EXTENDS Recompute, TLC

CONSTANTS u1, g1, g2, w1, w2

OneUser == {u1}
OneOwner == [g \in Goals |-> u1]

WorkerSymmetry == Permutations(Workers)
GoalSymmetry == Permutations(Goals)
=============================================================================
