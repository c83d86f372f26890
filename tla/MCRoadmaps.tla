----------------------------- MODULE MCRoadmaps -----------------------------
(* Small instances of Roadmaps.  Goals and kinds are interchangeable.         *)
EXTENDS Roadmaps, TLC

KindSymmetry == Permutations(Kinds)
GoalSymmetry == Permutations(Goals)
=============================================================================
