----------------------------- MODULE MCSceneSync -----------------------------
(* SceneSync for TLC: requests of one kind are interchangeable, and no property *)
(* of the run is a liveness property, so permuting them is sound.               *)
EXTENDS SceneSync, TLC

RequestSymmetry == Permutations(Syncs) \union Permutations(Actions) \union Permutations(Restores)

\* Every property but the type invariant is about the states where no restore has been
\* overtaken, and none of these follows one where a restore has: TLC need not go on.
NotOvertaken == ~overtaken
=============================================================================
