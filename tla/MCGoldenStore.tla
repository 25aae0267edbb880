--------------------------- MODULE MCGoldenStore ---------------------------
(***************************************************************************)
(* TLC instances of GoldenStore: two recipes to move between, two builds   *)
(* at once, one run.  Recipes, builders and runs are interchangeable.      *)
(***************************************************************************)
EXTENDS GoldenStore, TLC

CONSTANTS ra, rb, b1, b2, run1

TwoRecipes == {ra, rb}
TwoBuilders == {b1, b2}
OneBuilder == {b1}
OneRun == {run1}

Symmetry == Permutations(TwoRecipes) \cup Permutations(TwoBuilders)
=============================================================================
