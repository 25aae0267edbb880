--------------------------- MODULE MCSharedCache ---------------------------
(***************************************************************************)
(* TLC instance of SharedCache: two commands of any of four kinds (of the  *)
(* other two, the disk is a run-test's and the end a spike's), two seconds *)
(* for their stamps, one SIGINT, one image-prune.                          *)
(***************************************************************************)
EXTENDS SharedCache, TLC

CONSTANTS p1, p2, t1, t2

TwoCommands == {p1, p2}
TwoStamps == {t1, t2}
FourKinds == {"check-host", "image-build", "spike", "run-test"}

Symmetry == Permutations(TwoCommands) \cup Permutations(TwoStamps)
=============================================================================
