---------------------------- MODULE MCSmokeFlow ----------------------------
(***************************************************************************)
(* TLC instance of SmokeFlow: all flows; version 1 is seeded, GitHub's     *)
(* latest release starts at 1 (nothing to update to) or above, and may     *)
(* move on once or twice while the flow runs.                              *)
(***************************************************************************)
EXTENDS SmokeFlow

AllFlows == {"session", "bindings", "install", "update", "live"}
ThreeReleases == {1, 2, 3}
=============================================================================
