----------------------------- MODULE MCWaitLoop -----------------------------
(***************************************************************************)
(* TLC instance of WaitLoop.  A budget that is no multiple of the sleep,   *)
(* so that the rounding in the attempt limit matters; three rejections to  *)
(* give up, so that they can be counted, cancelled and counted again.      *)
(***************************************************************************)
EXTENDS WaitLoop

AllKinds == {"ssh", "qga", "iso", "spike", "reboot", "wayland"}
JustSsh == {"ssh"}
=============================================================================
