---------------------------- MODULE MCPortLaunch ----------------------------
(***************************************************************************)
(* TLC instance of PortLaunch: ports 1..6 with a VNC base of 3, so that    *)
(* port 4 and above overflow as displays and display d collides with the   *)
(* ephemeral port 3 + d.                                                   *)
(***************************************************************************)
EXTENDS PortLaunch

CONSTANTS r1, r2

TwoRuns == {r1, r2}
OneRun == {r1}
Second == {r2}
Nobody == {}
Kernel == {2, 4}
SshRange == {5, 6}
VncRange == {1, 3}
=============================================================================
