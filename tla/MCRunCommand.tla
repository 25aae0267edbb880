---------------------------- MODULE MCRunCommand ----------------------------
(***************************************************************************)
(* TLC instance of RunCommand: every command, the code's five spawn        *)
(* attempts, and two SIGINTs (the second lands in a handler or in the      *)
(* finally block that the first one started).                              *)
(***************************************************************************)
EXTENDS RunCommand

AllCommands == {"run-test", "vm-run", "vm-live", "spike"}
=============================================================================
