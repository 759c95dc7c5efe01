-------------------------- MODULE MCBenchCommands --------------------------
(* Three programs, two sessions, every call of the code free to fail. *)
EXTENDS BenchCommands

AllFaults == {"malloc", "fork", "setup", "kill", "exec"}
=============================================================================
