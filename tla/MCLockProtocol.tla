--------------------------- MODULE MCLockProtocol ---------------------------
(* Three trials, one of them measured by both sides. *)
EXTENDS LockProtocol
=============================================================================
