----------------------------- MODULE MCPtrChase -----------------------------
(* Every cycle through up to MaxLen entries. *)
EXTENDS PtrChase

CONSTANT MaxLen

AllLens == 1..MaxLen
=============================================================================
