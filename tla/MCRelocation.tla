---------------------------- MODULE MCRelocation ----------------------------
(* Processes of every kind at the start, room for one or two more. *)
EXTENDS Relocation

AllNormal == [p \in Pid |-> "normal"]
OneBound == [AllNormal EXCEPT ![2] = "bound"]
OneForeign == [AllNormal EXCEPT ![3] = "foreign"]

SomeKinds == {AllNormal, OneBound, OneForeign}
NormalKinds == {AllNormal}
=============================================================================
