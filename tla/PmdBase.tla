------------------------------ MODULE PmdBase ------------------------------
(***************************************************************************)
(* Constants and helpers shared by the modules of testpmd's commands.      *)
(***************************************************************************)
EXTENDS Integers, Sequences, FiniteSets

CONSTANTS Ports,       \* identifiers of the attached ports (there may be gaps)
          FewPorts,    \* those of them typed in commands with many arguments (bound)
          Vals,        \* values typed, 0 among them
          NbVlans,     \* VLAN identifiers 0 .. NbVlans-1 are valid (4096)
          NbQueues     \* nb_rxq = nb_txq

ASSUME BaseAssumption ==
  /\ Ports \subseteq Nat /\ FewPorts \subseteq Ports /\ 0 \in Vals /\ NbVlans \in Nat \ {0} /\ NbQueues \in Nat \ {0}

TypedVlans == 0 .. NbVlans           \* the last one is invalid
vlan_id_is_invalid(v) == v >= NbVlans

TypedQueues == 0 .. NbQueues         \* the last one is invalid
rx_queue_id_is_invalid(q) == q >= NbQueues
tx_queue_id_is_invalid(q) == q >= NbQueues

\* Switch the member x of a set of flags.
Flip(S, x, on) == IF on THEN S \union {x} ELSE S \ {x}
=============================================================================
