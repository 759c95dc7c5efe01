------------------------------ MODULE PortLife ------------------------------
(***************************************************************************)
(* What testpmd promises of its ports and of packet forwarding: a port is  *)
(* opened stopped, is started and stopped any number of times, is closed   *)
(* when stopped and removed when closed; and while packets are forwarded   *)
(* nothing of this happens to a port, except that a closed one is removed. *)
(***************************************************************************)
CONSTANT Ports

VARIABLES life,        \* "ABSENT", "STOPPED", "STARTED" or "CLOSED"
          forwarding   \* packets are forwarded

lifeVars == <<life, forwarding>>

LifeInit ==
  /\ life \in [Ports -> {"ABSENT", "STOPPED"}]
  /\ forwarding = FALSE

\* Some ports in state a go to state b.
Move(a, b) ==
  /\ \E S \in SUBSET {p \in Ports : life[p] = a} :
       life' = [p \in Ports |-> IF p \in S THEN b ELSE life[p]]
  /\ UNCHANGED forwarding

Open    == ~forwarding /\ Move("ABSENT", "STOPPED")
Start   == ~forwarding /\ Move("STOPPED", "STARTED")
Stop    == ~forwarding /\ Move("STARTED", "STOPPED")
Close   == ~forwarding /\ Move("STOPPED", "CLOSED")
Remove  == Move("CLOSED", "ABSENT")
Forward == forwarding' \in BOOLEAN /\ UNCHANGED life

LifeNext == Open \/ Start \/ Stop \/ Close \/ Remove \/ Forward

LifeSpec == LifeInit /\ [][LifeNext]_lifeVars
=============================================================================
