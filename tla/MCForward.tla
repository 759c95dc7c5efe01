----------------------------- MODULE MCForward -----------------------------
(***************************************************************************)
(* The forwarding engines: their buffers and counters (Engines), the       *)
(* headers the checksum engine finds and renews under the commands that    *)
(* configure it (CsumOnly with TxOffload), and the replies of the echo     *)
(* engine (IcmpEcho).  They share no state: a behaviour exercises one.     *)
(***************************************************************************)
EXTENDS Engines, CsumOnly, IcmpEcho

CONSTANTS Aspects, CsumSteps   \* steps of a csum behaviour (bound)

VARIABLES aspect, steps

vars == <<evars, off, csumvars, echovars, aspect, steps>>

Init == aspect \in Aspects /\ steps = 0 /\ EngInit /\ OffloadInit /\ CsumInit /\ EchoInit

\* The aspects that do not use eng start with one of its values.
Started == /\ Init
           /\ aspect # "burst" => eng = CHOOSE e \in EngineNames : TRUE

Next ==
  /\ UNCHANGED aspect
  /\ \/ /\ aspect = "burst" /\ EngNext
        /\ UNCHANGED <<off, csumvars, echovars, steps>>
     \/ /\ aspect = "csum" /\ steps < CsumSteps /\ CsumNext
        /\ steps' = steps + 1 /\ UNCHANGED <<evars, echovars>>
     \/ /\ aspect = "echo" /\ request = <<>> /\ EchoNext
        /\ UNCHANGED <<evars, off, csumvars, steps>>

Spec == Started /\ [][Next]_vars

\* Instances.
AllAspects == {"burst", "csum", "echo"}
CsumAspect == {"csum"}
=============================================================================
