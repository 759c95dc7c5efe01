---------------------------- MODULE StartBarrier ----------------------------
(***************************************************************************)
(* What run_benchmarks and wait_benchmarks promise to the programs they    *)
(* start: programs arrive one by one, the barrier opens when all are       *)
(* there, each may then run or leave, and the barrier is set up again only *)
(* when everyone has left.                                                 *)
(***************************************************************************)

CONSTANT Prog

VARIABLES state,  \* "out", "ready", "running" or "over", for each program
          open    \* the programs may start

vars == <<state, open>>

Init ==
  /\ state = [p \in Prog |-> "out"]
  /\ open = FALSE

Arrive(p) ==
  /\ ~open
  /\ state[p] = "out"
  /\ state' = [state EXCEPT ![p] = "ready"]
  /\ UNCHANGED open

Open ==
  /\ ~open
  /\ \A p \in Prog : state[p] = "ready"
  /\ open' = TRUE
  /\ UNCHANGED state

Start(p) ==
  /\ open
  /\ state[p] = "ready"
  /\ state' = [state EXCEPT ![p] = "running"]
  /\ UNCHANGED open

Leave(p) ==
  /\ open
  /\ state[p] \in {"ready", "running"}
  /\ state' = [state EXCEPT ![p] = "over"]
  /\ UNCHANGED open

Reset ==
  /\ open
  /\ \A p \in Prog : state[p] = "over"
  /\ Init'

Next ==
  \/ Open
  \/ Reset
  \/ \E p \in Prog : Arrive(p) \/ Start(p) \/ Leave(p)

Spec == Init /\ [][Next]_vars
=============================================================================
