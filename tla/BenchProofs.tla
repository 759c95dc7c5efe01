---------------------------- MODULE BenchProofs ----------------------------
(***************************************************************************)
(* Proofs about the two benchmarks on one machine: the start-up protocol   *)
(* (BenchCommands), for any number of programs and sessions and any set of *)
(* failing calls, and the pointer chase (PtrChase), for arrays of every    *)
(* length.                                                                 *)
(***************************************************************************)
EXTENDS BenchCommands, PtrChase, FiniteSetTheorems, TLAPS

-----------------------------------------------------------------------------
(* The start-up protocol *)

(* The inductive invariant.  MaskInv: who has SIGUSR1 blocked or pending.  *)
(* ChildInv: what a child's own state says about it.  PhaseInv: which      *)
(* children exist, and how far each has come, at each point of the parent. *)

TypeInv == TypeOK /\ (pc \notin {"caller", "dead"} => round < Rounds)

Parked(c) == cstate[c] = "up" /\ ~pending[c]

MaskInv ==
  /\ pc \in {"await", "kill"} => blocked[Parent]
  /\ pending[Parent] <=> (pc = "await" /\ cstate[prog] = "up")
  /\ \A c \in Child : cstate[c] # "none" => blocked[c]
  /\ \A c \in Child : pending[c] => cstate[c] = "up" /\ childpids = Child

ChildInv ==
  \A c \in Child :
    /\ cstate[c] # "killed"
    /\ cstate[c] \in {"pinned", "up", "go", "running", "reaped"} => pinned[c]
    /\ cstate[c] \in {"none", "setup"} => ~pinned[c]

ForkLoopInv ==
  pc \in {"fork", "await"} =>
    /\ allocated
    /\ childpids = 1..(prog - 1)
    /\ \A c \in Child : c < prog => Parked(c)
    /\ \A c \in Child : c > prog => cstate[c] = "none"
    /\ pc = "fork" => cstate[prog] = "none"
    /\ pc = "await" => \/ cstate[prog] \in {"setup", "pinned", "up"}
                       \/ cstate[prog] \in {"diverted", "zombie"} /\ ~pinned[prog]

KillLoopInv ==
  pc = "kill" => /\ allocated
                 /\ childpids = Child
                 /\ \A c \in Child : c >= prog => Parked(c)

AfterInv ==
  pc \in {"kill", "returned", "wait", "caller"} =>
    \/ childpids = Child /\ \A c \in Child : Reported(c)
    \/ /\ childpids # Child
       /\ childpids # {} => 1 \in childpids
       /\ \A c \in Child : IF c \in childpids THEN Parked(c) ELSE cstate[c] = "none"

WaitInv ==
  /\ pc = "returned" /\ ~allocated => \A c \in Child : cstate[c] = "none"
  /\ pc = "wait" /\ childpids = Child => \A c \in Child : c < prog => cstate[c] = "reaped"
  /\ pc = "wait" /\ childpids # Child /\ childpids # {} => prog = 1
  /\ pc = "caller" => \A c \in Child : cstate[c] \in {"none", "reaped"}

IInv ==
  /\ TypeInv
  /\ pc # "dead"
  /\ MaskInv
  /\ ChildInv
  /\ ForkLoopInv
  /\ KillLoopInv
  /\ AfterInv
  /\ WaitInv

-----------------------------------------------------------------------------
\* Every variable of the session keeps its type, whatever fails: in
\* particular the loop variable never leaves the bounds of childpids.
LEMMA TypeStep == TypeInv /\ [Next]_vars => TypeInv'
<1> SUFFICES ASSUME TypeInv, [Next]_vars PROVE TypeInv'
  OBVIOUS
<1> USE NumProgsAssumption, RoundsAssumption
        DEF TypeInv, TypeOK, Child, Process, Parent, ParentState, ChildState
<1>1. CASE RunBenchmarks
  BY <1>1 DEF RunBenchmarks, Enter
<1>2. CASE MallocFails
  BY <1>2, Zenon, ZenonT(40) DEF MallocFails, Enter
<1>3. CASE Fork
  BY <1>3, Zenon, ZenonT(40) DEF Fork
<1>4. CASE ForkFails
  BY <1>4, Zenon, ZenonT(40) DEF ForkFails
<1>5. CASE AwaitChildUp
  BY <1>5 DEF AwaitChildUp
<1>6. CASE KillChild
  <2>0. pc' \in ParentState /\ prog' \in Child
    BY <1>6 DEF KillChild
  <2>1. ret' \in BOOLEAN
    BY <1>6, Zenon, ZenonT(40) DEF KillChild
  <2>2. cstate' \in [Child -> ChildState]
    BY <1>6 DEF KillChild
  <2>3. pending' \in [Process -> BOOLEAN]
    BY <1>6, Zenon, ZenonT(40) DEF KillChild
  <2> QED
    BY <1>6, <2>0, <2>1, <2>2, <2>3 DEF KillChild
<1>7. CASE KillFails
  BY <1>7, Zenon, ZenonT(40) DEF KillFails
<1>8. CASE WaitBenchmarks
  BY <1>8 DEF WaitBenchmarks
<1>9. CASE WaitPid
  <2>0. pc' \in ParentState /\ prog' \in Child
    BY <1>9 DEF WaitPid
  <2>1. allocated' \in BOOLEAN
    BY <1>9, Zenon, ZenonT(40) DEF WaitPid
  <2>2. round' \in 0..Rounds /\ (pc' \notin {"caller", "dead"} => round' < Rounds)
    BY <1>9 DEF WaitPid
  <2>3. cstate' \in [Child -> ChildState] /\ waitret' \in {0, -1}
    BY <1>9 DEF WaitPid
  <2> QED
    BY <1>9, <2>0, <2>1, <2>2, <2>3 DEF WaitPid
<1>10. ASSUME NEW c \in Child, ChildSetup(c) PROVE TypeInv'
  BY <1>10, Zenon, ZenonT(40) DEF ChildSetup, parentVars
<1>11. ASSUME NEW c \in Child, ChildUp(c) PROVE TypeInv'
  <2>1. CASE blocked[Parent]
    BY <1>11, <2>1, Zenon, ZenonT(40) DEF ChildUp
  <2>2. CASE ~blocked[Parent]
    BY <1>11, <2>2 DEF ChildUp
  <2> QED
    BY <2>1, <2>2
<1>12. ASSUME NEW c \in Child, ChildAwait(c) PROVE TypeInv'
  BY <1>12 DEF ChildAwait, parentVars
<1>13. ASSUME NEW c \in Child, ChildExec(c) PROVE TypeInv'
  BY <1>13 DEF ChildExec, parentVars
<1>14. ASSUME NEW c \in Child, ChildExit(c) PROVE TypeInv'
  BY <1>14 DEF ChildExit, parentVars
<1>15. CASE UNCHANGED vars
  BY <1>15 DEF vars
<1> QED
  BY <1>1, <1>2, <1>3, <1>4, <1>5, <1>6, <1>7, <1>8, <1>9, <1>10, <1>11, <1>12, <1>13, <1>14, <1>15, SMTT(30), SMTT(60) DEF Next, ParentStep, ChildStep

\* A session begins with the invariant.
LEMMA InitIInv == Init => IInv
<1> SUFFICES ASSUME Init PROVE IInv
  OBVIOUS
<1> USE NumProgsAssumption, RoundsAssumption DEF Init, Child, Process, Parent
<1>1. TypeInv
  <2>1. pc \in ParentState BY DEF ParentState
  <2>2. prog \in Child OBVIOUS
  <2>3. round \in 0..Rounds OBVIOUS
  <2>4. waitret \in {0,-1} OBVIOUS
  <2>5. cstate \in [Child -> ChildState] BY DEF ChildState
  <2>6. pinned \in [Child -> BOOLEAN] OBVIOUS
  <2>7. blocked \in [Process -> BOOLEAN] OBVIOUS
  <2>8. pending \in [Process -> BOOLEAN] OBVIOUS
  <2> QED
    BY <2>1,<2>2,<2>3,<2>4,<2>5,<2>6,<2>7,<2>8, Zenon, ZenonT(40) DEF TypeInv, TypeOK
<1>2. MaskInv /\ ChildInv
  BY DEF MaskInv, ChildInv
<1>3. ForkLoopInv /\ KillLoopInv /\ WaitInv
  BY DEF ForkLoopInv, KillLoopInv, WaitInv
<1>4. AfterInv
  BY Zenon, ZenonT(40) DEF AfterInv
<1> QED
  BY <1>1, <1>2, <1>3, <1>4 DEF IInv

\* Every step of the parent or of a child keeps the inductive invariant.
LEMMA IInvStep == IInv /\ [Next]_vars => IInv'
<1> SUFFICES ASSUME IInv, [Next]_vars PROVE IInv'
  OBVIOUS
<1>0. TypeInv'
  BY TypeStep DEF IInv
<1> USE NumProgsAssumption, <1>0
        DEF IInv, TypeInv, TypeOK, MaskInv, ChildInv, ForkLoopInv, KillLoopInv, AfterInv,
            WaitInv, Parked, Reported, Child, Process, Parent
<1>1. CASE RunBenchmarks
  <2>0. pc' # "dead"
    BY <1>1 DEF RunBenchmarks, Enter
  <2>1. MaskInv'
    BY <1>1 DEF RunBenchmarks, Enter
  <2>2. ChildInv'
    BY <1>1 DEF RunBenchmarks, Enter
  <2>3. ForkLoopInv'
    BY <1>1 DEF RunBenchmarks, Enter
  <2>4. KillLoopInv'
    BY <1>1 DEF RunBenchmarks, Enter
  <2>5. AfterInv'
    BY <1>1 DEF RunBenchmarks, Enter
  <2>6. WaitInv'
    BY <1>1 DEF RunBenchmarks, Enter
  <2> QED
    BY <2>0, <2>1, <2>2, <2>3, <2>4, <2>5, <2>6
<1>2. CASE MallocFails
  BY <1>2, Zenon, ZenonT(40) DEF MallocFails, Enter
<1>3. CASE Fork
  <2>0. pc' # "dead"
    BY <1>3 DEF Fork
  <2>1. MaskInv'
    BY <1>3, ZenonT(40), ZenonT(60) DEF Fork
  <2>2. ChildInv'
    BY <1>3 DEF Fork
  <2>3. ForkLoopInv'
    BY <1>3 DEF Fork
  <2>4. KillLoopInv'
    BY <1>3 DEF Fork
  <2>5. AfterInv'
    BY <1>3 DEF Fork
  <2>6. WaitInv'
    BY <1>3 DEF Fork
  <2> QED
    BY <2>0, <2>1, <2>2, <2>3, <2>4, <2>5, <2>6
<1>4. CASE ForkFails
  BY <1>4 DEF ForkFails
<1>5. CASE AwaitChildUp
  BY <1>5 DEF AwaitChildUp
<1>6. CASE KillChild
  BY <1>6 DEF KillChild
<1>7. CASE KillFails
  BY <1>7 DEF KillFails
<1>8. CASE WaitBenchmarks
  BY <1>8 DEF WaitBenchmarks
<1>9. CASE WaitPid
  <2>0. pc' # "dead"
    BY <1>9 DEF WaitPid
  <2>1. MaskInv'
    BY <1>9 DEF WaitPid
  <2>2. ChildInv'
    BY <1>9 DEF WaitPid
  <2>3. ForkLoopInv'
    BY <1>9 DEF WaitPid
  <2>4. KillLoopInv'
    BY <1>9 DEF WaitPid
  <2>5. AfterInv'
    BY <1>9 DEF WaitPid
  <2>6. WaitInv'
    BY <1>9 DEF WaitPid
  <2> QED
    BY <2>0, <2>1, <2>2, <2>3, <2>4, <2>5, <2>6
<1>10. ASSUME NEW c \in Child, ChildSetup(c) PROVE IInv'
  BY <1>10, SMTT(30), SMTT(60) DEF ChildSetup, parentVars
<1>11. ASSUME NEW c \in Child, ChildUp(c) PROVE IInv'
  <2>a. pc = "await" /\ c = prog
    BY <1>11 DEF ChildUp, ParentState
  <2>b. blocked[Parent]
    BY <2>a
  <2>0. pc' # "dead"
    BY <1>11, <2>b DEF ChildUp
  <2>1. MaskInv'
    BY <1>11, <2>a, <2>b DEF ChildUp
  <2>2. ChildInv'
    BY <1>11 DEF ChildUp
  <2>3. ForkLoopInv'
    BY <1>11 DEF ChildUp
  <2>4. KillLoopInv'
    BY <1>11 DEF ChildUp
  <2>5. AfterInv'
    BY <1>11 DEF ChildUp
  <2>6. WaitInv'
    BY <1>11, SMTT(30), SMTT(60) DEF ChildUp
  <2> QED
    BY <2>0, <2>1, <2>2, <2>3, <2>4, <2>5, <2>6
<1>12. ASSUME NEW c \in Child, ChildAwait(c) PROVE IInv'
  BY <1>12, SMTT(30), SMTT(60) DEF ChildAwait, parentVars
<1>13. ASSUME NEW c \in Child, ChildExec(c) PROVE IInv'
  BY <1>13, SMTT(30), SMTT(60) DEF ChildExec, parentVars
<1>14. ASSUME NEW c \in Child, ChildExit(c) PROVE IInv'
  BY <1>14 DEF ChildExit, parentVars
<1>15. CASE UNCHANGED vars
  BY <1>15 DEF vars
<1> QED
  BY <1>1, <1>2, <1>3, <1>4, <1>5, <1>6, <1>7, <1>8, <1>9, <1>10, <1>11, <1>12, <1>13, <1>14, <1>15, Zenon, ZenonT(40) DEF Next, ParentStep, ChildStep

\* The invariant holds in every state of the start-up protocol.
LEMMA Invariance == Spec => []IInv
  BY InitIInv, IInvStep, PTL DEF Spec

-----------------------------------------------------------------------------
\* Type correctness of the session: parent, children and signal state.
THEOREM TypeCorrect == Spec => []TypeOK
<1>1. IInv => TypeOK
  BY DEF IInv, TypeInv
<1> QED
  BY <1>1, Invariance, PTL

\* run_benchmarks starts no test program before all children are forked,
\* pinned and have reported.
THEOREM StartsTogether == Spec => []StartTogether
<1>1. IInv => StartTogether
  BY DEF IInv, TypeInv, TypeOK, ParentState, ChildInv, ForkLoopInv, AfterInv, Parked,
         Reported, Released, StartTogether, Child
<1> QED
  BY <1>1, Invariance, PTL

\* No process of the session is ever terminated by SIGUSR1.
THEOREM SignalSafety == Spec => []NoSignalDeath
<1>1. IInv => NoSignalDeath
  BY DEF IInv, ChildInv, NoSignalDeath
<1> QED
  BY <1>1, Invariance, PTL

\* A recorded pid is that of a child that has reported.
THEOREM RecordedReported == Spec => []RecordedChildReported
<1>1. IInv => RecordedChildReported
  BY DEF IInv, TypeInv, TypeOK, ParentState, ChildInv, ForkLoopInv, AfterInv, Parked,
         Reported, RecordedChildReported, Child
<1> QED
  BY <1>1, Invariance, PTL

\* waitpid is given an indeterminate pid only when there is no child, and
\* the caller gets control back only when no child is left.
THEOREM WaitSafety == Spec => [](NoIndeterminateWait /\ RoundEndsClean)
<1>1. IInv => NoIndeterminateWait /\ RoundEndsClean
  BY NumProgsAssumption
  DEF IInv, TypeInv, TypeOK, AfterInv, WaitInv, NoIndeterminateWait, RoundEndsClean, Child
<1> QED
  BY <1>1, Invariance, PTL

\* No SIGUSR1 is sent to a process that still has one pending.
THEOREM NoneMerged == Spec => NoSignalMerged
<1>1. IInv => /\ \A c \in Child : ChildUp(c) => ~pending[Parent]
              /\ KillChild => ~pending[prog]
  <2> SUFFICES ASSUME IInv PROVE /\ \A c \in Child : ChildUp(c) => ~pending[Parent]
                                 /\ KillChild => ~pending[prog]
    OBVIOUS
  <2>1. ASSUME NEW c \in Child, ChildUp(c) PROVE ~pending[Parent]
    BY <2>1 DEF IInv, TypeInv, TypeOK, ChildUp, MaskInv, ForkLoopInv, Parked, Child
  <2>2. KillChild => ~pending[prog]
    BY SMTT(30), SMTT(60) DEF IInv, TypeInv, TypeOK, KillChild, KillLoopInv, Parked, Child
  <2> QED
    BY <2>1, <2>2
<1> QED
  BY <1>1, Invariance, PTL DEF Spec, NoSignalMerged

-----------------------------------------------------------------------------
(* Refinement of the abstract barrier. *)

\* Every step of the session is a step of the abstract start barrier or
\* leaves the barrier's state alone.
LEMMA BarrierStep == IInv /\ IInv' /\ [Next]_vars => [Barrier!Next]_(Barrier!vars)
<1> SUFFICES ASSUME IInv, IInv', [Next]_vars PROVE [Barrier!Next]_(Barrier!vars)
  OBVIOUS
<1> USE NumProgsAssumption
        DEF IInv, TypeInv, TypeOK, ParentState, ChildInv, ForkLoopInv, KillLoopInv, AfterInv,
            WaitInv, Parked, Reported, Child, ProgramState, Barrier!vars
<1>1. CASE RunBenchmarks
  <2>1. CASE childpids = Child
    <3>1. \A c \in Child : ProgramState(c) = "over" /\ ProgramState(c)' = "out"
      BY <1>1, <2>1 DEF RunBenchmarks, Enter
    <3>2. childpids' # Child
      BY <1>1, Zenon, ZenonT(40) DEF RunBenchmarks, Enter
    <3> QED
      BY <2>1, <3>1, <3>2 DEF Barrier!Next, Barrier!Reset, Barrier!Init
  <2>2. CASE childpids # Child
    <3>1. \A c \in Child : ProgramState(c) = "out" /\ ProgramState(c)' = "out"
      BY <1>1, <2>2 DEF RunBenchmarks, Enter
    <3>2. childpids' # Child
      BY <1>1, Zenon, ZenonT(40) DEF RunBenchmarks, Enter
    <3> QED
      BY <2>2, <3>1, <3>2
  <2> QED
    BY <2>1, <2>2
<1>2. CASE MallocFails
  <2>1. CASE childpids = Child
    <3>1. \A c \in Child : ProgramState(c) = "over" /\ ProgramState(c)' = "out"
      BY <1>2, <2>1, SMTT(30), SMTT(60) DEF MallocFails, Enter
    <3>2. childpids' # Child
      BY <1>2, SMTT(30), SMTT(60) DEF MallocFails, Enter
    <3> QED
      BY <2>1, <3>1, <3>2 DEF Barrier!Next, Barrier!Reset, Barrier!Init
  <2>2. CASE childpids # Child
    <3>1. \A c \in Child : ProgramState(c) = "out" /\ ProgramState(c)' = "out"
      BY <1>2, <2>2 DEF MallocFails, Enter
    <3>2. childpids' # Child
      BY <1>2 DEF MallocFails, Enter
    <3> QED
      BY <2>2, <3>1, <3>2
  <2> QED
    BY <2>1, <2>2
<1>3. CASE Fork
  BY <1>3 DEF Fork
<1>4. CASE ForkFails
  BY <1>4 DEF ForkFails
<1>5. CASE AwaitChildUp
  <2>1. \A c \in Child : ProgramState(c)' = ProgramState(c)
    BY <1>5 DEF AwaitChildUp
  <2>2. CASE prog < NumProgs
    BY <1>5, <2>1, <2>2 DEF AwaitChildUp
  <2>3. CASE ~(prog < NumProgs)
    <3>1. childpids # Child /\ childpids' = Child
      BY <1>5, <2>3 DEF AwaitChildUp
    <3>2. \A c \in Child : ProgramState(c) = "ready"
      BY <1>5, <2>3 DEF AwaitChildUp, MaskInv
    <3> QED
      BY <2>1, <3>1, <3>2, SMTT(30), SMTT(60) DEF Barrier!Next, Barrier!Open
  <2> QED
    BY <2>2, <2>3, SMTT(30), SMTT(60)
<1>6. CASE KillChild
  BY <1>6 DEF KillChild
<1>7. CASE KillFails
  BY <1>7 DEF KillFails
<1>8. CASE WaitBenchmarks
  BY <1>8 DEF WaitBenchmarks
<1>9. CASE WaitPid
  BY <1>9 DEF WaitPid
<1>10. ASSUME NEW c \in Child, ChildSetup(c) PROVE [Barrier!Next]_(Barrier!vars)
  BY <1>10 DEF ChildSetup, parentVars
<1>11. ASSUME NEW c \in Child, ChildUp(c) PROVE [Barrier!Next]_(Barrier!vars)
  <2>1. childpids # Child /\ UNCHANGED childpids
    BY <1>11 DEF ChildUp
  <2>2. \A d \in Child \ {c} : ProgramState(d)' = ProgramState(d)
    BY <1>11 DEF ChildUp
  <2>3. ProgramState(c) = "out" /\ ProgramState(c)' = "ready"
    BY <1>11 DEF ChildUp
  <2> HIDE DEF IInv, ProgramState, Child
  <2>4. Barrier!Arrive(c)
    BY <2>1, <2>2, <2>3, Zenon, ZenonT(40) DEF Barrier!Arrive
  <2> QED
    BY <2>4, SMTT(30), SMTT(60) DEF Barrier!Next
<1>12. ASSUME NEW c \in Child, ChildAwait(c) PROVE [Barrier!Next]_(Barrier!vars)
  BY <1>12 DEF ChildAwait, parentVars
<1>13. ASSUME NEW c \in Child, ChildExec(c) PROVE [Barrier!Next]_(Barrier!vars)
  <2>1. childpids = Child /\ UNCHANGED childpids
    BY <1>13 DEF ChildExec, parentVars
  <2>2. \A d \in Child \ {c} : ProgramState(d)' = ProgramState(d)
    BY <1>13 DEF ChildExec, parentVars
  <2>3. ProgramState(c) = "ready" /\ ProgramState(c)' \in {"running", "over"}
    BY <1>13 DEF ChildExec, parentVars
  <2> HIDE DEF IInv, ProgramState, Child
  <2>4. Barrier!Start(c) \/ Barrier!Leave(c)
    BY <2>1, <2>2, <2>3, Zenon, ZenonT(40) DEF Barrier!Start, Barrier!Leave
  <2> QED
    BY <2>4, SMTT(30), SMTT(60) DEF Barrier!Next
<1>14. ASSUME NEW c \in Child, ChildExit(c) PROVE [Barrier!Next]_(Barrier!vars)
  <2>1. UNCHANGED childpids
    BY <1>14 DEF ChildExit, parentVars
  <2>2. \A d \in Child \ {c} : ProgramState(d)' = ProgramState(d)
    BY <1>14, SMTT(30), SMTT(60) DEF ChildExit, parentVars
  <2>3. ProgramState(c)' = IF ProgramState(c) = "running" THEN "over" ELSE ProgramState(c)
    BY <1>14 DEF ChildExit, parentVars
  <2>4. ProgramState(c) = "running" => childpids = Child
    BY <1>14 DEF ChildExit
  <2> HIDE DEF IInv, ProgramState, Child
  <2>5. CASE ProgramState(c) = "running"
    <3>1. Barrier!Leave(c)
      BY <2>1, <2>2, <2>3, <2>4, <2>5, Zenon, ZenonT(40) DEF Barrier!Leave
    <3> QED
      BY <3>1 DEF Barrier!Next
  <2>6. CASE ProgramState(c) # "running"
    BY <2>1, <2>2, <2>3, <2>6, SMTT(30), SMTT(60)
  <2> QED
    BY <2>5, <2>6, SMTT(30), SMTT(60)
<1>15. CASE UNCHANGED vars
  BY <1>15 DEF vars
<1> QED
  BY <1>1, <1>2, <1>3, <1>4, <1>5, <1>6, <1>7, <1>8, <1>9, <1>10, <1>11, <1>12, <1>13, <1>14, <1>15, SMTT(30), SMTT(60) DEF Next, ParentStep, ChildStep

\* The rendezvous implements the abstract start barrier.
THEOREM ImplementsBarrier == Spec => BarrierSpec
<1>1. Init => Barrier!Init
  BY NumProgsAssumption DEF Init, Barrier!Init, ProgramState, Child
<1> QED
  BY <1>1, BarrierStep, Invariance, PTL DEF Spec, BarrierSpec, Barrier!Spec

-----------------------------------------------------------------------------
(* The pointer chase.  The history variable path turns the assertions, which
speak of what following the pointers leads to, into facts about positions:
entry path[i] points to entry path[i + 1], and no entry has two positions. *)

Placed == IF stage = "link" THEN count ELSE len

PathInv ==
  /\ path[0] = 0
  /\ \A i \in 0..(Placed - 1) : path[i] \in Idx
  /\ \A i, j \in 0..(Placed - 1) : path[i] = path[j] => i = j
  /\ \A i \in 0..(Placed - 2) : arr[path[i]] = path[i + 1]

LinkInv ==
  stage = "link" =>
    /\ curr = path[count - 1]
    /\ \A k \in Idx : (\A i \in 0..(count - 2) : path[i] # k) => arr[k] = NULL

RingInv == stage # "link" => arr[path[len - 1]] = 0

WalkInv ==
  /\ stage \in {"check", "walk"} => len > 1
  /\ stage = "walk" => curr = path[count - 1]

ChaseInv ==
  stage = "chase" =>
    \E k \in Idx : curr = path[k] /\ touched = {path[i] : i \in 0..(k - 1)}

\* The inductive invariant.
ChaseIInv ==
  /\ ChaseTypeOK /\ NoAssertFails /\ PathInv /\ LinkInv /\ RingInv
  /\ WalkInv /\ ChaseInv /\ RequestTouchesAll

-----------------------------------------------------------------------------
\* The number of entries of an array of n.
LEMMA SizeOfInterval ==
  ASSUME NEW n \in Nat
  PROVE  IsFiniteSet(0..(n - 1)) /\ Cardinality(0..(n - 1)) = n
<1>1. 0 \in Int /\ n - 1 \in Int
  OBVIOUS
<1>2. /\ IsFiniteSet(0..(n - 1))
      /\ Cardinality(0..(n - 1)) = IF 0 > n - 1 THEN 0 ELSE (n - 1) - 0 + 1
  BY <1>1, FS_Interval, Zenon, ZenonT(40)
<1>3. (IF 0 > n - 1 THEN 0 ELSE (n - 1) - 0 + 1) = n
  OBVIOUS
<1> QED BY <1>2, <1>3

\* Entries at distinct positions leave an entry without a position as long
\* as there are fewer positions than entries.
LEMMA Unplaced ==
  ASSUME NEW n \in Nat, NEW m \in 0..(n - 1), NEW f,
         \A i \in 0..(m - 1) : f[i] \in 0..(n - 1)
  PROVE  \E k \in 0..(n - 1) : \A i \in 0..(m - 1) : f[i] # k
<1> SUFFICES ASSUME \A k \in 0..(n - 1) : \E i \in 0..(m - 1) : f[i] = k PROVE FALSE
  OBVIOUS
<1> DEFINE g == [k \in 0..(n - 1) |-> CHOOSE i \in 0..(m - 1) : f[i] = k]
<1>1. \A k \in 0..(n - 1) : g[k] \in 0..(m - 1) /\ f[g[k]] = k
  OBVIOUS
<1>2. g \in [0..(n - 1) -> 0..(m - 1)]
  BY <1>1
<1>3. /\ IsFiniteSet(0..(n - 1)) /\ Cardinality(0..(n - 1)) = n
      /\ IsFiniteSet(0..(m - 1)) /\ Cardinality(0..(m - 1)) = m
  <2>1. m \in Nat
    OBVIOUS
  <2> QED BY <2>1, SizeOfInterval
<1> HIDE DEF g
<1>4. \E x, y \in 0..(n - 1) : x # y /\ g[x] = g[y]
  <2> DEFINE S == 0..(n - 1)
             T == 0..(m - 1)
  <2>1. g \in [S -> T] /\ IsFiniteSet(S) /\ IsFiniteSet(T) /\ Cardinality(T) < Cardinality(S)
    BY <1>2, <1>3, SMTT(30), SMTT(60)
  <2> HIDE DEF S, T
  <2>2. \E x, y \in S : x # y /\ g[x] = g[y]
    BY <2>1, FS_PigeonHole
  <2> QED BY <2>2 DEF S
<1> QED BY <1>1, <1>4

\* When there are as many positions as entries, every entry has one.
LEMMA AllPlaced ==
  ASSUME NEW n \in Nat \ {0}, NEW f,
         \A i \in 0..(n - 1) : f[i] \in 0..(n - 1),
         \A i, j \in 0..(n - 1) : f[i] = f[j] => i = j
  PROVE  \A k \in 0..(n - 1) : \E i \in 0..(n - 1) : f[i] = k
<1> DEFINE g == [i \in 0..(n - 1) |-> f[i]]
<1>1. g \in Injection(0..(n - 1), 0..(n - 1))
  BY DEF Injection, IsInjective
<1>2. IsFiniteSet(0..(n - 1))
  BY SizeOfInterval, Zenon, ZenonT(40)
<1> HIDE DEF g
<1>3. g \in Surjection(0..(n - 1), 0..(n - 1))
  BY <1>1, <1>2, FS_Injection
<1>4. \A k \in 0..(n - 1) : \E i \in 0..(n - 1) : g[i] = k
  BY <1>3 DEF Surjection
<1> QED BY <1>4 DEF g

-----------------------------------------------------------------------------
\* ptrchase_setup begins with an array of zeros.
LEMMA ChaseStart == ChaseInit => ChaseIInv
<1> SUFFICES ASSUME ChaseInit PROVE ChaseIInv
  OBVIOUS
<1> USE LensAssumption DEF ChaseInit, Idx, Ptr, NULL
<1>1. len \in Nat /\ len >= 1
  OBVIOUS
<1>2. ChaseTypeOK
  BY <1>1 DEF ChaseTypeOK
<1>3. PathInv
  BY <1>1 DEF PathInv, Placed
<1>4. LinkInv
  BY <1>1 DEF LinkInv
<1> QED BY <1>2, <1>3, <1>4 DEF ChaseIInv, NoAssertFails, RingInv, WalkInv, ChaseInv, RequestTouchesAll

\* Placing, linking, checking and following of entries keep the invariant.
LEMMA ChaseStep == ChaseIInv /\ [ChaseNext]_chasevars => ChaseIInv'
<1> SUFFICES ASSUME ChaseIInv, [ChaseNext]_chasevars PROVE ChaseIInv'
  OBVIOUS
<1>0. len \in Nat \ {0} /\ len \in Lens
  BY LensAssumption DEF ChaseIInv, ChaseTypeOK
<1> USE <1>0 DEF Idx, Ptr, NULL
<1>1. CASE SelfLoop
  <2>1. ChaseTypeOK'
    BY <1>1 DEF SelfLoop, ChaseIInv, ChaseTypeOK
  <2>2. PathInv'
    BY <1>1 DEF SelfLoop, ChaseIInv, ChaseTypeOK, PathInv, Placed
  <2>3. RingInv'
    BY <1>1 DEF SelfLoop, ChaseIInv, ChaseTypeOK, PathInv, Placed, RingInv
  <2> QED BY <1>1, <2>1, <2>2, <2>3
          DEF SelfLoop, ChaseIInv, NoAssertFails, LinkInv, WalkInv, ChaseInv, RequestTouchesAll
<1>2. CASE Link
  <2>1. PICK tgt \in Idx :
          /\ tgt # curr /\ arr[tgt] = NULL
          /\ arr' = [arr EXCEPT ![curr] = tgt]
          /\ path' = [path EXCEPT ![count] = tgt]
          /\ curr' = tgt
    BY <1>2, Zenon, ZenonT(40) DEF Link
  <2>2. /\ stage = "link" /\ stage' = "link" /\ len' = len /\ count < len /\ count' = count + 1
        /\ touched' = touched /\ count \in 1..(len - 1)
    BY <1>2 DEF Link, ChaseIInv, ChaseTypeOK
  <2>3. arr \in [Idx -> Ptr] /\ path \in [Idx -> Ptr] /\ curr \in Idx
    BY DEF ChaseIInv, ChaseTypeOK
  <2>4. ChaseTypeOK'
    <3>1. arr' \in [Idx -> Ptr] /\ path' \in [Idx -> Ptr]
      BY <2>1, <2>2, <2>3
    <3> QED BY <2>1, <2>2, <3>1 DEF ChaseIInv, ChaseTypeOK
  <2>5. \A i \in 0..(count - 1) : path'[i] = path[i]
    BY <2>1, <2>2, <2>3
  <2>6. path'[count] = tgt
    BY <2>1, <2>2, <2>3
  <2>7. \A i \in 0..(count - 1) : path[i] # tgt
    <3>1. \A i \in 0..(count - 2) : arr[path[i]] # NULL
      BY <2>2 DEF ChaseIInv, PathInv, Placed
    <3>2. curr = path[count - 1]
      BY <2>2 DEF ChaseIInv, LinkInv
    <3> QED BY <2>1, <2>2, <3>1, <3>2, SMTT(30), SMTT(60)
  <2>8. \A i \in 0..(count - 2) : path[i] # curr
    BY <2>2 DEF ChaseIInv, PathInv, LinkInv, Placed
  <2>9. PathInv'
    <3>1. path'[0] = 0
      BY <2>2, <2>5 DEF ChaseIInv, PathInv
    <3>2. \A i \in 0..(count' - 1) : path'[i] \in Idx
      BY <2>1, <2>2, <2>5, <2>6, SMTT(30), SMTT(60) DEF ChaseIInv, PathInv, Placed
    <3>3. \A i, j \in 0..(count' - 1) : path'[i] = path'[j] => i = j
      BY <2>2, <2>5, <2>6, <2>7 DEF ChaseIInv, PathInv, Placed
    <3>4. \A i \in 0..(count' - 2) : arr'[path'[i]] = path'[i + 1]
      <4> SUFFICES ASSUME NEW i \in 0..(count - 1) PROVE arr'[path'[i]] = path'[i + 1]
        BY <2>2
      <4>1. CASE i = count - 1
        BY <2>1, <2>2, <2>3, <2>5, <2>6, <4>1 DEF ChaseIInv, LinkInv
      <4>2. CASE i \in 0..(count - 2)
        <5>1. path[i] # curr /\ arr[path[i]] = path[i + 1] /\ path[i] \in Idx
          BY <2>2, <2>8, <4>2 DEF ChaseIInv, PathInv, Placed
        <5>2. arr'[path[i]] = arr[path[i]]
          BY <2>1, <2>3, <5>1
        <5> QED BY <2>2, <2>5, <4>2, <5>1, <5>2
      <4> QED BY <4>1, <4>2, <2>2
    <3> QED BY <2>2, <3>1, <3>2, <3>3, <3>4 DEF PathInv, Placed
  <2>10. LinkInv'
    <3>1. curr' = path'[count' - 1]
      BY <2>1, <2>2, <2>6
    <3>2. ASSUME NEW k \in Idx, \A i \in 0..(count - 1) : path'[i] # k PROVE arr'[k] = NULL
      <4>1. k # curr
        BY <3>2, <2>2, <2>5 DEF ChaseIInv, LinkInv
      <4>2. arr[k] = NULL
        BY <3>2, <2>2, <2>5, SMTT(30), SMTT(60) DEF ChaseIInv, LinkInv
      <4> QED BY <2>1, <2>3, <4>1, <4>2
    <3> QED BY <2>2, <3>1, <3>2 DEF LinkInv
  <2> QED BY <2>2, <2>4, <2>9, <2>10
          DEF ChaseIInv, NoAssertFails, RingInv, WalkInv, ChaseInv, RequestTouchesAll
<1>3. CASE Close
  <2>1. /\ stage = "link" /\ stage' = "check" /\ len > 1 /\ count = len
        /\ arr' = [arr EXCEPT ![curr] = 0]
        /\ curr = path[len - 1]
        /\ UNCHANGED <<len, curr, count, path, touched>>
    BY <1>3 DEF Close, ChaseIInv, LinkInv
  <2>2. arr \in [Idx -> Ptr] /\ path \in [Idx -> Ptr] /\ curr \in Idx
    BY DEF ChaseIInv, ChaseTypeOK
  <2>3. ChaseTypeOK'
    BY <2>1, <2>2 DEF ChaseIInv, ChaseTypeOK
  <2>4. \A i \in 0..(len - 2) : path[i] # curr /\ arr[path[i]] = path[i + 1] /\ path[i] \in Idx
    BY <2>1 DEF ChaseIInv, PathInv, Placed
  <2>5. \A i \in 0..(len - 2) : arr'[path[i]] = path[i + 1]
    BY <2>1, <2>2, <2>4
  <2>6. PathInv'
    BY <2>1, <2>5 DEF ChaseIInv, PathInv, Placed
  <2>7. RingInv'
    BY <2>1, <2>2 DEF RingInv
  <2> QED BY <2>1, <2>3, <2>6, <2>7
          DEF ChaseIInv, NoAssertFails, LinkInv, WalkInv, ChaseInv, RequestTouchesAll
<1> DEFINE Same == UNCHANGED <<len, arr, path>>
<1>S. ASSUME Same, stage # "link", stage' # "link" PROVE PathInv' /\ LinkInv' /\ RingInv'
  BY <1>S DEF ChaseIInv, PathInv, LinkInv, RingInv, Placed
<1>R. ASSUME stage # "link"
      PROVE  /\ \A k \in Idx : \E i \in Idx : path[i] = k
             /\ \A i \in Idx : path[i] \in Idx
             /\ \A i, j \in Idx : path[i] = path[j] => i = j
             /\ \A i \in 0..(len - 2) : arr[path[i]] = path[i + 1]
             /\ arr[path[len - 1]] = 0 /\ path[0] = 0
  <2>1. /\ \A i \in Idx : path[i] \in Idx
        /\ \A i, j \in Idx : path[i] = path[j] => i = j
        /\ \A i \in 0..(len - 2) : arr[path[i]] = path[i + 1]
        /\ arr[path[len - 1]] = 0 /\ path[0] = 0
    BY <1>R DEF ChaseIInv, PathInv, RingInv, Placed
  <2>2. \A k \in Idx : \E i \in Idx : path[i] = k
    BY <2>1, AllPlaced
  <2> QED BY <2>1, <2>2
<1>4. CASE CheckEntries
  <2>1. stage = "check" /\ len > 1
    BY <1>4 DEF CheckEntries, ChaseIInv, WalkInv
  <2>2. ASSUME NEW k \in Idx PROVE arr[k] \in Idx \ {k}
    <3>1. PICK i \in Idx : path[i] = k
      BY <2>1, <1>R
    <3>2. CASE i = len - 1
      <4>1. arr[k] = path[0] /\ path[0] = 0
        BY <2>1, <1>R, <3>1, <3>2
      <4>2. k # 0
        BY <2>1, <1>R, <3>1, <3>2
      <4> QED BY <4>1, <4>2
    <3>3. CASE i \in 0..(len - 2)
      <4>1. arr[k] = path[i + 1] /\ i + 1 \in Idx /\ i + 1 # i
        BY <2>1, <1>R, <3>1, <3>3
      <4>2. path[i + 1] \in Idx /\ path[i + 1] # path[i]
        BY <2>1, <1>R, <4>1
      <4> QED BY <3>1, <4>1, <4>2
    <3> QED BY <3>2, <3>3
  <2>3. /\ stage' = "walk" /\ curr' = 0 /\ count' = 1
        /\ UNCHANGED <<len, arr, path, touched>>
    BY <1>4, <2>2 DEF CheckEntries
  <2>4. PathInv' /\ LinkInv' /\ RingInv'
    BY <1>S, <2>1, <2>3
  <2>5. ChaseTypeOK'
    BY <2>1, <2>3 DEF ChaseIInv, ChaseTypeOK
  <2>6. WalkInv'
    <3>1. path[0] = 0
      BY <2>1, <1>R
    <3> QED BY <2>1, <2>3, <3>1 DEF WalkInv
  <2> QED BY <2>3, <2>4, <2>5, <2>6 DEF ChaseIInv, NoAssertFails, ChaseInv, RequestTouchesAll
<1>5. CASE CheckWalk
  <2>1. /\ stage = "walk" /\ count \in 1..(len - 1) /\ curr' = arr[curr] /\ count' = count + 1
        /\ UNCHANGED <<len, arr, path, touched>>
        /\ curr = path[count - 1] /\ len > 1
    BY <1>5 DEF CheckWalk, ChaseIInv, ChaseTypeOK, WalkInv
  <2>2. arr[curr] = path[count]
    BY <2>1, <1>R
  <2>3. path[count] \in Idx /\ path[count] # 0
    BY <2>1, <1>R
  <2>4. stage' = "walk"
    BY <1>5, <2>2, <2>3 DEF CheckWalk
  <2>5. PathInv' /\ LinkInv' /\ RingInv'
    BY <1>S, <2>1, <2>4
  <2>6. ChaseTypeOK' /\ WalkInv'
    BY <2>1, <2>2, <2>3, <2>4, SMTT(30), SMTT(60) DEF ChaseIInv, ChaseTypeOK, WalkInv
  <2> QED BY <2>4, <2>5, <2>6 DEF ChaseIInv, NoAssertFails, ChaseInv, RequestTouchesAll
<1>6. CASE CheckLast
  <2>1. /\ stage = "walk" /\ count = len /\ UNCHANGED <<len, arr, curr, count, path, touched>>
        /\ curr = path[len - 1]
    BY <1>6 DEF CheckLast, ChaseIInv, WalkInv
  <2>2. stage' = "recv"
    BY <1>6, <2>1, <1>R DEF CheckLast
  <2>3. PathInv' /\ LinkInv' /\ RingInv'
    BY <1>S, <2>1, <2>2
  <2>4. ChaseTypeOK'
    BY <2>1, <2>2 DEF ChaseIInv, ChaseTypeOK
  <2> QED BY <2>2, <2>3, <2>4 DEF ChaseIInv, NoAssertFails, WalkInv, ChaseInv, RequestTouchesAll
<1>7. CASE Receive
  <2>1. /\ stage = "recv" /\ stage' = "chase" /\ curr' = 0 /\ touched' = {}
        /\ UNCHANGED <<len, arr, count, path>>
    BY <1>7 DEF Receive
  <2>2. PathInv' /\ LinkInv' /\ RingInv'
    BY <1>S, <2>1
  <2>3. ChaseTypeOK'
    BY <2>1 DEF ChaseIInv, ChaseTypeOK
  <2>4. ChaseInv'
    <3>1. curr' = path[0] /\ touched' = {path[i] : i \in 0..(0 - 1)}
      BY <2>1, <1>R
    <3> QED BY <2>1, <3>1 DEF ChaseInv
  <2> QED BY <2>1, <2>2, <2>3, <2>4 DEF ChaseIInv, NoAssertFails, WalkInv, RequestTouchesAll
<1>8. CASE Chase
  <2>1. /\ stage = "chase" /\ touched' = touched \cup {curr} /\ curr' = arr[curr]
        /\ stage' = IF arr[curr] = 0 THEN "reply" ELSE "chase"
        /\ UNCHANGED <<len, arr, count, path>>
    BY <1>8 DEF Chase
  <2>2. PICK k \in Idx : curr = path[k] /\ touched = {path[i] : i \in 0..(k - 1)}
    BY <2>1 DEF ChaseIInv, ChaseInv
  <2>3. PathInv' /\ LinkInv' /\ RingInv'
    BY <1>S, <2>1
  <2>4. touched' = {path[i] : i \in 0..k}
    BY <2>1, <2>2
  <2>5. CASE k = len - 1
    <3>1. arr[curr] = 0 /\ stage' = "reply"
      BY <2>1, <2>2, <2>5, <1>R
    <3>2. touched' = Idx
      <4>1. touched' = {path[i] : i \in Idx}
        BY <2>4, <2>5
      <4>2. \A i \in Idx : path[i] \in Idx
        BY <2>1, <1>R
      <4>3. \A k0 \in Idx : \E i \in Idx : path[i] = k0
        BY <2>1, <1>R
      <4> QED BY <4>1, <4>2, <4>3
    <3>3. ChaseTypeOK'
      BY <2>1, <3>1, <3>2 DEF ChaseIInv, ChaseTypeOK
    <3> QED BY <2>1, <2>3, <3>1, <3>2, <3>3, SMTT(30), SMTT(60)
            DEF ChaseIInv, NoAssertFails, WalkInv, ChaseInv, RequestTouchesAll
  <2>6. CASE k \in 0..(len - 2)
    <3>1. arr[curr] = path[k + 1] /\ path[k + 1] \in Idx /\ path[k + 1] # 0
      BY <2>1, <2>2, <2>6, <1>R, SMTT(30), SMTT(60)
    <3>2. stage' = "chase" /\ curr' = path[k + 1]
      BY <2>1, <3>1
    <3>3. ChaseTypeOK'
      <4>1. touched' \in SUBSET Idx
        BY <2>1, <2>2 DEF ChaseIInv, ChaseTypeOK
      <4> QED BY <2>1, <3>1, <3>2, <4>1, SMTT(30), SMTT(60) DEF ChaseIInv, ChaseTypeOK
    <3>4. ChaseInv'
      <4>1. k + 1 \in Idx /\ touched' = {path[i] : i \in 0..((k + 1) - 1)}
        BY <2>4, <2>6, SMTT(30), SMTT(60)
      <4> QED BY <2>1, <3>2, <4>1 DEF ChaseInv
    <3> QED BY <2>3, <3>2, <3>3, <3>4, SMTT(30), SMTT(60) DEF ChaseIInv, NoAssertFails, WalkInv, RequestTouchesAll
  <2> QED BY <2>5, <2>6
<1>9. CASE Reply
  <2>1. stage = "reply" /\ stage' = "recv" /\ UNCHANGED <<len, arr, curr, count, path, touched>>
    BY <1>9 DEF Reply
  <2>2. PathInv' /\ LinkInv' /\ RingInv'
    BY <1>S, <2>1
  <2> QED BY <2>1, <2>2
          DEF ChaseIInv, ChaseTypeOK, NoAssertFails, WalkInv, ChaseInv, RequestTouchesAll
<1>10. CASE UNCHANGED chasevars
  <2>1. ChaseTypeOK' /\ NoAssertFails' /\ RequestTouchesAll'
    BY <1>10, SMTT(30), SMTT(60) DEF chasevars, ChaseIInv, ChaseTypeOK, NoAssertFails, RequestTouchesAll
  <2>2. PathInv' /\ LinkInv' /\ RingInv'
    BY <1>10 DEF chasevars, ChaseIInv, PathInv, LinkInv, RingInv, Placed
  <2>3. WalkInv' /\ ChaseInv'
    BY <1>10 DEF chasevars, ChaseIInv, WalkInv, ChaseInv
  <2> QED BY <2>1, <2>2, <2>3 DEF ChaseIInv
<1> QED BY <1>1, <1>2, <1>3, <1>4, <1>5, <1>6, <1>7, <1>8, <1>9, <1>10, SMTT(30), SMTT(60)
        DEF ChaseNext, Setup, Serve

\* The invariant holds in every state of the pointer chase.
LEMMA ChaseInvariance == ChaseSpec => []ChaseIInv
BY ChaseStart, ChaseStep, PTL DEF ChaseSpec

-----------------------------------------------------------------------------
\* The variables of the server keep their types, for any array length.
THEOREM ChaseTypeCorrect == ChaseSpec => []ChaseTypeOK
BY ChaseInvariance, PTL DEF ChaseIInv

\* No assertion of ptrchase_setup can fail: whatever rand() draws, the loop
\* links all the entries into one cycle.
THEOREM AssertionsHold == ChaseSpec => []NoAssertFails
BY ChaseInvariance, PTL DEF ChaseIInv

\* The loop that looks for a free target always has one to find.
THEOREM TargetsSuffice == ChaseSpec => []TargetExists
<1>1. ChaseIInv => TargetExists
  <2> SUFFICES ASSUME ChaseIInv, stage = "link", count < len
               PROVE  \E tgt \in Idx : tgt # curr /\ arr[tgt] = NULL
    BY DEF TargetExists
  <2>1. len \in Nat /\ count \in 1..(len - 1)
    BY LensAssumption DEF ChaseIInv, ChaseTypeOK
  <2>2. \A i \in 0..(count - 1) : path[i] \in 0..(len - 1)
    BY DEF ChaseIInv, PathInv, Placed, Idx
  <2>3. PICK k \in 0..(len - 1) : \A i \in 0..(count - 1) : path[i] # k
    <3>1. count \in 0..(len - 1)
      BY <2>1
    <3> QED BY <2>1, <2>2, <3>1, Unplaced, ZenonT(40), ZenonT(60)
  <2>4. curr = path[count - 1] /\ count - 1 \in 0..(count - 1)
    BY <2>1 DEF ChaseIInv, LinkInv
  <2>5. k # curr
    BY <2>3, <2>4
  <2>6. arr[k] = NULL
    <3>1. \A i \in 0..(count - 2) : path[i] # k
      BY <2>1, <2>3
    <3> QED BY <3>1, <2>3 DEF ChaseIInv, LinkInv, Idx
  <2> QED BY <2>3, <2>5, <2>6 DEF Idx
<1> QED BY <1>1, ChaseInvariance, PTL

\* Every answer follows a read of the whole array.
THEOREM AllTouched == ChaseSpec => []RequestTouchesAll
BY ChaseInvariance, PTL DEF ChaseIInv

\* A request reads no entry twice, so it costs exactly len reads.
THEOREM ReadsOnce == ChaseSpec => ReadOnce
<1>1. ChaseIInv => (stage = "chase" => curr \notin touched)
  <2> SUFFICES ASSUME ChaseIInv, stage = "chase" PROVE curr \notin touched
    OBVIOUS
  <2>1. PICK k \in Idx : curr = path[k] /\ touched = {path[i] : i \in 0..(k - 1)}
    BY DEF ChaseIInv, ChaseInv
  <2>2. \A i, j \in Idx : path[i] = path[j] => i = j
    BY DEF ChaseIInv, PathInv, Placed, Idx
  <2>3. \A i \in 0..(k - 1) : i \in Idx /\ i # k
    BY LensAssumption DEF ChaseIInv, ChaseTypeOK, Idx
  <2> QED BY <2>1, <2>2, <2>3
<1> QED BY <1>1, ChaseInvariance, PTL DEF ReadOnce
=============================================================================
