--------------------------- MODULE BenchCommands ---------------------------
(***************************************************************************)
(* bench_commands.c: the parent of a benchmark session forks one child per *)
(* test program, lets each one pin itself and report, releases them all    *)
(* together and waits for them.  Both directions of the rendezvous use the *)
(* same signal, SIGUSR1, whose default action kills the receiver; its only *)
(* state in the kernel is one blocked and one pending bit per process.     *)
(*                                                                         *)
(* The caller is the loop of dist_a.c: run_benchmarks() then               *)
(* wait_benchmarks(), Rounds times, ignoring both results.                 *)
(***************************************************************************)
EXTENDS Integers, FiniteSets

CONSTANTS NumProgs,   \* num_test_progs
          Rounds,     \* how many times the caller runs the benchmarks
          Faults      \* which calls of the code the system may refuse

ASSUME NumProgsAssumption == NumProgs \in Nat \ {0}
ASSUME RoundsAssumption == Rounds \in Nat
ASSUME FaultsAssumption == Faults \subseteq {"malloc", "fork", "setup", "kill", "exec"}

Parent == 0
Child == 1..NumProgs
Process == {Parent} \cup Child

VARIABLES
  pc,         \* where the parent is
  prog,       \* its loop variable
  round,      \* rounds the caller has completed
  allocated,  \* childpids # NULL
  childpids,  \* the slots of childpids that hold a pid
  ret,        \* what run_benchmarks last returned
  waitret,    \* what wait_benchmarks last returned
  cstate,     \* the state of each child
  pinned,     \* has the child's sched_setaffinity succeeded
  blocked,    \* SIGUSR1 is in the process's signal mask
  pending     \* SIGUSR1 is pending for the process

vars == <<pc, prog, round, allocated, childpids, ret, waitret,
          cstate, pinned, blocked, pending>>

parentVars == <<pc, prog, round, allocated, childpids, ret, waitret>>

ParentState == {"caller", "fork", "await", "kill", "returned", "wait", "dead"}
ChildState == {"none", "setup", "pinned", "up", "go", "running", "diverted",
               "zombie", "reaped", "killed"}

TypeOK ==
  /\ pc \in ParentState
  /\ prog \in Child
  /\ round \in 0..Rounds
  /\ allocated \in BOOLEAN
  /\ childpids \in SUBSET Child
  /\ ret \in BOOLEAN
  /\ waitret \in {0, -1}
  /\ cstate \in [Child -> ChildState]
  /\ pinned \in [Child -> BOOLEAN]
  /\ blocked \in [Process -> BOOLEAN]
  /\ pending \in [Process -> BOOLEAN]

Init ==
  /\ pc = "caller"
  /\ prog = 1
  /\ round = 0
  /\ allocated = FALSE
  /\ childpids = {}
  /\ ret = TRUE
  /\ waitret = 0
  /\ cstate = [c \in Child |-> "none"]
  /\ pinned = [c \in Child |-> FALSE]
  /\ blocked = [p \in Process |-> FALSE]
  /\ pending = [p \in Process |-> FALSE]

-----------------------------------------------------------------------------
(* run_benchmarks, in the parent *)

\* The caller enters run_benchmarks; the children it forks will be new ones.
Enter ==
  /\ pc = "caller"
  /\ round < Rounds
  /\ childpids' = {}
  /\ cstate' = [c \in Child |-> "none"]
  /\ pinned' = [c \in Child |-> FALSE]

RunBenchmarks ==
  /\ Enter
  /\ allocated' = TRUE
  /\ prog' = 1
  /\ pc' = "fork"
  /\ UNCHANGED <<round, ret, waitret, blocked, pending>>

\* A failed malloc leaves childpids NULL and still returns true.
MallocFails ==
  /\ "malloc" \in Faults
  /\ Enter
  /\ allocated' = FALSE
  /\ ret' = TRUE
  /\ pc' = "returned"
  /\ UNCHANGED <<prog, round, waitret, blocked, pending>>

\* The signal is blocked before the fork, and the child inherits the mask.
Fork ==
  /\ pc = "fork"
  /\ cstate' = [cstate EXCEPT ![prog] = "setup"]
  /\ blocked' = [blocked EXCEPT ![Parent] = TRUE, ![prog] = TRUE]
  /\ pending' = [pending EXCEPT ![prog] = FALSE]
  /\ pc' = "await"
  /\ UNCHANGED <<prog, round, allocated, childpids, ret, waitret, pinned>>

ForkFails ==
  /\ "fork" \in Faults
  /\ pc = "fork"
  /\ blocked' = [blocked EXCEPT ![Parent] = TRUE]
  /\ ret' = FALSE
  /\ pc' = "returned"
  /\ UNCHANGED <<prog, round, allocated, childpids, waitret, cstate, pinned, pending>>

AwaitChildUp ==
  /\ pc = "await"
  /\ pending[Parent]
  /\ pending' = [pending EXCEPT ![Parent] = FALSE]
  /\ childpids' = childpids \cup {prog}
  /\ IF prog < NumProgs
       THEN pc' = "fork" /\ prog' = prog + 1
       ELSE pc' = "kill" /\ prog' = 1
  /\ UNCHANGED <<round, allocated, ret, waitret, cstate, pinned, blocked>>

\* Mutant: the release loop stops one child short.
KillAllButLast ==
  /\ pc = "kill"
  /\ pending' = [pending EXCEPT ![prog] = TRUE]
  /\ IF prog < NumProgs - 1
       THEN prog' = prog + 1 /\ UNCHANGED <<pc, ret>>
       ELSE pc' = "returned" /\ ret' = TRUE /\ UNCHANGED prog
  /\ UNCHANGED <<round, allocated, childpids, waitret, cstate, pinned, blocked>>

KillChild ==
  /\ pc = "kill"
  /\ IF blocked[prog]
       THEN pending' = [pending EXCEPT ![prog] = TRUE] /\ UNCHANGED cstate
       ELSE cstate' = [cstate EXCEPT ![prog] = "killed"] /\ UNCHANGED pending
  /\ IF prog < NumProgs
       THEN prog' = prog + 1 /\ UNCHANGED <<pc, ret>>
       ELSE pc' = "returned" /\ ret' = TRUE /\ UNCHANGED prog
  /\ UNCHANGED <<round, allocated, childpids, waitret, pinned, blocked>>

KillFails ==
  /\ "kill" \in Faults
  /\ pc = "kill"
  /\ ret' = FALSE
  /\ pc' = "returned"
  /\ UNCHANGED <<prog, round, allocated, childpids, waitret,
                 cstate, pinned, blocked, pending>>

-----------------------------------------------------------------------------
(* run_benchmarks, in the child.  A "diverted" child has taken one of the  *)
(* goto cleanup paths: it returns from run_benchmarks into the caller's    *)
(* code as a second copy of the controller.                                *)

ChildSetup(c) ==
  /\ cstate[c] = "setup"
  /\ \/ /\ pinned' = [pinned EXCEPT ![c] = TRUE]
        /\ cstate' = [cstate EXCEPT ![c] = "pinned"]
     \/ /\ "setup" \in Faults
        /\ cstate' = [cstate EXCEPT ![c] = "diverted"]
        /\ UNCHANGED pinned
  /\ UNCHANGED <<parentVars, blocked, pending>>

ChildUp(c) ==
  /\ cstate[c] = "pinned"
  /\ cstate' = [cstate EXCEPT ![c] = "up"]
  /\ IF blocked[Parent]
       THEN pending' = [pending EXCEPT ![Parent] = TRUE] /\ UNCHANGED pc
       ELSE pc' = "dead" /\ UNCHANGED pending
  /\ UNCHANGED <<prog, round, allocated, childpids, ret, waitret, pinned, blocked>>

\* Mutant: the child executes its program without awaiting the signal.
ChildAwaitsNothing(c) ==
  /\ cstate[c] = "up"
  /\ cstate' = [cstate EXCEPT ![c] = "go"]
  /\ UNCHANGED <<parentVars, pinned, blocked, pending>>

ChildAwait(c) ==
  /\ cstate[c] = "up"
  /\ pending[c]
  /\ pending' = [pending EXCEPT ![c] = FALSE]
  /\ cstate' = [cstate EXCEPT ![c] = "go"]
  /\ UNCHANGED <<parentVars, pinned, blocked>>

ChildExec(c) ==
  /\ cstate[c] = "go"
  /\ \/ cstate' = [cstate EXCEPT ![c] = "running"]
     \/ "exec" \in Faults /\ cstate' = [cstate EXCEPT ![c] = "diverted"]
  /\ UNCHANGED <<parentVars, pinned, blocked, pending>>

\* The benchmark itself, and the caller's code in a diverted child, end.
ChildExit(c) ==
  /\ cstate[c] \in {"running", "diverted"}
  /\ cstate' = [cstate EXCEPT ![c] = "zombie"]
  /\ UNCHANGED <<parentVars, pinned, blocked, pending>>

-----------------------------------------------------------------------------
(* wait_benchmarks *)

WaitBenchmarks ==
  /\ pc = "returned"
  /\ waitret' = 0
  /\ IF allocated
       THEN pc' = "wait" /\ prog' = 1 /\ UNCHANGED round
       ELSE pc' = "caller" /\ round' = round + 1 /\ UNCHANGED prog
  /\ UNCHANGED <<allocated, childpids, ret, cstate, pinned, blocked, pending>>

\* Mutant: waitpid does not block (WNOHANG).
WaitPidNoHang ==
  /\ pc = "wait"
  /\ IF prog \in childpids /\ cstate[prog] \in {"zombie", "killed"}
       THEN cstate' = [cstate EXCEPT ![prog] = "reaped"] /\ UNCHANGED waitret
       ELSE waitret' = -1 /\ UNCHANGED cstate
  /\ IF prog < NumProgs
       THEN prog' = prog + 1 /\ UNCHANGED <<pc, round, allocated>>
       ELSE /\ allocated' = FALSE
            /\ pc' = "caller"
            /\ round' = round + 1
            /\ UNCHANGED prog
  /\ UNCHANGED <<childpids, ret, pinned, blocked, pending>>

\* A slot that was never filled in is waited for too: slot 1 then holds the
\* pattern of the memset and the others what malloc returned.  The wait for
\* slot 1 blocks unless no child exists at all, and then every waitpid fails.
WaitPid ==
  /\ pc = "wait"
  /\ \/ /\ prog \in childpids
        /\ cstate[prog] \in {"zombie", "killed"}
        /\ cstate' = [cstate EXCEPT ![prog] = "reaped"]
        /\ UNCHANGED waitret
     \/ /\ prog \notin childpids
        /\ waitret' = -1
        /\ UNCHANGED cstate
  /\ IF prog < NumProgs
       THEN prog' = prog + 1 /\ UNCHANGED <<pc, round, allocated>>
       ELSE /\ allocated' = FALSE
            /\ pc' = "caller"
            /\ round' = round + 1
            /\ UNCHANGED prog
  /\ UNCHANGED <<childpids, ret, pinned, blocked, pending>>

-----------------------------------------------------------------------------
ParentStep ==
  \/ RunBenchmarks \/ MallocFails \/ Fork \/ ForkFails \/ AwaitChildUp
  \/ KillChild \/ KillFails \/ WaitBenchmarks \/ WaitPid

ChildStep(c) ==
  ChildSetup(c) \/ ChildUp(c) \/ ChildAwait(c) \/ ChildExec(c)

Next ==
  \/ ParentStep
  \/ \E c \in Child : ChildStep(c) \/ ChildExit(c)

\* The scheduler runs every process that can run, and a benchmark that was
\* started ends.  Nothing is assumed of a diverted child, which runs code of
\* the caller.
Fairness ==
  /\ WF_vars(ParentStep)
  /\ \A c \in Child : /\ WF_vars(ChildStep(c))
                      /\ WF_vars(cstate[c] = "running" /\ ChildExit(c))

Spec == Init /\ [][Next]_vars /\ Fairness

-----------------------------------------------------------------------------
(* Properties *)

\* A child that run_benchmarks has let past its await_signal.
Released(c) ==
  \/ cstate[c] \in {"go", "running"}
  \/ cstate[c] \in {"diverted", "zombie", "reaped"} /\ pinned[c]

\* A child that has pinned itself and reported to the parent.
Reported(c) == pinned[c] /\ cstate[c] # "pinned"

\* No test program starts before every child of the session has been forked,
\* has pinned itself to its target_cpu and has reported: the measurements of
\* co-running programs rely on run_benchmarks starting them together.
StartTogether ==
  (\E c \in Child : Released(c)) => \A d \in Child : Reported(d)

\* SIGUSR1 is never delivered with its default action, which would terminate
\* the parent or a child: whoever is signalled, however early, has the signal
\* blocked (block_signal before the fork, inherited by the child).
NoSignalDeath ==
  pc # "dead" /\ \A c \in Child : cstate[c] # "killed"

\* A pid that run_benchmarks has recorded belongs to a child that has pinned
\* itself and reported: the SIGUSR1 that await_signal consumed was that
\* child's own, although every child sends the parent the same signal.
RecordedChildReported ==
  \A c \in childpids : Reported(c)

\* wait_benchmarks calls waitpid with an indeterminate slot of childpids only
\* when the process has no child at all, so it never reaps a child that it
\* was not asked to wait for.
NoIndeterminateWait ==
  pc = "wait" /\ prog \notin childpids => \A c \in Child : cstate[c] = "none"

\* When wait_benchmarks returns, whatever failed before, no child of the
\* session is left running, waiting or unreaped: the next session of the
\* caller's loop starts alone.
RoundEndsClean ==
  pc = "caller" => \A c \in Child : cstate[c] \in {"none", "reaped"}

\* Both directions of the rendezvous use SIGUSR1 and a pending signal is one
\* bit: no kill() is ever sent to a process for which one is still pending,
\* so none is merged away.
NoSignalMerged ==
  [][/\ \A c \in Child : ChildUp(c) => ~pending[Parent]
     /\ KillChild => ~pending[prog]]_vars

\* If no child leaves run_benchmarks by an error path and run_benchmarks
\* always returns true (a failed malloc included), then every session ends:
\* no wake-up between fork, kill, sigwait, exec and waitpid is lost.
CleanRunsComplete ==
  [](ret /\ \A c \in Child : cstate[c] # "diverted")
    => <>(pc = "caller" /\ round = Rounds)

\* The rendezvous as the benchmarks see it: see StartBarrier.
ProgramState(c) ==
  CASE cstate[c] \in {"up", "go"} -> "ready"
    [] cstate[c] = "running" -> "running"
    [] cstate[c] \in {"diverted", "zombie", "reaped"} /\ pinned[c] -> "over"
    [] OTHER -> "out"

Barrier == INSTANCE StartBarrier
  WITH Prog <- Child,
       state <- [c \in Child |-> ProgramState(c)],
       open <- childpids = Child

\* Forking, signalling and waiting implement the abstract start barrier.
BarrierSpec == Barrier!Spec
=============================================================================
