----------------------------- MODULE Relocation -----------------------------
(***************************************************************************)
(* proc_manip.c and prep_system.c: before a benchmark session every        *)
(* process of the machine is moved to one core (or to all of them), and    *)
(* moved back afterwards.  The code lists the processes through a pipe     *)
(* from ps and reads and sets their masks one by one, while the machine    *)
(* goes on forking and exiting; it repeats the pass until one pass finds   *)
(* nothing to move.                                                        *)
(***************************************************************************)
EXTENDS Integers, Sequences

CONSTANTS MaxPid,     \* process ids are 1..MaxPid and may be reused
          Retries,    \* REARRANGE_RETRIES
          Self,       \* the program's own process
          InitAlive,  \* the processes at the start
          InitKinds   \* their possible kinds, functions from Pid to Kind

Pid == 1..MaxPid

\* What sched_setaffinity does to a process: it moves a normal one, it
\* returns EINVAL for a kernel thread bound to its core and EPERM for a
\* process the caller has no right to move.
Kind == {"normal", "bound", "foreign"}
Mask == {"all", "one", "own"}
Err == {"READ_MASK", "INSF_PRIV"}

ASSUME MaxPidAssumption == MaxPid \in Nat
ASSUME RetriesAssumption == Retries \in Nat \ {0}
ASSUME SelfAssumption == Self \in InitAlive
ASSUME InitAssumption == InitAlive \subseteq Pid /\ InitKinds \subseteq [Pid -> Kind]

VARIABLES
  alive, kind, mask,  \* the processes, their kinds and affinity masks
  quiet,              \* history: no process has forked or exited so far
  cursor, listed, psdone,  \* ps: last pid listed, unread output, end of output
  pc,                 \* where the program is
  phase,              \* what it is doing: prep_system, the session, cleanup_system
  multicore,          \* argument of prep_system
  unpin_procs,        \* argument of cleanup_system
  target,             \* the mask to give to every process
  id, attempts, updated, err, \* locals of the two loops
  result,             \* what rearrange_processes returned
  survivors,          \* history: processes alive since the current pass began
  exited              \* history: a process has exited since then

machineVars == <<alive, kind, mask, quiet, survivors, exited>>
psVars == <<cursor, listed, psdone>>
callVars == <<phase, multicore, unpin_procs, target>>
vars == <<machineVars, psVars, callVars, pc, id, attempts, updated, err, result>>

TypeOK ==
  /\ alive \in SUBSET Pid
  /\ kind \in [Pid -> Kind]
  /\ mask \in [Pid -> Mask]
  /\ quiet \in BOOLEAN
  /\ cursor \in 0..MaxPid
  /\ listed \in Seq(Pid)
  /\ psdone \in BOOLEAN
  /\ pc \in {"caller", "loop", "getline", "get", "set", "pclose", "done"}
  /\ phase \in {"start", "prep", "session", "cleanup", "end"}
  /\ multicore \in BOOLEAN
  /\ unpin_procs \in BOOLEAN
  /\ target \in Mask
  /\ id \in Pid \cup {0}
  /\ attempts \in 1..(Retries + 1)
  /\ updated \in BOOLEAN
  /\ err \in SUBSET Err
  /\ result \in BOOLEAN
  /\ survivors \in SUBSET Pid
  /\ exited \in BOOLEAN

Init ==
  /\ alive = InitAlive
  /\ kind \in InitKinds
  /\ mask = [p \in Pid |-> IF kind[p] = "bound" THEN "own" ELSE "all"]
  /\ quiet = TRUE
  /\ cursor = 0
  /\ listed = <<>>
  /\ psdone = TRUE
  /\ pc = "caller"
  /\ phase = "start"
  \* catbench passes the same value twice, the other drivers FALSE and TRUE
  /\ multicore \in BOOLEAN /\ unpin_procs \in BOOLEAN /\ (multicore => unpin_procs)
  /\ target = "all"
  /\ id = 0
  /\ attempts = 1
  /\ updated = FALSE
  /\ err = {}
  /\ result = FALSE
  /\ survivors = {}
  /\ exited = FALSE

-----------------------------------------------------------------------------
(* prep_system, cleanup_system and rearrange_processes *)

PrepSystem ==
  /\ phase = "start"
  /\ phase' = "prep"
  /\ target' = IF multicore THEN "all" ELSE "one"
  /\ attempts' = 1
  /\ pc' = "loop"
  /\ UNCHANGED <<machineVars, psVars, multicore, unpin_procs, id, updated, err, result>>

\* catbench, slowbro and locksmith stop when prep_system fails, dist_a goes on.
PrepReturns ==
  /\ phase = "prep" /\ pc = "done"
  /\ phase' \in IF result THEN {"session"} ELSE {"session", "end"}
  /\ pc' = "caller"
  /\ UNCHANGED <<machineVars, psVars, multicore, unpin_procs, target, id, attempts,
                 updated, err, result>>

\* Mutant: the argument of cleanup_system is taken the other way round.
CleanupInverted ==
  /\ phase = "session"
  /\ IF ~unpin_procs
       THEN phase' = "end" /\ UNCHANGED <<target, attempts, pc>>
       ELSE phase' = "cleanup" /\ target' = "all" /\ attempts' = 1 /\ pc' = "loop"
  /\ UNCHANGED <<machineVars, psVars, multicore, unpin_procs, id, updated, err, result>>

\* Nothing is moved back when the argument says that nothing was pinned.
CleanupSystem ==
  /\ phase = "session"
  /\ IF unpin_procs
       THEN phase' = "end" /\ UNCHANGED <<target, attempts, pc>>
       ELSE phase' = "cleanup" /\ target' = "all" /\ attempts' = 1 /\ pc' = "loop"
  /\ UNCHANGED <<machineVars, psVars, multicore, unpin_procs, id, updated, err, result>>

CleanupReturns ==
  /\ phase = "cleanup" /\ pc = "done"
  /\ phase' = "end"
  /\ pc' = "caller"
  /\ UNCHANGED <<machineVars, psVars, multicore, unpin_procs, target, id, attempts,
                 updated, err, result>>

\* Mutant: the passes are not counted.
PassRetriesForEver ==
  /\ pc = "pclose"
  /\ psdone
  /\ IF updated
       THEN pc' = "loop" /\ UNCHANGED result
       ELSE pc' = "done" /\ result' = (err = {})
  /\ UNCHANGED <<machineVars, psVars, callVars, id, attempts, updated, err>>

\* The end of one iteration of the retry loop: the loop goes on after a pass
\* that moved something, and only the errors of the last pass are looked at.
\* pclose has waited for ps.
PassReturns ==
  /\ pc = "pclose"
  /\ psdone
  /\ IF updated
       THEN /\ attempts' = attempts + 1
            /\ IF attempts < Retries
                 THEN pc' = "loop" /\ UNCHANGED result
                 ELSE pc' = "done" /\ result' = FALSE
       ELSE /\ pc' = "done"
            /\ result' = (err = {})
            /\ UNCHANGED attempts
  /\ UNCHANGED <<machineVars, psVars, callVars, id, updated, err>>

-----------------------------------------------------------------------------
(* proc_manip_rebalance_system *)

\* Mutant: the count of updates is not reset between passes.
StartPassKeepsCount ==
  /\ pc = "loop"
  /\ cursor' = 0
  /\ listed' = <<>>
  /\ psdone' = FALSE
  /\ err' = {}
  /\ pc' = "getline"
  /\ survivors' = alive
  /\ exited' = FALSE
  /\ UNCHANGED <<alive, kind, mask, quiet, callVars, id, attempts, updated, result>>

StartPass ==
  /\ pc = "loop"
  /\ cursor' = 0
  /\ listed' = <<>>
  /\ psdone' = FALSE
  /\ updated' = FALSE
  /\ err' = {}
  /\ pc' = "getline"
  /\ survivors' = alive
  /\ exited' = FALSE
  /\ UNCHANGED <<alive, kind, mask, quiet, callVars, id, attempts, result>>

Getline ==
  /\ pc = "getline"
  /\ IF listed # <<>>
       THEN id' = Head(listed) /\ listed' = Tail(listed) /\ pc' = "get"
       ELSE psdone /\ pc' = "pclose" /\ UNCHANGED <<id, listed>>
  /\ UNCHANGED <<machineVars, callVars, cursor, psdone, attempts, updated, err, result>>

\* When sched_getaffinity fails the code goes on with an indeterminate mask.
GetAffinity ==
  /\ pc = "get"
  /\ \E curr_cores \in IF id \in alive THEN {mask[id]} ELSE Mask :
       pc' = IF curr_cores = target THEN "getline" ELSE "set"
  /\ err' = IF id \in alive THEN err ELSE err \cup {"READ_MASK"}
  /\ UNCHANGED <<machineVars, psVars, callVars, id, attempts, updated, result>>

\* Mutant: access denied ends the pass without an error.
SetAffinityForgivesDenial ==
  /\ pc = "set"
  /\ \/ /\ id \notin alive \/ kind[id] = "bound"
        /\ pc' = "getline"
        /\ UNCHANGED <<mask, updated>>
     \/ /\ id \in alive /\ kind[id] = "foreign"
        /\ pc' = "pclose"
        /\ UNCHANGED <<mask, updated>>
     \/ /\ id \in alive /\ kind[id] = "normal"
        /\ mask' = [mask EXCEPT ![id] = target]
        /\ updated' = TRUE
        /\ pc' = "getline"
  /\ UNCHANGED <<alive, kind, quiet, survivors, exited, psVars, callVars,
                 id, attempts, err, result>>

SetAffinity ==
  /\ pc = "set"
  /\ \/ /\ id \notin alive \/ kind[id] = "bound"  \* ESRCH, EINVAL
        /\ pc' = "getline"
        /\ UNCHANGED <<mask, updated, err>>
     \/ /\ id \in alive /\ kind[id] = "foreign"    \* EPERM
        /\ err' = err \cup {"INSF_PRIV"}
        /\ pc' = "pclose"
        /\ UNCHANGED <<mask, updated>>
     \/ /\ id \in alive /\ kind[id] = "normal"
        /\ mask' = [mask EXCEPT ![id] = target]
        /\ updated' = TRUE
        /\ pc' = "getline"
        /\ UNCHANGED err
  /\ UNCHANGED <<alive, kind, quiet, survivors, exited, psVars, callVars,
                 id, attempts, result>>

-----------------------------------------------------------------------------
(* ps -eo pid= walks /proc upwards while the machine runs. *)

\* The processes that ps has still to list.
Ahead == {p \in alive : p > cursor}

PsEntry ==
  /\ ~psdone
  /\ \E p \in Ahead :
       /\ \A q \in Ahead : p <= q
       /\ cursor' = p
       /\ listed' = Append(listed, p)
  /\ UNCHANGED <<machineVars, callVars, psdone, pc, id, attempts, updated, err, result>>

PsDone ==
  /\ ~psdone
  /\ Ahead = {}
  /\ psdone' = TRUE
  /\ UNCHANGED <<machineVars, callVars, cursor, listed, pc, id, attempts, updated, err, result>>

(* The other processes: a child inherits kind and mask of its parent. *)

ForkProcess(p, c) ==
  /\ p \in alive \ {Self} /\ c \notin alive /\ kind[p] # "bound"
  /\ alive' = alive \cup {c}
  /\ kind' = [kind EXCEPT ![c] = kind[p]]
  /\ mask' = [mask EXCEPT ![c] = mask[p]]
  /\ quiet' = FALSE
  /\ UNCHANGED <<survivors, exited, psVars, callVars, pc, id, attempts, updated, err, result>>

ExitProcess(p) ==
  /\ p \in alive \ {Self}
  /\ alive' = alive \ {p}
  /\ survivors' = survivors \ {p}
  /\ exited' = TRUE
  /\ quiet' = FALSE
  /\ UNCHANGED <<kind, mask, psVars, callVars, pc, id, attempts, updated, err, result>>

-----------------------------------------------------------------------------
Program ==
  \/ PrepSystem \/ PrepReturns \/ CleanupSystem \/ CleanupReturns
  \/ PassReturns \/ StartPass \/ Getline \/ GetAffinity \/ SetAffinity

Ps == PsEntry \/ PsDone

Terminated == phase = "end" /\ UNCHANGED vars

Next ==
  \/ Program
  \/ Ps
  \/ \E p \in Pid : ExitProcess(p) \/ \E c \in Pid : ForkProcess(p, c)
  \/ Terminated

\* The program and ps are scheduled; the rest of the machine owes nothing.
Spec == Init /\ [][Next]_vars /\ WF_vars(Program) /\ WF_vars(Ps)

-----------------------------------------------------------------------------
(* Properties *)

Relocated == pc = "done" /\ result

\* When rearrange_processes reports success, every process that has been
\* alive since the last pass began has the requested mask, unless the kernel
\* refuses to move it: no error, no early return and no retry hides one.
SuccessCoversSurvivors ==
  Relocated => \A p \in survivors : kind[p] = "bound" \/ mask[p] = target

\* If moreover no process exited since the last pass began, success covers
\* the processes forked during that pass as well, whether or not ps listed
\* them: a child that missed the pass has the mask of a parent that did not.
SuccessCoversAllWithoutExits ==
  Relocated /\ ~exited => \A p \in alive : kind[p] = "bound" \/ mask[p] = target

\* On a machine where nothing forks or exits, success is reported exactly
\* when no process is left that the caller may not move, and the retry bound
\* is never what decides.
QuietMachineDecided ==
  pc = "done" /\ quiet =>
    /\ result <=> ~\E p \in alive : kind[p] = "foreign" /\ mask[p] # target
    /\ attempts <= 2

\* A session whose arguments pair up (catbench) ends on a quiet machine with
\* every movable process allowed on all cores again.
PairedSessionRestores ==
  phase = "end" /\ quiet /\ (unpin_procs <=> multicore) =>
    \A p \in alive : kind[p] = "normal" /\ result => mask[p] = "all"

\* prep_system and cleanup_system return even on a machine that never stops
\* forking and exiting and so gives every pass something to move: the listing
\* of a pass is finite, and REARRANGE_RETRIES bounds the passes.
Terminates == <>(phase = "end")

\* What the log message of rearrange_processes says after a success.
SuccessRelocatedAllProcesses ==
  Relocated => \A p \in alive : mask[p] = target
=============================================================================
