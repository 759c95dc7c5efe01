-------------------------- MODULE RelocationProofs --------------------------
(***************************************************************************)
(* What a reported success of rearrange_processes covers, for any number   *)
(* of processes, any forks and exits, and any retry bound; what it decides *)
(* on a machine where nothing forks or exits; and that a session whose     *)
(* arguments pair up puts every process back.                              *)
(***************************************************************************)
EXTENDS Relocation, TLAPS

InPass == {"getline", "get", "set", "pclose"}

TypeInv ==
  /\ TypeOK
  /\ pc \in InPass \cup {"loop"} => attempts <= Retries
  /\ pc \in {"get", "set"} => id \in Pid

Settled(p) == kind[p] = "bound" \/ mask[p] = target

\* The pass has still to look at p.
Due(p) ==
  \/ ~psdone /\ p > cursor
  \/ \E i \in 1..Len(listed) : listed[i] = p
  \/ pc \in {"get", "set"} /\ id = p

\* As long as a pass has moved nothing and met no error, every process that
\* it found alive is settled or still to be looked at.
PassInv ==
  pc \in InPass /\ ~updated /\ err = {} => \A p \in survivors : Settled(p) \/ Due(p)

\* A pass ends without an error only when the listing is exhausted.
EndInv == pc = "pclose" /\ err = {} => psdone /\ listed = <<>>

\* As long as nothing has exited and nothing was moved, an unsettled process
\* means an unsettled process that was there when the pass began.
LineageInv ==
  pc \in InPass \cup {"done"} /\ ~exited /\ ~updated =>
    \A q \in alive : Settled(q) \/ \E p \in survivors : ~Settled(p)

DoneInv == pc = "done" /\ result => ~updated /\ \A p \in survivors : Settled(p)

IInv ==
  /\ TypeInv
  /\ survivors \subseteq alive
  /\ PassInv
  /\ EndInv
  /\ LineageInv
  /\ DoneInv

-----------------------------------------------------------------------------
\* Every variable keeps its type, and the retry count its bound.
LEMMA TypeStep == TypeInv /\ [Next]_vars => TypeInv'
<1> SUFFICES ASSUME TypeInv, [Next]_vars PROVE TypeInv'
  OBVIOUS
<1> USE MaxPidAssumption, RetriesAssumption
        DEF TypeInv, TypeOK, InPass, Pid, Mask, Kind, Err, machineVars, psVars, callVars
<1>1. CASE PrepSystem
  BY <1>1 DEF PrepSystem
<1>2. CASE PrepReturns
  BY <1>2 DEF PrepReturns
<1>3. CASE CleanupSystem
  BY <1>3 DEF CleanupSystem
<1>4. CASE CleanupReturns
  BY <1>4 DEF CleanupReturns
<1>5. CASE PassReturns
  <2>1. result' \in BOOLEAN
    BY <1>5, Zenon, ZenonT(40) DEF PassReturns
  <2>2. /\ attempts' \in 1..(Retries + 1)
        /\ pc' \in {"loop", "done"}
        /\ pc' = "loop" => attempts' <= Retries
    BY <1>5 DEF PassReturns
  <2> QED
    BY <1>5, <2>1, <2>2 DEF PassReturns
<1>6. CASE StartPass
  <2>1. listed' \in Seq(Pid)
    BY <1>6 DEF StartPass
  <2>2. psdone' \in BOOLEAN /\ updated' \in BOOLEAN /\ exited' \in BOOLEAN
    BY <1>6, Zenon, ZenonT(40) DEF StartPass
  <2> QED
    BY <1>6, <2>1, <2>2 DEF StartPass
<1>7. CASE Getline
  <2>1. CASE listed # <<>>
    <3>1. Head(listed) \in Pid /\ Tail(listed) \in Seq(Pid)
      BY <2>1
    <3> QED
      BY <1>7, <2>1, <3>1, ZenonT(40), ZenonT(60) DEF Getline
  <2>2. CASE listed = <<>>
    BY <1>7, <2>2 DEF Getline
  <2> QED
    BY <2>1, <2>2, SMTT(30), SMTT(60)
<1>8. CASE GetAffinity
  BY <1>8 DEF GetAffinity
<1>9. CASE SetAffinity
  <2>1. mask' \in [Pid -> Mask]
    BY <1>9 DEF SetAffinity
  <2>2. updated' \in BOOLEAN
    BY <1>9, Zenon, ZenonT(40) DEF SetAffinity
  <2>3. err' \in SUBSET Err /\ pc' \in {"getline", "pclose"}
    BY <1>9, Zenon, ZenonT(40) DEF SetAffinity
  <2> QED
    BY <1>9, <2>1, <2>2, <2>3 DEF SetAffinity
<1>10. CASE PsEntry
  BY <1>10 DEF PsEntry, Ahead
<1>11. CASE PsDone
  BY <1>11 DEF PsDone, Ahead
<1>12. ASSUME NEW p \in Pid, ExitProcess(p) PROVE TypeInv'
  <2>1. quiet' \in BOOLEAN /\ exited' \in BOOLEAN
    BY <1>12, Zenon, ZenonT(40) DEF ExitProcess
  <2> QED
    BY <1>12, <2>1 DEF ExitProcess
<1>13. ASSUME NEW p \in Pid, NEW c \in Pid, ForkProcess(p, c) PROVE TypeInv'
  <2>1. quiet' \in BOOLEAN
    BY <1>13, Zenon, ZenonT(40) DEF ForkProcess
  <2> QED
    BY <1>13, <2>1 DEF ForkProcess
<1>14. CASE UNCHANGED vars
  BY <1>14 DEF vars
<1> QED
  BY <1>1, <1>2, <1>3, <1>4, <1>5, <1>6, <1>7, <1>8, <1>9, <1>10, <1>11, <1>12, <1>13, <1>14, SMTT(30), SMTT(60) DEF Next, Program, Ps, Terminated

\* A call begins with the invariant.
LEMMA InitIInv == Init => IInv
<1> SUFFICES ASSUME Init PROVE IInv
  OBVIOUS
<1>1. TypeInv
  <2> USE MaxPidAssumption, RetriesAssumption, InitAssumption
  <2>1. kind \in [Pid -> Kind] /\ mask \in [Pid -> Mask]
    BY DEF Init, Mask
  <2>2. listed \in Seq(Pid)
    BY DEF Init
  <2>3. multicore \in BOOLEAN /\ unpin_procs \in BOOLEAN /\ target \in Mask
    BY DEF Init, Mask
  <2>4. alive \in SUBSET Pid /\ quiet \in BOOLEAN /\ cursor \in 0..MaxPid
    BY DEF Init
  <2>5. attempts \in 1..(Retries + 1) /\ id \in Pid \cup {0} /\ err \in SUBSET Err
    BY DEF Init
  <2>6. psdone \in BOOLEAN /\ updated \in BOOLEAN /\ result \in BOOLEAN /\ exited \in BOOLEAN
    BY Zenon, ZenonT(40) DEF Init
  <2>7. survivors \in SUBSET Pid
    BY DEF Init
  <2>8. pc = "caller" /\ phase = "start"
    BY DEF Init
  <2> QED
    BY <2>1, <2>2, <2>3, <2>4, <2>5, <2>6, <2>7, <2>8 DEF TypeInv, TypeOK, InPass
<1> QED
  BY <1>1 DEF Init, IInv, PassInv, EndInv, LineageInv, DoneInv, InPass

\* Every step of the program, of ps and of the machine keeps the invariant.
LEMMA IInvStep == IInv /\ [Next]_vars => IInv'
<1> SUFFICES ASSUME IInv, [Next]_vars PROVE IInv'
  OBVIOUS
<1>0. TypeInv'
  BY TypeStep DEF IInv
<1> USE <1>0 DEF IInv, TypeInv, TypeOK, PassInv, EndInv, LineageInv, DoneInv, Settled,
                 Due, InPass, Pid, machineVars, psVars, callVars
<1>1. CASE PrepSystem
  BY <1>1 DEF PrepSystem
<1>2. CASE PrepReturns
  BY <1>2 DEF PrepReturns
<1>3. CASE CleanupSystem
  BY <1>3, SMTT(30), SMTT(60) DEF CleanupSystem
<1>4. CASE CleanupReturns
  BY <1>4 DEF CleanupReturns
<1>5. CASE PassReturns
  BY <1>5 DEF PassReturns
<1>6. CASE StartPass
  BY <1>6 DEF StartPass
<1>7. CASE Getline
  <2>1. CASE listed # <<>>
    <3>1. \A p \in survivors, i \in 1..Len(listed) :
            listed[i] = p => p = id' \/ \E j \in 1..Len(listed') : listed'[j] = p
      <4> SUFFICES ASSUME NEW i \in 1..Len(listed), listed[i] # id'
                   PROVE \E j \in 1..Len(listed') : listed'[j] = listed[i]
        BY Zenon, ZenonT(40)
      <4>1. i # 1 /\ Len(listed') = Len(listed) - 1
        BY <1>7, <2>1 DEF Getline
      <4>2. i - 1 \in 1..Len(listed') /\ listed'[i - 1] = listed[i]
        BY <1>7, <2>1, <4>1, SMTT(30), SMTT(60) DEF Getline
      <4> QED
        BY <4>2
    <3> QED
      BY <1>7, <2>1, <3>1, Zenon, ZenonT(40) DEF Getline
  <2>2. CASE listed = <<>>
    BY <1>7, <2>2 DEF Getline
  <2> QED
    BY <2>1, <2>2, SMTT(30), SMTT(60)
<1>8. CASE GetAffinity
  BY <1>8 DEF GetAffinity
<1>9. CASE SetAffinity
  BY <1>9, Zenon, ZenonT(40) DEF SetAffinity
<1>10. CASE PsEntry
  BY <1>10, SMTT(30), SMTT(60) DEF PsEntry, Ahead
<1>11. CASE PsDone
  BY <1>11 DEF PsDone, Ahead
<1>12. ASSUME NEW p \in Pid, ExitProcess(p) PROVE IInv'
  BY <1>12 DEF ExitProcess
<1>13. ASSUME NEW p \in Pid, NEW c \in Pid, ForkProcess(p, c) PROVE IInv'
  BY <1>13 DEF ForkProcess
<1>14. CASE UNCHANGED vars
  BY <1>14 DEF vars
<1> QED
  BY <1>1, <1>2, <1>3, <1>4, <1>5, <1>6, <1>7, <1>8, <1>9, <1>10, <1>11, <1>12, <1>13, <1>14, Zenon, ZenonT(40) DEF Next, Program, Ps, Terminated

\* The invariant holds in every state of the relocation.
LEMMA Invariance == Spec => []IInv
  BY InitIInv, IInvStep, PTL DEF Spec

-----------------------------------------------------------------------------
\* Type correctness of the program, of ps and of the machine.
THEOREM TypeCorrect == Spec => []TypeOK
<1>1. IInv => TypeOK
  BY DEF IInv, TypeInv
<1> QED
  BY <1>1, Invariance, PTL

\* A success of rearrange_processes covers every process that was alive
\* during the whole of the last pass.
THEOREM SurvivorsCovered == Spec => []SuccessCoversSurvivors
<1>1. IInv => SuccessCoversSurvivors
  BY DEF IInv, DoneInv, Settled, Relocated, SuccessCoversSurvivors
<1> QED
  BY <1>1, Invariance, PTL

\* Without exits it covers every process, the ones that ps never listed
\* included: lineage, not the listing, is what protects them.
THEOREM AllCoveredWithoutExits == Spec => []SuccessCoversAllWithoutExits
<1>1. IInv => SuccessCoversAllWithoutExits
  BY DEF IInv, DoneInv, LineageInv, Settled, Relocated, SuccessCoversAllWithoutExits
<1> QED
  BY <1>1, Invariance, PTL

-----------------------------------------------------------------------------
(* A machine on which nothing forks or exits *)

\* A process that the caller may not move and that has another mask.
Blocker(p) == kind[p] = "foreign" /\ mask[p] # target

\* ps lists processes that are there, upwards.
ListingInv ==
  /\ \A i \in 1..Len(listed) : listed[i] \in alive /\ listed[i] <= cursor
  /\ \A i, j \in 1..Len(listed) : i < j => listed[i] < listed[j]
  /\ pc \in {"get", "set"} =>
       id \in alive /\ id <= cursor /\ \A i \in 1..Len(listed) : id < listed[i]

\* What a pass has looked at is settled, or else it is the process that ended
\* the pass, and everything before that process is settled.
ProgressInv ==
  /\ pc \in {"getline", "get", "set"} => err = {} /\ \A p \in alive : Settled(p) \/ Due(p)
  /\ pc = "set" => mask[id] # target
  /\ pc = "pclose" =>
       \/ err = {} /\ \A p \in alive : Settled(p)
       \/ err # {} /\ id \in alive /\ Blocker(id) /\ \A p \in alive : p < id => Settled(p)

\* After the first pass an unsettled process that could be moved has a smaller
\* one before it at which the pass stops: the second pass moves nothing.
SecondPassInv ==
  pc \in InPass \cup {"loop"} =>
    /\ attempts <= 2
    /\ attempts = 2 =>
         /\ pc # "loop" => ~updated
         /\ \A p \in alive : Settled(p) \/ \E f \in alive : f <= p /\ Blocker(f)

VerdictInv ==
  pc = "done" =>
    /\ attempts <= 2
    /\ result => \A p \in alive : Settled(p)
    /\ ~result => \E p \in alive : Blocker(p)

QuietInv == quiet => ListingInv /\ ProgressInv /\ SecondPassInv /\ VerdictInv

\* Where prep_system and cleanup_system are, and what the last of them achieved.
SessionInv ==
  /\ phase \in {"start", "session", "end"} <=> pc = "caller"
  /\ phase \in {"prep", "session"} => target = IF multicore THEN "all" ELSE "one"
  /\ phase = "cleanup" => target = "all" /\ ~unpin_procs
  /\ phase \in {"session", "end"} /\ result /\ quiet => \A p \in alive : Settled(p)
  /\ phase = "end" /\ result /\ (unpin_procs <=> multicore) => target = "all"

QuietIInv == IInv /\ QuietInv /\ SessionInv

\* A machine that is quiet after a step was quiet before, and nothing forked or exited.
LEMMA QuietBefore ==
  ASSUME [Next]_vars, quiet'
  PROVE  quiet /\ UNCHANGED <<alive, kind>>
<1>1. CASE Program
  BY <1>1, Zenon, ZenonT(40) DEF Program, PrepSystem, PrepReturns, CleanupSystem, CleanupReturns, PassReturns,
        StartPass, Getline, GetAffinity, SetAffinity, machineVars
<1>2. CASE Ps
  BY <1>2, Zenon, ZenonT(40) DEF Ps, PsEntry, PsDone, machineVars
<1>3. ASSUME NEW p \in Pid, ExitProcess(p) \/ \E c \in Pid : ForkProcess(p, c) PROVE FALSE
  BY <1>3, Zenon, ZenonT(40) DEF ExitProcess, ForkProcess
<1>4. CASE UNCHANGED vars
  BY <1>4, Zenon, ZenonT(40) DEF vars, machineVars
<1> QED
  BY <1>1, <1>2, <1>3, <1>4, Zenon, ZenonT(40) DEF Next, Terminated

\* The listing goes upwards through processes that are there.
LEMMA ListingStep ==
  ASSUME IInv, QuietInv, [Next]_vars, quiet'
  PROVE  ListingInv'
<1>0. quiet /\ alive' = alive
  BY QuietBefore, Zenon, ZenonT(40)
<1> USE <1>0 DEF QuietInv, ListingInv, IInv, TypeInv, TypeOK, Pid, machineVars, psVars, callVars
<1>1. CASE PrepSystem \/ PrepReturns \/ CleanupSystem \/ CleanupReturns \/ PassReturns
  BY <1>1 DEF PrepSystem, PrepReturns, CleanupSystem, CleanupReturns, PassReturns
<1>2. CASE StartPass
  BY <1>2 DEF StartPass
<1>3. CASE Getline
  <2>1. CASE listed # <<>>
    <3>0. /\ id' = Head(listed) /\ listed' = Tail(listed) /\ cursor' = cursor
          /\ listed \in Seq(Pid)
      BY <1>3, <2>1 DEF Getline
    <3>1. /\ Len(listed) > 0 /\ Len(listed') = Len(listed) - 1
          /\ id' = listed[1] /\ cursor' = cursor
          /\ \A i \in 1..Len(listed') : listed'[i] = listed[i + 1]
      <4> HIDE <1>0 DEF QuietInv, ListingInv, IInv, TypeInv, TypeOK, Pid, machineVars, psVars, callVars
      <4> QED
        BY <2>1, <3>0
    <3>2. \A i \in 1..Len(listed') : i + 1 \in 1..Len(listed)
      BY <3>1
    <3> HIDE DEF QuietInv, IInv
    <3>3. /\ \A i \in 1..Len(listed) : listed[i] \in alive /\ listed[i] <= cursor
          /\ \A i, j \in 1..Len(listed) : i < j => listed[i] < listed[j]
      BY DEF QuietInv
    <3>4. 1 \in 1..Len(listed)
      BY <3>1
    <3>5. id' \in alive /\ id' <= cursor
      BY <3>1, <3>3, <3>4
    <3>6. \A i \in 1..Len(listed') : listed'[i] \in alive /\ listed'[i] <= cursor /\ id' < listed'[i]
      BY <3>1, <3>2, <3>3, <3>4, SMTT(30), SMTT(60)
    <3>7. \A i, j \in 1..Len(listed') : i < j => listed'[i] < listed'[j]
      BY <3>1, <3>2, <3>3
    <3> QED
      BY <3>1, <3>5, <3>6, <3>7
  <2>2. CASE listed = <<>>
    BY <1>3, <2>2 DEF Getline
  <2> QED
    BY <2>1, <2>2
<1>4. CASE GetAffinity \/ SetAffinity
  BY <1>4 DEF GetAffinity, SetAffinity
<1>5. CASE PsEntry
  <2>1. PICK q \in alive : q > cursor /\ cursor' = q /\ listed' = Append(listed, q)
    BY <1>5 DEF PsEntry, Ahead
  <2>2. /\ pc' = pc /\ id' = id /\ q \in Nat /\ Len(listed') = Len(listed) + 1
        /\ listed'[Len(listed) + 1] = q /\ \A i \in 1..Len(listed) : listed'[i] = listed[i]
    BY <1>5, <2>1 DEF PsEntry
  <2>3. /\ \A i \in 1..Len(listed) : listed[i] \in alive /\ listed[i] <= cursor
        /\ \A i, j \in 1..Len(listed) : i < j => listed[i] < listed[j]
        /\ cursor \in Nat /\ Len(listed) \in Nat
        /\ \A i \in 1..Len(listed) : listed[i] \in Nat
    BY SMTT(30), SMTT(60)
  <2>4. \A i \in 1..Len(listed') : i \in 1..Len(listed) \/ i = Len(listed) + 1
    BY <2>2, <2>3
  <2>5. \A i \in 1..Len(listed') : listed'[i] \in alive /\ listed'[i] <= cursor'
    BY <2>1, <2>2, <2>3, <2>4
  <2>6. \A i, j \in 1..Len(listed') : i < j => listed'[i] < listed'[j]
    BY <2>1, <2>2, <2>3, <2>4
  <2>7. pc \in {"get", "set"} =>
          id \in alive /\ id <= cursor' /\ \A i \in 1..Len(listed') : id < listed'[i]
    BY <2>1, <2>2, <2>3, <2>4
  <2> QED
    BY <2>2, <2>5, <2>6, <2>7
<1>6. CASE PsDone
  BY <1>6 DEF PsDone
<1>7. ASSUME NEW p \in Pid, ExitProcess(p) \/ \E c \in Pid : ForkProcess(p, c) PROVE FALSE
  BY <1>7 DEF ExitProcess, ForkProcess
<1>8. CASE UNCHANGED vars
  BY <1>8 DEF vars
<1> QED
  BY <1>1, <1>2, <1>3, <1>4, <1>5, <1>6, <1>7, <1>8, SMTT(30), SMTT(60) DEF Next, Program, Ps, Terminated

\* Everything before the process at hand is settled.
LEMMA BeforeSettled ==
  ASSUME IInv, ListingInv, ProgressInv, pc \in {"get", "set"}
  PROVE  \A p \in alive : p < id => Settled(p)
BY DEF IInv, TypeInv, TypeOK, ListingInv, ProgressInv, Due, Pid

\* The process at hand, or one already listed, stays due when the next is read.
LEMMA GetlineDue ==
  ASSUME IInv, Getline, pc = "getline", listed # <<>>
  PROVE  \A p \in alive : Due(p) => Due(p)'
<1>0. /\ id' = Head(listed) /\ listed' = Tail(listed) /\ listed \in Seq(Pid) /\ pc' = "get"
      /\ UNCHANGED <<cursor, psdone>>
  BY DEF Getline, IInv, TypeInv, TypeOK
<1>1. \A i \in 1..Len(listed) : i = 1 \/ (i - 1 \in 1..Len(listed') /\ listed'[i - 1] = listed[i])
  <2> SUFFICES ASSUME NEW i \in 1..Len(listed), i # 1
               PROVE  i - 1 \in 1..Len(listed') /\ listed'[i - 1] = listed[i]
    OBVIOUS
  <2>1. listed # <<>> /\ Len(listed') = Len(listed) - 1 /\ i - 1 \in 1..Len(listed')
    BY <1>0
  <2> QED
    BY <1>0, <2>1
<1>2. ASSUME NEW i \in 1..Len(listed)
      PROVE  listed[i] = id' \/ \E j \in 1..Len(listed') : listed'[j] = listed[i]
  <2>1. i = 1 => listed[i] = id'
    BY <1>0
  <2> QED
    BY <1>1, <2>1
<1> QED
  BY <1>0, <1>2 DEF Due

\* On a quiet machine, what the passes and their end establish.
LEMMA QuietStep ==
  ASSUME Retries >= 2, IInv, QuietInv, [Next]_vars
  PROVE  QuietInv'
<1> SUFFICES ASSUME quiet'
             PROVE  ProgressInv' /\ SecondPassInv' /\ VerdictInv'
  BY ListingStep DEF QuietInv
<1>i. IInv'
  BY IInvStep, SMTT(30), SMTT(60)
<1>b. quiet /\ UNCHANGED <<alive, kind>>
  BY QuietBefore, Zenon, ZenonT(40)
<1>0. UNCHANGED <<alive, kind>>
  BY <1>b, Zenon, ZenonT(40)
<1>q. ListingInv /\ ProgressInv /\ SecondPassInv /\ VerdictInv
  BY <1>b, Zenon, ZenonT(40) DEF QuietInv
<1>t. TypeInv /\ TypeInv'
  BY <1>i, SMTT(30), SMTT(60) DEF IInv
<1> USE <1>0, <1>q, <1>t, RetriesAssumption
    DEF TypeInv, TypeOK, InPass, Pid, Settled, Blocker, machineVars, psVars, callVars
<1>1. CASE PrepSystem \/ PrepReturns \/ CleanupSystem \/ CleanupReturns
  <2>1. \/ pc' = "caller"
        \/ pc' = "loop" /\ attempts' = 1
        \/ UNCHANGED <<pc, mask, target, attempts, result, id, updated, err, listed, cursor, psdone>>
    BY <1>1 DEF PrepSystem, PrepReturns, CleanupSystem, CleanupReturns
  <2> QED
    BY <2>1, SMTT(30), SMTT(60) DEF ProgressInv, SecondPassInv, VerdictInv, Due
<1>2. CASE PassReturns
  <2>1. /\ pc = "pclose" /\ pc' \in {"loop", "done"}
        /\ UNCHANGED <<mask, target, id, updated, err>>
    BY <1>2, SMTT(30), SMTT(60) DEF PassReturns
  <2>2. ProgressInv'
    BY <2>1 DEF ProgressInv
  <2>3. CASE updated
    <3>1. attempts = 1 /\ attempts' = 2 /\ pc' = "loop"
      BY <1>2, <2>1, <2>3 DEF PassReturns, SecondPassInv
    <3>2. \A p \in alive : Settled(p) \/ \E f \in alive : f <= p /\ Blocker(f)
      BY <2>1, SMTT(30), SMTT(60) DEF ProgressInv
    <3>3. SecondPassInv' /\ VerdictInv'
      BY <2>1, <3>1, <3>2 DEF SecondPassInv, VerdictInv
    <3> QED
      BY <2>2, <3>3
  <2>4. CASE ~updated
    <3>1. attempts' = attempts /\ pc' = "done" /\ (result' <=> err = {})
      BY <1>2, <2>4, Zenon, ZenonT(40) DEF PassReturns
    <3>2. SecondPassInv'
      BY <3>1 DEF SecondPassInv
    <3>3. VerdictInv'
      BY <2>1, <3>1, SMTT(30), SMTT(60) DEF SecondPassInv, VerdictInv, ProgressInv
    <3> QED
      BY <2>2, <3>2, <3>3
  <2> QED
    BY <2>3, <2>4
<1>3. CASE StartPass
  <2>1. ProgressInv'
    BY <1>3 DEF StartPass, ProgressInv, Due
  <2>2. SecondPassInv' /\ VerdictInv'
    BY <1>3 DEF StartPass, SecondPassInv, VerdictInv
  <2> QED
    BY <2>1, <2>2
<1>4. CASE Getline
  <2>0. pc = "getline" /\ UNCHANGED <<mask, target, err, updated, attempts>>
    BY <1>4 DEF Getline
  <2>1. CASE listed # <<>>
    <3>1. pc' = "get"
      BY <1>4, <2>1 DEF Getline
    <3>2. \A p \in alive : Settled(p) \/ Due(p)'
      BY <1>4, <2>0, <2>1, GetlineDue DEF ProgressInv
    <3>3. ProgressInv'
      BY <2>0, <3>1, <3>2, SMTT(30), SMTT(60) DEF ProgressInv
    <3>4. SecondPassInv' /\ VerdictInv'
      BY <2>0, <3>1 DEF SecondPassInv, VerdictInv
    <3> QED
      BY <3>3, <3>4
  <2>2. CASE listed = <<>>
    <3>1. pc' = "pclose" /\ psdone
      BY <1>4, <2>2 DEF Getline
    <3>2. \A p \in alive : Settled(p)
      BY <2>0, <2>2, <3>1, SMTT(30), SMTT(60) DEF ProgressInv, Due
    <3>3. ProgressInv'
      BY <2>0, <3>1, <3>2, SMTT(30), SMTT(60) DEF ProgressInv
    <3>4. SecondPassInv' /\ VerdictInv'
      BY <2>0, <3>1 DEF SecondPassInv, VerdictInv
    <3> QED
      BY <3>3, <3>4
  <2> QED
    BY <2>1, <2>2
<1>5. CASE GetAffinity
  <2>1. /\ id \in alive /\ pc' = IF mask[id] = target THEN "getline" ELSE "set"
        /\ UNCHANGED <<mask, target, err, updated, attempts, id, listed, cursor, psdone>>
    BY <1>5, SMTT(30), SMTT(60) DEF GetAffinity, ListingInv
  <2>2. ProgressInv'
    BY <1>5, <2>1, SMTT(30), SMTT(60) DEF GetAffinity, ProgressInv, Due
  <2>3. SecondPassInv' /\ VerdictInv'
    BY <1>5, <2>1, SMTT(30), SMTT(60) DEF GetAffinity, SecondPassInv, VerdictInv
  <2> QED
    BY <2>2, <2>3
<1>6. CASE SetAffinity
  <2>0. /\ pc = "set" /\ id \in alive /\ mask[id] # target /\ err = {}
        /\ UNCHANGED <<target, attempts, id, listed, cursor, psdone>>
        /\ \A p \in alive : Settled(p) \/ Due(p)
    BY <1>6 DEF SetAffinity, ListingInv, ProgressInv
  <2>b. \A p \in alive : p < id => Settled(p)
    BY <2>0, BeforeSettled, SMTT(30), SMTT(60)
  <2>1. CASE kind[id] = "bound"
    <3>1. pc' = "getline" /\ UNCHANGED <<mask, updated, err>>
      BY <1>6, <2>0, <2>1, SMTT(30), SMTT(60) DEF SetAffinity
    <3>2. ProgressInv'
      BY <2>0, <2>1, <3>1 DEF ProgressInv, Due
    <3>3. SecondPassInv' /\ VerdictInv'
      BY <2>0, <3>1, Zenon, ZenonT(40) DEF SecondPassInv, VerdictInv
    <3> QED
      BY <3>2, <3>3
  <2>2. CASE kind[id] = "foreign"
    <3>1. pc' = "pclose" /\ UNCHANGED <<mask, updated>> /\ err' # {}
      <4>1. /\ pc' = "pclose" /\ UNCHANGED <<mask, updated>>
            /\ err' = err \cup {"INSF_PRIV"}
        BY <1>6, <2>0, <2>2, Zenon, ZenonT(40) DEF SetAffinity
      <4> QED
        BY <4>1
    <3>2. ProgressInv'
      BY <2>0, <2>2, <2>b, <3>1, SMTT(30), SMTT(60) DEF ProgressInv
    <3>3. SecondPassInv' /\ VerdictInv'
      BY <2>0, <3>1, SMTT(30), SMTT(60) DEF SecondPassInv, VerdictInv
    <3> QED
      BY <3>2, <3>3
  <2>3. CASE kind[id] = "normal"
    <3>1. pc' = "getline" /\ mask' = [mask EXCEPT ![id] = target] /\ err' = err
      BY <1>6, <2>0, <2>3 DEF SetAffinity
    <3>2. attempts # 2
      <4> SUFFICES ASSUME attempts = 2 PROVE FALSE
        OBVIOUS
      <4>1. PICK f \in alive : f <= id /\ Blocker(f)
        BY <2>0, <2>3 DEF SecondPassInv
      <4>2. f # id
        BY <2>3, <4>1 DEF Blocker
      <4>3. f \in Int /\ id \in Int
        BY <2>0 DEF Pid
      <4>4. f < id
        BY <4>1, <4>2, <4>3
      <4> QED
        BY <2>b, <4>1, <4>4, Zenon, ZenonT(40)
    <3>3. \A p \in alive : p # id => mask'[p] = mask[p]
      BY <3>1
    <3>4. mask'[id] = target
      BY <3>1, SMTT(30), SMTT(60)
    <3>5. ProgressInv'
      BY <2>0, <3>1, <3>3, <3>4, SMTT(30), SMTT(60) DEF ProgressInv, Due
    <3>6. SecondPassInv' /\ VerdictInv'
      BY <2>0, <3>1, <3>2 DEF SecondPassInv, VerdictInv
    <3> QED
      BY <3>5, <3>6
  <2> QED
    BY <2>0, <2>1, <2>2, <2>3, SMTT(30), SMTT(60) DEF Kind
<1>7. CASE PsEntry
  <2>1. PICK q \in alive : /\ q > cursor /\ cursor' = q /\ listed' = Append(listed, q)
                           /\ \A r \in alive : r > cursor => q <= r
    BY <1>7, SMTT(30), SMTT(60) DEF PsEntry, Ahead
  <2>2. UNCHANGED <<pc, id, psdone, mask, target, err, updated, attempts, result>>
    BY <1>7, SMTT(30), SMTT(60) DEF PsEntry
  <2>3. /\ Len(listed') = Len(listed) + 1 /\ listed'[Len(listed) + 1] = q
        /\ \A i \in 1..Len(listed) : listed'[i] = listed[i]
    BY <2>1, SMTT(30), SMTT(60)
  <2>4. \A p \in alive : Due(p) => Due(p)'
    BY <2>1, <2>2, <2>3, SMTT(30), SMTT(60) DEF Due
  <2>5. ProgressInv'
    BY <2>2, <2>4 DEF ProgressInv
  <2>6. SecondPassInv' /\ VerdictInv'
    BY <2>2, Zenon, ZenonT(40) DEF SecondPassInv, VerdictInv
  <2> QED
    BY <2>5, <2>6, SMTT(30), SMTT(60)
<1>8. CASE PsDone
  <2>1. /\ UNCHANGED <<pc, id, listed, mask, target, err, updated, attempts, result>>
        /\ \A p \in alive : ~(p > cursor)
    BY <1>8, SMTT(30), SMTT(60) DEF PsDone, Ahead
  <2>2. ProgressInv'
    BY <2>1, SMTT(30), SMTT(60) DEF ProgressInv, Due
  <2>3. SecondPassInv' /\ VerdictInv'
    BY <2>1, SMTT(30), SMTT(60) DEF SecondPassInv, VerdictInv
  <2> QED
    BY <2>2, <2>3
<1>9. ASSUME NEW p \in Pid, ExitProcess(p) \/ \E c \in Pid : ForkProcess(p, c) PROVE FALSE
  BY <1>9, SMTT(30), SMTT(60) DEF ExitProcess, ForkProcess
<1>10. CASE UNCHANGED vars
  BY <1>10, SMTT(30), SMTT(60) DEF vars, ProgressInv, SecondPassInv, VerdictInv, Due
<1> QED
  BY <1>1, <1>2, <1>3, <1>4, <1>5, <1>6, <1>7, <1>8, <1>9, <1>10
  DEF Next, Program, Ps, Terminated

\* prep_system and cleanup_system ask for the right mask, and what the last of
\* them reported stays true.
LEMMA SessionStep ==
  ASSUME IInv, QuietInv, SessionInv, [Next]_vars
  PROVE  SessionInv'
<1>t. TypeInv /\ TypeInv'
  BY IInvStep, SMTT(30), SMTT(60) DEF IInv
<1> USE <1>t DEF SessionInv, TypeInv, TypeOK, Pid, Settled, machineVars, psVars, callVars
<1>1. CASE PrepSystem
  BY <1>1, SMTT(30), SMTT(60) DEF PrepSystem
<1>2. CASE PrepReturns
  <2>1. result /\ quiet => \A p \in alive : Settled(p)
    BY <1>2, SMTT(30), SMTT(60) DEF PrepReturns, QuietInv, VerdictInv
  <2>2. /\ phase = "prep" /\ pc' = "caller" /\ phase' \in {"session", "end"}
        /\ result => phase' = "session"
        /\ UNCHANGED <<alive, kind, mask, quiet, multicore, unpin_procs, target, result>>
    BY <1>2, SMTT(30), SMTT(60) DEF PrepReturns
  <2> QED
    BY <2>1, <2>2, SMTT(30), SMTT(60)
<1>3. CASE CleanupSystem
  <2>1. CASE unpin_procs
    BY <1>3, <2>1, SMTT(30), SMTT(60) DEF CleanupSystem
  <2>2. CASE ~unpin_procs
    BY <1>3, <2>2, SMTT(30), SMTT(60) DEF CleanupSystem
  <2> QED
    BY <2>1, <2>2, SMTT(30), SMTT(60)
<1>4. CASE CleanupReturns
  <2>1. result /\ quiet => \A p \in alive : Settled(p)
    BY <1>4, SMTT(30), SMTT(60) DEF CleanupReturns, QuietInv, VerdictInv
  <2>2. /\ phase = "cleanup" /\ pc' = "caller" /\ phase' = "end"
        /\ UNCHANGED <<alive, kind, mask, quiet, multicore, unpin_procs, target, result>>
    BY <1>4, SMTT(30), SMTT(60) DEF CleanupReturns
  <2> QED
    BY <2>1, <2>2, SMTT(30), SMTT(60)
<1>5. CASE PassReturns \/ StartPass \/ Getline \/ GetAffinity \/ SetAffinity
  <2>1. /\ pc # "caller" /\ pc' # "caller"
        /\ UNCHANGED <<phase, multicore, unpin_procs, target>>
    BY <1>5, SMTT(30), SMTT(60) DEF PassReturns, StartPass, Getline, GetAffinity, SetAffinity
  <2> QED
    BY <2>1, SMTT(30), SMTT(60)
<1>6. CASE PsEntry \/ PsDone
  BY <1>6, SMTT(30), SMTT(60) DEF PsEntry, PsDone
<1>7. ASSUME NEW p \in Pid, ExitProcess(p) \/ \E c \in Pid : ForkProcess(p, c)
      PROVE  SessionInv'
  <2>1. ~quiet' /\ UNCHANGED <<phase, pc, multicore, unpin_procs, target, result>>
    BY <1>7, SMTT(30), SMTT(60) DEF ExitProcess, ForkProcess
  <2> QED
    BY <2>1, SMTT(30), SMTT(60)
<1>8. CASE UNCHANGED vars
  BY <1>8 DEF vars
<1> QED
  BY <1>1, <1>2, <1>3, <1>4, <1>5, <1>6, <1>7, <1>8, Zenon, ZenonT(40) DEF Next, Program, Ps, Terminated

\* The invariant of a quiet machine holds at the start and is kept.
LEMMA QuietInvariance == ASSUME Retries >= 2 PROVE Spec => []QuietIInv
<1>1. Init => QuietIInv
  <2> SUFFICES ASSUME Init PROVE QuietIInv
    OBVIOUS
  <2>1. IInv
    BY InitIInv
  <2>2. listed = <<>> /\ pc = "caller" /\ phase = "start"
    BY DEF Init
  <2>3. QuietInv /\ SessionInv
    BY <2>2 DEF QuietInv, ListingInv, ProgressInv, SecondPassInv, VerdictInv, SessionInv, InPass
  <2> QED
    BY <2>1, <2>3 DEF QuietIInv
<1>2. QuietIInv /\ [Next]_vars => QuietIInv'
  BY IInvStep, QuietStep, SessionStep DEF QuietIInv
<1> QED
  BY <1>1, <1>2, PTL DEF Spec

\* On a machine where nothing forks or exits, rearrange_processes reports
\* success exactly when no process is left that may not be moved, and two passes
\* decide, for any number and kinds of processes, if two passes are allowed.
THEOREM QuietDecided == ASSUME Retries >= 2 PROVE Spec => []QuietMachineDecided
<1>1. QuietIInv => QuietMachineDecided
  <2> SUFFICES ASSUME QuietIInv, pc = "done", quiet
               PROVE  /\ result <=> ~\E p \in alive : kind[p] = "foreign" /\ mask[p] # target
                      /\ attempts <= 2
    BY Zenon, ZenonT(40) DEF QuietMachineDecided
  <2>1. VerdictInv /\ alive \subseteq Pid /\ result \in BOOLEAN
    BY DEF QuietIInv, QuietInv, IInv, TypeInv, TypeOK
  <2> QED
    BY <2>1, SMTT(30), SMTT(60) DEF VerdictInv, Settled, Blocker
<1> QED
  BY <1>1, QuietInvariance, PTL

\* A session whose arguments pair up gives every movable process of a quiet
\* machine all cores back when it reports success.
THEOREM SessionRestores == ASSUME Retries >= 2 PROVE Spec => []PairedSessionRestores
<1>1. QuietIInv => PairedSessionRestores
  BY DEF QuietIInv, SessionInv, Settled, PairedSessionRestores
<1> QED
  BY <1>1, QuietInvariance, PTL
=============================================================================
