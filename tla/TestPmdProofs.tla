--------------------------- MODULE TestPmdProofs ---------------------------
(***************************************************************************)
(* Proofs about the ports of testpmd: forwarding can always be stopped,    *)
(* the handlers implement the life cycle of PortLife, and a started port   *)
(* has the settings typed last.                                            *)
(***************************************************************************)
EXTENDS TestPmd, TLAPS

States == {"STOPPED", "STARTED", "CLOSED"}

\* Steps that leave alone what the two invariants are about.
Quiet ==
  /\ UNCHANGED <<session, enabled, status, slave, released, test_done>>
  /\ pc' = pc \/ pc' \notin {"boot", "autostart"}

\* Forwarding begins.
Begins ==
  /\ all_ports_started /\ test_done /\ test_done' = FALSE
  /\ UNCHANGED <<session, enabled, status, slave, released>>
  /\ pc' \notin {"boot", "autostart"}

PortStep(p) == start_port(p) \/ stop_port(p) \/ close_port(p)

SlaveStep(p) ==
  cmd_set_bonding_primary(p) \/ cmd_add_bonding_slave(p) \/ cmd_remove_bonding_slave(p)

\* start_packet_forwarding refuses, dies, or launches the cores.
LEMMA StartForwardingCases ==
  ASSUME NEW st, NEW then, then \notin {"boot", "autostart"}, StartForwarding(st, then)
  PROVE  Quiet \/ Begins
BY Zenon, ZenonT(40) DEF StartForwarding, Quiet, Begins, portVars, histVars

\* The configuration commands do not touch the forwarding cores.
LEMMA ConfigQuiet ==
  ASSUME \/ cmd_config_rx_tx \/ cmd_config_max_pkt_len \/ cmd_config_rx_mode_flag
         \/ cmd_config_thresh \/ cmd_config_threshold \/ cmd_config_burst
         \/ cmd_config_speed_all \/ cmd_config_speed_specific
  PROVE  Quiet
<1>1. ASSUME NEW gl, NEW pt, ConfigAll(gl, pt) PROVE Quiet
  BY <1>1 DEF ConfigAll, Quiet
<1>2. ASSUME NEW S, NEW v, SetSpeed(S, v) PROVE Quiet
  BY <1>2 DEF SetSpeed, Quiet
<1>3. CASE cmd_config_rx_tx
  BY <1>1, <1>3, Zenon, ZenonT(40) DEF cmd_config_rx_tx
<1>4. CASE cmd_config_max_pkt_len
  BY <1>1, <1>4 DEF cmd_config_max_pkt_len
<1>5. CASE cmd_config_rx_mode_flag
  BY <1>1, <1>5 DEF cmd_config_rx_mode_flag
<1>6. CASE cmd_config_thresh
  BY <1>1, <1>6 DEF cmd_config_thresh
<1>7. CASE cmd_config_threshold
  BY <1>1, <1>7 DEF cmd_config_threshold
<1>8. CASE cmd_config_burst
  BY <1>1, <1>8 DEF cmd_config_burst
<1>9. CASE cmd_config_speed_all
  BY <1>2, <1>9 DEF cmd_config_speed_all
<1>10. CASE cmd_config_speed_specific
  BY <1>2, <1>10 DEF cmd_config_speed_specific
<1> QED
  BY <1>3, <1>4, <1>5, <1>6, <1>7, <1>8, <1>9, <1>10

\* Neither do the commands that set what is forwarded.
LEMMA FwdQuiet ==
  ASSUME \/ cmd_set_list \/ set_fwd_lcores_number \/ set_fwd_ports_number
         \/ set_def_fwd_config \/ set_pkt_forwarding_mode
  PROVE  Quiet
<1>1. ASSUME NEW gl, SetFwd(gl) PROVE Quiet
  BY <1>1 DEF SetFwd, Quiet, portVars, histVars
<1>2. CASE cmd_set_list
  BY <1>1, <1>2, Zenon, ZenonT(40) DEF cmd_set_list
<1>3. CASE set_fwd_lcores_number
  BY <1>1, <1>3 DEF set_fwd_lcores_number
<1>4. CASE set_fwd_ports_number
  BY <1>1, <1>4 DEF set_fwd_ports_number
<1>5. CASE set_def_fwd_config
  BY <1>1, <1>5 DEF set_def_fwd_config
<1>6. CASE set_pkt_forwarding_mode
  BY <1>1, <1>6 DEF set_pkt_forwarding_mode
<1> QED
  BY <1>2, <1>3, <1>4, <1>5, <1>6

\* Every step is quiet, begins or ends the forwarding, or changes ports.
LEMMA StepCases ==
  ASSUME [Next]_vars
  PROVE  \/ Quiet \/ Begins \/ main \/ StopDone
         \/ \E p \in PortIds \union {ALL} : PortStep(p)
         \/ \E p \in PortIds : \/ attach_port(p) \/ detach_port(p)
                               \/ cmd_create_bonded_device(p) \/ SlaveStep(p)
<1>1. CASE auto_start
  <2>1. CASE StartForwarding("fwd", "prompt")
    BY <2>1, StartForwardingCases
  <2>2. CASE ~StartForwarding("fwd", "prompt")
    BY <1>1, <2>2 DEF auto_start, Quiet, portVars, histVars
  <2> QED
    BY <2>1, <2>2
<1>2. CASE TxFirstDone
  BY <1>2 DEF TxFirstDone, Quiet, portVars, histVars
<1>3. CASE \E p \in PortIds : cmd_config_dcb(p)
  BY <1>3 DEF cmd_config_dcb, Quiet
<1>4. CASE fwd_config_display
  BY <1>4, Zenon, ZenonT(40) DEF fwd_config_display, Quiet, portVars, histVars
<1>5. CASE cmd_start
  BY <1>5, StartForwardingCases DEF cmd_start
<1>6. CASE cmd_start_tx_first
  BY <1>6, StartForwardingCases DEF cmd_start_tx_first
<1>7. CASE stop_packet_forwarding
  BY <1>7 DEF stop_packet_forwarding, Quiet, portVars, histVars
<1>8. CASE pmd_test_exit
  BY <1>8 DEF pmd_test_exit, Quiet, portVars, histVars
<1>9. CASE \E lc \in Lcores : run_pkt_fwd_on_lcore(lc)
  BY <1>9 DEF run_pkt_fwd_on_lcore, Quiet, portVars, histVars
<1>10. CASE UNCHANGED vars
  BY <1>10 DEF vars, Quiet, portVars, histVars
<1>11. CASE (\E lc \in Lcores : pkt_fwd(lc)) \/ Exited
  BY <1>10, <1>11 DEF pkt_fwd, Exited
<1>12. CASE Command
  BY <1>3, <1>4, <1>5, <1>6, <1>7, <1>8, <1>12, ConfigQuiet, FwdQuiet DEF Command, PortStep, SlaveStep
<1>13. CASE Master
  BY <1>1, <1>2, <1>13 DEF Master
<1> QED
  BY <1>9, <1>10, <1>11, <1>12, <1>13 DEF Next

-----------------------------------------------------------------------------
(* Forwarding can be stopped *)

StopInv ==
  /\ session \in Sessions /\ test_done \in BOOLEAN
  /\ pc \in {"boot", "autostart"} => test_done
  /\ CanStop

\* A step that needs forwarding to be stopped and leaves it so keeps the invariant.
LEMMA StoppedStep ==
  ASSUME StopInv, test_done, test_done' = test_done, session' = session
  PROVE  StopInv'
BY DEF StopInv, CanStop

\* Every step keeps the invariant of stopping.
LEMMA StopInvInductive ==
  ASSUME StopInv, [Next]_vars
  PROVE  StopInv'
<1>1. CASE Quiet
  BY <1>1 DEF StopInv, CanStop, all_ports_started, Quiet
<1>2. CASE Begins
  BY <1>2, Zenon, ZenonT(40) DEF StopInv, CanStop, all_ports_started, Begins
<1>3. CASE main
  BY <1>3, StoppedStep DEF main, StopInv
<1>4. CASE StopDone
  BY <1>4 DEF StopDone, StopInv, CanStop
<1>5. ASSUME NEW p \in PortIds \union {ALL}, PortStep(p) PROVE StopInv'
  BY <1>5, StoppedStep DEF PortStep, start_port, stop_port, close_port
<1>6. ASSUME NEW p \in PortIds, attach_port(p) \/ cmd_create_bonded_device(p) PROVE StopInv'
  BY <1>6, StoppedStep DEF attach_port, cmd_create_bonded_device
<1>7. ASSUME NEW p \in PortIds, detach_port(p) PROVE StopInv'
  <2>1. /\ enabled' = enabled \ {p} /\ pc' = pc
        /\ UNCHANGED <<session, status, slave, released, test_done>>
    BY <1>7 DEF detach_port, histVars
  <2> QED
    BY <2>1 DEF StopInv, CanStop
<1>8. ASSUME NEW p \in PortIds, cmd_set_bonding_primary(p) \/ cmd_add_bonding_slave(p)
      PROVE  StopInv'
  <2>1. /\ slave \subseteq slave' /\ pc' = pc
        /\ UNCHANGED <<session, status, enabled, released, test_done>>
    BY <1>8 DEF cmd_set_bonding_primary, cmd_add_bonding_slave, Refresh
  <2> QED
    BY <2>1 DEF StopInv, CanStop
<1>9. ASSUME NEW p \in PortIds, cmd_remove_bonding_slave(p) PROVE StopInv'
  <2>1. /\ slave' = slave \ {p} /\ pc' = pc
        /\ released' = IF test_done THEN {} ELSE released \union {p}
        /\ UNCHANGED <<session, status, enabled, test_done>>
    BY <1>9 DEF cmd_remove_bonding_slave, Refresh
  <2>2. CASE test_done
    BY <2>1, <2>2, StoppedStep
  <2>3. CASE ~test_done
    <3>1. released' = released \union {p}
      BY <2>1, <2>3
    <3> QED
      BY <2>1, <3>1 DEF StopInv, CanStop
  <2> QED
    BY <2>2, <2>3
<1> QED
  BY <1>1, <1>2, <1>3, <1>4, <1>5, <1>6, <1>7, <1>8, <1>9, StepCases DEF SlaveStep

\* Forwarding that was started can be stopped: stop_packet_forwarding finds all
\* ports started that it insists on, except slaves that were taken out of a bonded
\* device while packets were forwarded, in every session and for any number of
\* ports, cores and queues.
THEOREM Stoppable == Spec => []CanStop
<1>1. Init => StopInv
  BY DEF Init, StopInv, CanStop
<1>2. StopInv /\ [Next]_vars => StopInv'
  BY StopInvInductive
<1>3. StopInv => CanStop
  BY DEF StopInv
<1> QED
  BY <1>1, <1>2, <1>3, PTL DEF Spec

-----------------------------------------------------------------------------
(* The life cycle of a port *)

\* A session that creates bonded devices detaches no port: a bonded device takes
\* over the status left behind at its index (cmd_create_bonded_device).
NoStatusReused ==
  \A s \in Sessions : "bond" \in s.cmds => "detach" \notin s.cmds \union s.running

LifeInv ==
  /\ session \in Sessions /\ test_done \in BOOLEAN
  /\ pc \in {"boot", "autostart"} => test_done
  /\ enabled \subseteq PortIds /\ status \in [PortIds -> States]
  /\ "bond" \in session.cmds => \A p \in PortIds \ enabled : status[p] = "STOPPED"

life == [p \in PortIds |-> IF p \in enabled THEN status[p] ELSE "ABSENT"]

\* Move of PortLife, with the refinement mapping.
LEMMA Moves ==
  ASSUME NEW a, NEW b, NEW S \in SUBSET PortIds, \A p \in S : life[p] = a,
         life' = [p \in PortIds |-> IF p \in S THEN b ELSE life[p]],
         test_done' = test_done
  PROVE  Life!Move(a, b)
<1>1. S \in SUBSET {p \in PortIds : life[p] = a}
  OBVIOUS
<1> QED
  BY <1>1 DEF Life!Move, life

\* One port moves and the others stay.
LEMMA OneMoves ==
  ASSUME NEW a, NEW b, NEW p \in PortIds, life[p] = a,
         life' = [q \in PortIds |-> IF q \in {p} THEN b ELSE life[q]],
         test_done' = test_done
  PROVE  Life!Move(a, b)
<1>1. {p} \in SUBSET PortIds /\ \A q \in {p} : life[q] = a
  OBVIOUS
<1> HIDE DEF life
<1> QED
  BY <1>1, Moves, Zenon, ZenonT(40)

\* The ports of S, all enabled, get another status.
LEMMA StatusMove ==
  ASSUME LifeInv, NEW a, NEW b \in States, NEW S \in SUBSET enabled,
         \A p \in S : status[p] = a,
         status' = [p \in PortIds |-> IF p \in S THEN b ELSE status[p]],
         UNCHANGED <<session, enabled, test_done>>, test_done
  PROVE  LifeInv' /\ Life!Move(a, b)
<1>1. LifeInv'
  BY DEF LifeInv
<1>2. S \in SUBSET PortIds /\ \A p \in S : life[p] = a
  BY DEF LifeInv, life
<1>3. life' = [p \in PortIds |-> IF p \in S THEN b ELSE life[p]]
  BY DEF LifeInv, life
<1> QED
  BY <1>1, <1>2, <1>3, Moves

\* Starting ports, in main and by command, whichever device fails.
LEMMA StartMove ==
  ASSUME LifeInv, NEW pid, NEW f, NEW k, StartPorts(pid, f, k),
         UNCHANGED <<session, enabled, test_done>>, test_done
  PROVE  LifeInv' /\ Life!Move("STOPPED", "STARTED")
<1> DEFINE todo == {p \in enabled : pid \in {p, ALL} /\ status[p] = "STOPPED"}
           ready == IF f = NoPort \/ k = "start" THEN todo ELSE {p \in todo : p < f}
           S == ready \ {f}
<1>1. status' = [p \in PortIds |-> IF p \in S THEN "STARTED" ELSE status[p]]
  BY DEF StartPorts
<1>2. S \in SUBSET enabled /\ \A p \in S : status[p] = "STOPPED"
  OBVIOUS
<1> HIDE DEF S
<1> QED
  BY <1>1, <1>2, StatusMove DEF States

\* Every step moves ports along their life cycle or not at all.
LEMMA LifeStep ==
  ASSUME NoStatusReused, LifeInv, [Next]_vars
  PROVE  LifeInv' /\ [Life!LifeNext]_(Life!lifeVars)
<1> DEFINE Goal == LifeInv' /\ [Life!LifeNext]_(Life!lifeVars)
<1>1. CASE Quiet
  <2>1. LifeInv'
    BY <1>1 DEF LifeInv, Quiet
  <2>2. UNCHANGED Life!lifeVars
    BY <1>1 DEF Quiet, Life!lifeVars
  <2> QED
    BY <2>1, <2>2
<1>2. CASE Begins \/ StopDone
  <2>1. UNCHANGED <<session, enabled, status>> /\ test_done' \in BOOLEAN
        /\ pc' \notin {"boot", "autostart"}
    BY <1>2, Zenon, ZenonT(40) DEF Begins, StopDone, portVars
  <2>2. LifeInv'
    BY <2>1 DEF LifeInv
  <2>3. Life!Forward
    BY <2>1 DEF Life!Forward
  <2> QED
    BY <2>2, <2>3 DEF Life!LifeNext
<1>3. CASE main
  <2>1. test_done /\ UNCHANGED <<session, enabled, test_done>>
    BY <1>3 DEF main, LifeInv
  <2>2. PICK f \in Faulty \union {NoPort}, k \in Failures : StartPorts(ALL, f, k)
    BY <1>3 DEF main
  <2>3. LifeInv' /\ Life!Move("STOPPED", "STARTED")
    BY <2>1, <2>2, StartMove
  <2> QED
    BY <2>1, <2>3 DEF Life!LifeNext, Life!Start
<1>4. ASSUME NEW p \in PortIds \union {ALL}, start_port(p) PROVE Goal
  <2>1. test_done /\ UNCHANGED <<session, enabled, test_done>>
    BY <1>4 DEF start_port
  <2>2. CASE StreamsExit(enabled, g)
    <3>1. status' = status
      BY <1>4, <2>2 DEF start_port
    <3>2. LifeInv'
      BY <2>1, <3>1 DEF LifeInv
    <3>3. UNCHANGED Life!lifeVars
      BY <2>1, <3>1 DEF Life!lifeVars
    <3> QED
      BY <3>2, <3>3
  <2>3. CASE ~StreamsExit(enabled, g)
    <3>1. PICK f \in Faulty \union {NoPort}, k \in Failures : StartPorts(p, f, k)
      BY <1>4, <2>3 DEF start_port
    <3>2. LifeInv' /\ Life!Move("STOPPED", "STARTED")
      BY <2>1, <3>1, StartMove
    <3> QED
      BY <2>1, <3>2 DEF Life!LifeNext, Life!Start
  <2> QED
    BY <2>2, <2>3
<1>5. ASSUME NEW p \in PortIds \union {ALL}, stop_port(p) PROVE Goal
  <2> DEFINE S == {q \in enabled : p \in {q, ALL} /\ status[q] = "STARTED"}
  <2>1. test_done /\ UNCHANGED <<session, enabled, test_done>>
    BY <1>5 DEF stop_port
  <2>2. status' = [q \in PortIds |-> IF q \in S THEN "STOPPED" ELSE status[q]]
    BY <1>5 DEF stop_port
  <2>3. S \in SUBSET enabled /\ \A q \in S : status[q] = "STARTED"
    OBVIOUS
  <2> HIDE DEF S
  <2>4. LifeInv' /\ Life!Move("STARTED", "STOPPED")
    BY <2>1, <2>2, <2>3, StatusMove DEF States
  <2> QED
    BY <2>1, <2>4 DEF Life!LifeNext, Life!Stop
<1>6. ASSUME NEW p \in PortIds \union {ALL}, close_port(p) PROVE Goal
  <2> DEFINE S == {q \in enabled : p \in {q, ALL} /\ status[q] = "STOPPED"}
  <2>1. test_done /\ UNCHANGED <<session, enabled, test_done>>
    BY <1>6 DEF close_port
  <2>2. status' = [q \in PortIds |-> IF q \in S THEN "CLOSED" ELSE status[q]]
    BY <1>6 DEF close_port
  <2>3. S \in SUBSET enabled /\ \A q \in S : status[q] = "STOPPED"
    OBVIOUS
  <2> HIDE DEF S
  <2>4. LifeInv' /\ Life!Move("STOPPED", "CLOSED")
    BY <2>1, <2>2, <2>3, StatusMove DEF States
  <2> QED
    BY <2>1, <2>4 DEF Life!LifeNext, Life!Close
<1>7. ASSUME NEW p \in PortIds, attach_port(p) PROVE Goal
  <2>1. /\ test_done /\ p \notin enabled /\ enabled' = enabled \union {p}
        /\ status' = [status EXCEPT ![p] = "STOPPED"]
        /\ UNCHANGED <<session, test_done>>
    BY <1>7 DEF attach_port, FreePort
  <2>2. LifeInv'
    BY <2>1 DEF LifeInv, States
  <2>3. life' = [q \in PortIds |-> IF q \in {p} THEN "STOPPED" ELSE life[q]]
        /\ life[p] = "ABSENT"
    BY <2>1 DEF LifeInv, life
  <2>4. Life!Move("ABSENT", "STOPPED")
    BY <2>1, <2>3, OneMoves
  <2> QED
    BY <2>1, <2>2, <2>4 DEF Life!LifeNext, Life!Open
<1>8. ASSUME NEW p \in PortIds, detach_port(p) PROVE Goal
  <2>1. /\ p \in enabled /\ status[p] = "CLOSED" /\ enabled' = enabled \ {p}
        /\ UNCHANGED <<session, pc, status, test_done>>
    BY <1>8 DEF detach_port
  <2>2. "bond" \notin session.cmds
    BY <1>8 DEF detach_port, Typed, NoStatusReused, LifeInv
  <2>3. LifeInv'
    BY <2>1, <2>2 DEF LifeInv
  <2>4. life' = [q \in PortIds |-> IF q \in {p} THEN "ABSENT" ELSE life[q]]
        /\ life[p] = "CLOSED"
    BY <2>1 DEF LifeInv, life
  <2>5. Life!Move("CLOSED", "ABSENT")
    BY <2>1, <2>4, OneMoves
  <2> QED
    BY <2>3, <2>5 DEF Life!LifeNext, Life!Remove
<1>9. ASSUME NEW p \in PortIds, cmd_create_bonded_device(p) PROVE Goal
  <2>1. /\ test_done /\ p \notin enabled /\ enabled' = enabled \union {p}
        /\ UNCHANGED <<session, status, test_done>>
    BY <1>9 DEF cmd_create_bonded_device, FreePort
  <2>2. status[p] = "STOPPED"
    BY <1>9, <2>1 DEF cmd_create_bonded_device, Typed, LifeInv
  <2>3. LifeInv'
    BY <2>1 DEF LifeInv
  <2>4. life' = [q \in PortIds |-> IF q \in {p} THEN "STOPPED" ELSE life[q]]
        /\ life[p] = "ABSENT"
    BY <2>1, <2>2 DEF LifeInv, life
  <2>5. Life!Move("ABSENT", "STOPPED")
    BY <2>1, <2>4, OneMoves
  <2> QED
    BY <2>1, <2>3, <2>5 DEF Life!LifeNext, Life!Open
<1>10. ASSUME NEW p \in PortIds, SlaveStep(p) PROVE Goal
  <2>1. UNCHANGED <<session, pc, enabled, status, test_done>>
    BY <1>10 DEF SlaveStep, cmd_set_bonding_primary, cmd_add_bonding_slave,
                 cmd_remove_bonding_slave, Refresh
  <2>2. LifeInv'
    BY <2>1 DEF LifeInv
  <2>3. UNCHANGED Life!lifeVars
    BY <2>1 DEF Life!lifeVars
  <2> QED
    BY <2>2, <2>3
<1> QED
  <2> HIDE DEF Goal
  <2>1. Goal
    BY <1>1, <1>2, <1>3, <1>4, <1>5, <1>6, <1>7, <1>8, <1>9, <1>10, StepCases
    DEF PortStep, Goal
  <2> QED
    BY <2>1 DEF Goal

\* The handlers of testpmd implement PortLife: a port is opened stopped, closed
\* only when stopped and removed only when closed, and nothing but the removal
\* of a closed port happens while packets are forwarded, for any number of ports.
THEOREM PortsLive ==
  ASSUME NoStatusReused
  PROVE  Spec => LifeCycle
<1>1. Init => LifeInv /\ Life!LifeInit
  <2> SUFFICES ASSUME Init PROVE LifeInv /\ Life!LifeInit
    BY SMTT(30), SMTT(60)
  <2>1. /\ session \in Sessions /\ enabled \subseteq PortIds /\ test_done = TRUE
        /\ status = [p \in PortIds |-> "STOPPED"]
    BY SessionsAssumption DEF Init
  <2>2. LifeInv
    BY <2>1 DEF LifeInv, States
  <2>3. Life!LifeInit
    BY <2>1 DEF Life!LifeInit
  <2> QED
    BY <2>2, <2>3
<1>2. LifeInv /\ [Next]_vars => LifeInv' /\ [Life!LifeNext]_(Life!lifeVars)
  BY LifeStep, SMTT(30), SMTT(60)
<1> QED
  BY <1>1, <1>2, PTL DEF Spec, LifeCycle, Life!LifeSpec

-----------------------------------------------------------------------------
(* The configuration in force *)

Value == Settings \union {0, 1}
Count == {s.rxq : s \in Sessions} \union {s.txq : s \in Sessions} \union (0 .. MaxQ + 1) \union {Tcs}
         \union StackCounts
Mode  == {"none", "rss", "dcb"}
Device == [rx : Count, tx : Count, mq : Mode, speed : Value, set : [Kinds -> Value]]
PortRecord ==
  [need : BOOLEAN, needq : BOOLEAN, dcb : BOOLEAN, speed : Value, bonded : BOOLEAN,
   mq : Mode, set : [Kinds -> Value], dev : Device]

ConfigTypes ==
  /\ session \in Sessions
  /\ enabled \subseteq PortIds /\ status \in [PortIds -> States]
  /\ port \in [PortIds -> PortRecord]
  /\ g.rxq \in Count /\ g.txq \in Count /\ g.set \in [Kinds -> Value]
  /\ DOMAIN g = {"rxq", "txq", "set", "burst", "dcb_config", "dcb_test", "icmp", "ids",
                 "nbport", "nbcfg", "nblc", "nbcfglc"}

\* What a port is not flagged for, its device has.
InStep(p) ==
  LET r == port[p] IN
  /\ ~r.need => /\ r.dev.mq = r.mq /\ r.dev.speed = r.speed
                /\ \A k \in DevKinds : r.dev.set[k] = r.set[k]
  /\ ~r.needq => /\ r.dev.rx = g.rxq /\ r.dev.tx = g.txq
                 /\ \A k \in QueueKinds : r.dev.set[k] = r.set[k]

ConfigInv ==
  /\ ConfigTypes
  /\ \A p \in PortIds \ enabled : status[p] # "STARTED"
  /\ \A p \in enabled \ behind :
       /\ InStep(p)
       /\ status[p] = "STARTED" => ~port[p].need /\ ~port[p].needq

\* The global settings that the ports take over.
SameSettings == g'.rxq = g.rxq /\ g'.txq = g.txq /\ g'.set = g.set /\ DOMAIN g' = DOMAIN g

\* Steps that change neither ports nor settings.
Bystander == SameSettings /\ UNCHANGED <<session, enabled, status, slave, port, behind>>

\* Steps that neither configure nor start a port keep the settings in force.
LEMMA BystanderStep == ASSUME ConfigInv, Bystander PROVE ConfigInv'
<1>1. ConfigTypes'
  BY Zenon, ZenonT(40) DEF ConfigInv, ConfigTypes, Bystander, SameSettings
<1> QED
  BY <1>1, SMTT(30), SMTT(60) DEF ConfigInv, Bystander, SameSettings, InStep

\* The commands that set the forwarding configuration leave the settings alone.
LEMMA FwdBystander ==
  ASSUME ConfigTypes,
         \/ cmd_set_list \/ set_fwd_lcores_number \/ set_fwd_ports_number
         \/ set_def_fwd_config \/ set_pkt_forwarding_mode
  PROVE  Bystander
<1> USE DEF ConfigTypes, SameSettings
<1>1. ASSUME NEW gl, SetFwd(gl), gl.rxq = g.rxq, gl.txq = g.txq, gl.set = g.set, DOMAIN gl = DOMAIN g
      PROVE  Bystander
  BY <1>1 DEF SetFwd, Bystander, portVars, histVars
<1>2. CASE cmd_set_list
  <2>1. ASSUME NEW n, SetFwd([g EXCEPT !.nbcfglc = n, !.nblc = n]) PROVE Bystander
    BY <1>1, <2>1, Zenon, ZenonT(40)
  <2>2. ASSUME NEW n, NEW i, SetFwd([g EXCEPT !.nbcfg = n, !.nbport = n, !.ids = i]) PROVE Bystander
    BY <1>1, <2>2, Zenon, ZenonT(40)
  <2> QED
    BY <1>2, <2>1, <2>2, Zenon, ZenonT(40) DEF cmd_set_list
<1>3. CASE set_fwd_lcores_number
  BY <1>1, <1>3 DEF set_fwd_lcores_number
<1>4. CASE set_fwd_ports_number
  BY <1>1, <1>4 DEF set_fwd_ports_number
<1>5. CASE set_def_fwd_config
  <2>1. ASSUME NEW a, NEW b, NEW i, SetFwd([g EXCEPT !.nbcfglc = a, !.nblc = 1, !.nbcfg = b, !.nbport = b, !.ids = i])
        PROVE  Bystander
    BY <1>1, <2>1, Zenon, ZenonT(40)
  <2> QED
    BY <1>5, <2>1, Zenon, ZenonT(40) DEF set_def_fwd_config
<1>6. CASE set_pkt_forwarding_mode
  BY <1>1, <1>6, SMTT(30), SMTT(60) DEF set_pkt_forwarding_mode
<1> QED
  BY <1>2, <1>3, <1>4, <1>5, <1>6, SMTT(30), SMTT(60)

\* Every step is a bystander, starts ports, changes a status or the configuration.
LEMMA ConfigCases ==
  ASSUME ConfigTypes, [Next]_vars
  PROVE  \/ Bystander \/ main
         \/ \E p \in PortIds \union {ALL} : PortStep(p)
         \/ \E p \in PortIds : \/ attach_port(p) \/ detach_port(p) \/ cmd_config_dcb(p)
                               \/ cmd_create_bonded_device(p) \/ SlaveStep(p)
         \/ cmd_config_rx_tx \/ cmd_config_max_pkt_len \/ cmd_config_rx_mode_flag
         \/ cmd_config_thresh \/ cmd_config_threshold \/ cmd_config_burst
         \/ cmd_config_speed_all \/ cmd_config_speed_specific
<1> USE DEF Bystander, SameSettings, portVars, histVars
<1>1. ASSUME NEW st, NEW then, StartForwarding(st, then) PROVE Bystander
  BY <1>1 DEF StartForwarding
<1>2. CASE auto_start
  BY <1>1, <1>2 DEF auto_start
<1>3. CASE TxFirstDone \/ StopDone
  BY <1>3 DEF TxFirstDone, StopDone
<1>4. CASE fwd_config_display
  BY <1>4 DEF fwd_config_display
<1>5. CASE cmd_start \/ cmd_start_tx_first
  BY <1>1, <1>5 DEF cmd_start, cmd_start_tx_first
<1>6. CASE stop_packet_forwarding \/ pmd_test_exit
  BY <1>6 DEF stop_packet_forwarding, pmd_test_exit
<1>7. CASE \E lc \in Lcores : run_pkt_fwd_on_lcore(lc)
  BY <1>7 DEF run_pkt_fwd_on_lcore
<1>8. CASE UNCHANGED vars
  BY <1>8, SMTT(30), SMTT(60) DEF vars
<1>9. CASE (\E lc \in Lcores : pkt_fwd(lc)) \/ Exited
  BY <1>8, <1>9, SMTT(30), SMTT(60) DEF pkt_fwd, Exited
<1> HIDE DEF Bystander
<1>10. CASE Command
  BY <1>4, <1>5, <1>6, <1>10, FwdBystander DEF Command, PortStep, SlaveStep
<1>11. CASE Master
  BY <1>2, <1>3, <1>11 DEF Master
<1> QED
  BY <1>7, <1>8, <1>9, <1>10, <1>11 DEF Next

ModeOf(r, gl) == IF gl.rxq > 1 /\ ~r.dcb THEN "rss" ELSE "none"

\* What init_port_config and cmd_reconfig_device_queue make of one record.
LEMMA RecordTypes ==
  ASSUME NEW r \in PortRecord
  PROVE  /\ \A v \in [Kinds -> Value], m \in Mode :
              /\ [r EXCEPT !.set = v, !.mq = m] \in PortRecord
              /\ [r EXCEPT !.set = v, !.mq = m].set = v
              /\ [r EXCEPT !.set = v, !.mq = m].mq = m
         /\ [r EXCEPT !.need = TRUE, !.needq = TRUE] \in PortRecord
         /\ \A v \in Value : [r EXCEPT !.speed = v] \in PortRecord
BY Zenon, ZenonT(40) DEF PortRecord, Device

\* init_port_config keeps the types.
LEMMA InitPortTypes ==
  ASSUME NEW pt \in [PortIds -> PortRecord], NEW en, NEW gl, gl.set \in [Kinds -> Value]
  PROVE  init_port_config(pt, en, gl) \in [PortIds -> PortRecord]
<1>1. ASSUME NEW r \in PortRecord
      PROVE  [r EXCEPT !.set = gl.set, !.mq = IF gl.rxq > 1 /\ ~r.dcb THEN "rss" ELSE "none"] \in PortRecord
  BY <1>1, RecordTypes, Zenon, ZenonT(40) DEF Mode
<1> QED
  BY <1>1, Zenon, ZenonT(40) DEF init_port_config

\* Flagging ports for reconfiguration keeps the types.
LEMMA FlagTypes ==
  ASSUME NEW pt \in [PortIds -> PortRecord], NEW S
  PROVE  /\ Flag(pt, S) \in [PortIds -> PortRecord]
         /\ \A p \in PortIds : p \notin S => Flag(pt, S)[p] = pt[p]
         /\ \A p \in PortIds : p \in S => /\ Flag(pt, S)[p].need /\ Flag(pt, S)[p].needq
                                          /\ Flag(pt, S)[p].set = pt[p].set
                                          /\ Flag(pt, S)[p].mq = pt[p].mq
                                          /\ Flag(pt, S)[p].dcb = pt[p].dcb
<1>1. ASSUME NEW r \in PortRecord
      PROVE  LET f == [r EXCEPT !.need = TRUE, !.needq = TRUE]
             IN f \in PortRecord /\ f.need /\ f.needq /\ f.set = r.set /\ f.mq = r.mq /\ f.dcb = r.dcb
  BY <1>1, Zenon, ZenonT(40) DEF PortRecord
<1> QED
  BY <1>1, Zenon, ZenonT(40) DEF Flag

\* After init_port_config a port has the given settings; other ports are untouched.
LEMMA InitPortSets ==
  ASSUME NEW pt \in [PortIds -> PortRecord], NEW en, NEW gl, NEW p \in PortIds
  PROVE  LET n == init_port_config(pt, en, gl)[p]
         IN /\ p \notin en => n = pt[p]
            /\ p \in en => /\ n.set = gl.set /\ n.mq = ModeOf(pt[p], gl) /\ n.dcb = pt[p].dcb
                           /\ n.need = pt[p].need /\ n.needq = pt[p].needq
                           /\ n.speed = pt[p].speed /\ n.dev = pt[p].dev
<1>1. pt[p] \in PortRecord
  OBVIOUS
<1> QED
  BY <1>1 DEF init_port_config, PortRecord, ModeOf

\* A port that a refresh changes, flagged or counted as behind, stays in step.
LEMMA RefreshedInStep ==
  ASSUME ConfigTypes, NEW pt \in [PortIds -> PortRecord], NEW en, NEW q \in enabled,
         pt[q] = port[q], port' = init_port_config(pt, en, g), SameSettings,
         q \notin Rewritten(port'), InStep(q)
  PROVE  InStep(q)' /\ port'[q].need = port[q].need /\ port'[q].needq = port[q].needq
<1>1. q \in PortIds
  BY DEF ConfigTypes
<1>2. /\ port'[q].need = port[q].need /\ port'[q].needq = port[q].needq
      /\ port'[q].speed = port[q].speed /\ port'[q].dev = port[q].dev
  <2>1. CASE q \in en
    BY <1>1, <2>1, InitPortSets
  <2>2. CASE q \notin en
    BY <1>1, <2>2, InitPortSets
  <2> QED
    BY <2>1, <2>2
<1>3. CASE port[q].need /\ port[q].needq
  BY <1>2, <1>3, Zenon, ZenonT(40) DEF InStep
<1>4. CASE ~(port[q].need /\ port[q].needq)
  <2>1. <<port'[q].set, port'[q].mq>> = <<port[q].set, port[q].mq>>
    BY <1>4, Zenon, ZenonT(40) DEF Rewritten
  <2>2. port'[q].set = port[q].set /\ port'[q].mq = port[q].mq
    BY <2>1
  <2> QED
    BY <1>2, <2>2, Zenon, ZenonT(40) DEF InStep, SameSettings
<1> QED
  BY <1>3, <1>4

\* The common end of the "port config all" commands flags every port it refreshes.
LEMMA ConfigAllStep ==
  ASSUME ConfigInv, NEW gl, ConfigAll(gl, port),
         gl.rxq \in Count, gl.txq \in Count, gl.set \in [Kinds -> Value], DOMAIN gl = DOMAIN g
  PROVE  ConfigInv'
<1>1. /\ g' = gl /\ port' = Flag(init_port_config(port, enabled, gl), enabled)
      /\ behind' = FlaggedLate
      /\ UNCHANGED <<session, enabled, status, slave>>
  BY SMTT(30), SMTT(60) DEF ConfigAll
<1> DEFINE ip == init_port_config(port, enabled, gl)
<1>2. ip \in [PortIds -> PortRecord]
  BY InitPortTypes, SMTT(30), SMTT(60) DEF ConfigInv, ConfigTypes
<1>3. ConfigTypes'
  BY <1>1, <1>2, FlagTypes, SMTT(30), SMTT(60) DEF ConfigInv, ConfigTypes
<1> HIDE DEF ip
<1>4. \A p \in enabled : port'[p].need /\ port'[p].needq
  <2>1. enabled \subseteq PortIds
    BY Zenon, ZenonT(40) DEF ConfigInv, ConfigTypes
  <2>2. \A p \in PortIds : p \in enabled => Flag(ip, enabled)[p].need /\ Flag(ip, enabled)[p].needq
    BY <1>2, FlagTypes, Zenon, ZenonT(40)
  <2> QED
    BY <1>1, <2>1, <2>2, Zenon, ZenonT(40) DEF ip
<1>5. \A p \in enabled : InStep(p)'
  BY <1>4, SMTT(30), SMTT(60) DEF InStep
<1>6. \A p \in enabled \ behind' : status[p] # "STARTED"
  BY <1>1 DEF FlaggedLate
<1> QED
  BY <1>1, <1>3, <1>5, <1>6, Zenon, ZenonT(40) DEF ConfigInv

\* A new speed flags the ports it is for.
LEMMA SpeedStep ==
  ASSUME ConfigInv, NEW S \in SUBSET enabled, NEW v \in Settings, SetSpeed(S, v)
  PROVE  ConfigInv'
<1> DEFINE sp == [p \in PortIds |-> IF p \in S THEN [port[p] EXCEPT !.speed = v] ELSE port[p]]
<1>1. /\ port' = Flag(sp, enabled) /\ behind' = FlaggedLate
      /\ UNCHANGED <<session, enabled, status, slave, g>>
  BY DEF SetSpeed
<1>2. sp \in [PortIds -> PortRecord]
  BY RecordTypes, ZenonT(40), ZenonT(60) DEF ConfigInv, ConfigTypes, Value
<1>3. ConfigTypes'
  BY <1>1, <1>2, FlagTypes DEF ConfigInv, ConfigTypes
<1> HIDE DEF sp
<1>5. \A p \in enabled : p \in PortIds /\ port'[p].need /\ port'[p].needq
  <2>1. \A p \in enabled : p \in PortIds
    BY Zenon, ZenonT(40) DEF ConfigInv, ConfigTypes
  <2>2. \A p \in PortIds : p \in enabled => Flag(sp, enabled)[p].need /\ Flag(sp, enabled)[p].needq
    BY <1>2, FlagTypes, Zenon, ZenonT(40)
  <2> QED BY <1>1, <2>1, <2>2, Zenon, ZenonT(40)
<1>6. \A p \in enabled : InStep(p)'
  BY <1>1, <1>5, SMTT(30), SMTT(60) DEF InStep
<1>7. \A p \in enabled \ behind' : status[p] # "STARTED"
  BY <1>1 DEF FlaggedLate
<1> QED
  BY <1>1, <1>3, <1>6, <1>7, Zenon, ZenonT(40) DEF ConfigInv

\* A configuration command flags the ports it concerns.
LEMMA SettingStep ==
  ASSUME ConfigInv,
         \/ cmd_config_rx_tx \/ cmd_config_max_pkt_len \/ cmd_config_rx_mode_flag
         \/ cmd_config_thresh \/ cmd_config_threshold \/ cmd_config_burst
         \/ cmd_config_speed_all \/ cmd_config_speed_specific
  PROVE  ConfigInv'
<1>0. ConfigTypes
  BY DEF ConfigInv
<1>3. ASSUME NEW k \in Kinds, NEW v \in Settings, ConfigAll([g EXCEPT !.set[k] = v], port)
      PROVE  ConfigInv'
  <2> DEFINE gl == [g EXCEPT !.set[k] = v]
  <2>1. gl.rxq = g.rxq /\ gl.txq = g.txq /\ gl.set = [g.set EXCEPT ![k] = v] /\ DOMAIN gl = DOMAIN g
    BY <1>0 DEF ConfigTypes
  <2>2. gl.set \in [Kinds -> Value]
    BY <1>0, <2>1 DEF ConfigTypes, Value
  <2> HIDE DEF gl
  <2> QED
    BY <1>0, <1>3, <2>1, <2>2, ConfigAllStep DEF ConfigTypes, gl
<1>4. CASE cmd_config_rx_tx
  <2>1. ASSUME NEW v \in 0 .. MaxQ + 1, ConfigAll([g EXCEPT !.rxq = v], port) PROVE ConfigInv'
    <3> DEFINE gl == [g EXCEPT !.rxq = v]
    <3>1. gl.rxq = v /\ gl.txq = g.txq /\ gl.set = g.set /\ DOMAIN gl = DOMAIN g
      BY <1>0 DEF ConfigTypes
    <3> HIDE DEF gl
    <3> QED
      BY <1>0, <2>1, <3>1, ConfigAllStep DEF ConfigTypes, gl, Count
  <2>2. ASSUME NEW v \in 0 .. MaxQ + 1, ConfigAll([g EXCEPT !.txq = v], port) PROVE ConfigInv'
    <3> DEFINE gl == [g EXCEPT !.txq = v]
    <3>1. gl.rxq = g.rxq /\ gl.txq = v /\ gl.set = g.set /\ DOMAIN gl = DOMAIN g
      BY <1>0 DEF ConfigTypes
    <3> HIDE DEF gl
    <3> QED
      BY <1>0, <2>2, <3>1, ConfigAllStep DEF ConfigTypes, gl, Count
  <2>3. "desc" \in Kinds
    BY DEF Kinds, QueueKinds
  <2> QED
    BY <1>3, <1>4, <2>1, <2>2, <2>3, Zenon, ZenonT(40) DEF cmd_config_rx_tx
<1>5. CASE cmd_config_max_pkt_len
  BY <1>3, <1>5 DEF cmd_config_max_pkt_len, Kinds, DevKinds
<1>6. CASE cmd_config_rx_mode_flag
  BY <1>3, <1>6 DEF cmd_config_rx_mode_flag, Kinds, DevKinds
<1>7. CASE cmd_config_thresh
  BY <1>3, <1>7 DEF cmd_config_thresh, Kinds, QueueKinds
<1>8. CASE cmd_config_threshold
  BY <1>3, <1>8 DEF cmd_config_threshold, Kinds, QueueKinds
<1>9. CASE cmd_config_burst
  <2>1. PICK v \in Settings : ConfigAll([g EXCEPT !.burst = v], port)
    BY <1>9 DEF cmd_config_burst
  <2> DEFINE gl == [g EXCEPT !.burst = v]
  <2>2. gl.rxq = g.rxq /\ gl.txq = g.txq /\ gl.set = g.set /\ DOMAIN gl = DOMAIN g
    BY <1>0 DEF ConfigTypes
  <2> HIDE DEF gl
  <2> QED
    BY <1>0, <2>1, <2>2, ConfigAllStep DEF ConfigTypes, gl
<1>10. CASE cmd_config_speed_all \/ cmd_config_speed_specific
  <2>2. PICK S \in SUBSET enabled, v \in Settings : SetSpeed(S, v)
    BY <1>10, Zenon, ZenonT(40) DEF cmd_config_speed_all, cmd_config_speed_specific
  <2> QED
    BY <2>2, SpeedStep
<1> QED
  BY <1>4, <1>5, <1>6, <1>7, <1>8, <1>9, <1>10, SMTT(30), SMTT(60)

\* rte_eth_dev_configure and the queue setups bring a device in step with its record.
SameRecord(c, r) == /\ c.set = r.set /\ c.mq = r.mq /\ c.speed = r.speed /\ c.dcb = r.dcb
                    /\ \A k \in Kinds : c.set[k] = r.set[k]
DevAgrees(r) == /\ r.dev.mq = r.mq /\ r.dev.speed = r.speed
                /\ \A k \in DevKinds : r.dev.set[k] = r.set[k]
QueuesAgree(r) == /\ r.dev.rx = g.rxq /\ r.dev.tx = g.txq
                  /\ \A k \in QueueKinds : r.dev.set[k] = r.set[k]

\* Configuring a device gives it the settings of the port.
LEMMA ConfiguredRecord ==
  ASSUME NEW r \in PortRecord
  PROVE  LET c == Configured(r)
         IN /\ c \in PortRecord /\ ~c.need /\ c.needq = r.needq /\ SameRecord(c, r)
            /\ (~r.need => DevAgrees(r)) => DevAgrees(c)
            /\ QueuesAgree(r) => QueuesAgree(c)
<1>1. CASE ~r.need
  BY <1>1, SMTT(30), SMTT(60) DEF Configured, SameRecord
<1>2. CASE r.need
  <2> DEFINE ds == [k \in Kinds |-> IF k \in DevKinds THEN r.set[k] ELSE r.dev.set[k]]
             c == [r EXCEPT !.need = FALSE, !.dev.mq = r.mq, !.dev.speed = r.speed, !.dev.set = ds]
  <2>1. /\ ds \in [Kinds -> Value]
        /\ \A k \in DevKinds : ds[k] = r.set[k]
        /\ \A k \in QueueKinds : ds[k] = r.dev.set[k]
    BY DEF PortRecord, Device, Kinds, DevKinds, QueueKinds
  <2> HIDE DEF ds
  <2>2. /\ c \in PortRecord /\ ~c.need /\ c.needq = r.needq /\ SameRecord(c, r)
        /\ c.dev.mq = r.mq /\ c.dev.speed = r.speed /\ c.dev.set = ds
        /\ c.dev.rx = r.dev.rx /\ c.dev.tx = r.dev.tx
    BY <2>1, Zenon, ZenonT(40) DEF PortRecord, Device, SameRecord
  <2>3. Configured(r) = c
    BY <1>2 DEF Configured, ds
  <2> HIDE DEF c
  <2>4. DevAgrees(c)
    BY <2>1, <2>2, SMTT(30), SMTT(60) DEF DevAgrees, SameRecord
  <2>5. QueuesAgree(r) => QueuesAgree(c)
    BY <2>1, <2>2, SMTT(30), SMTT(60) DEF QueuesAgree, SameRecord
  <2> QED
    BY <2>2, <2>3, <2>4, <2>5, SMTT(30), SMTT(60)
<1> QED
  BY <1>1, <1>2

\* Setting up the queues gives them the settings of the port.
LEMMA ReadyRecord ==
  ASSUME NEW r \in PortRecord, g.rxq \in Count, g.txq \in Count
  PROVE  LET c == QueuesReady(r)
         IN /\ c \in PortRecord /\ ~c.needq /\ c.need = r.need /\ SameRecord(c, r)
            /\ (~r.needq => QueuesAgree(r)) => QueuesAgree(c)
            /\ DevAgrees(r) => DevAgrees(c)
<1>1. CASE ~r.needq
  BY <1>1, SMTT(30), SMTT(60) DEF QueuesReady, SameRecord
<1>2. CASE r.needq
  <2> DEFINE ds == [k \in Kinds |-> IF k \in QueueKinds THEN r.set[k] ELSE r.dev.set[k]]
             c == [r EXCEPT !.needq = FALSE, !.dev.rx = g.rxq, !.dev.tx = g.txq, !.dev.set = ds]
  <2>1. /\ ds \in [Kinds -> Value]
        /\ \A k \in QueueKinds : ds[k] = r.set[k]
        /\ \A k \in DevKinds : ds[k] = r.dev.set[k]
    BY DEF PortRecord, Device, Kinds, DevKinds, QueueKinds
  <2> HIDE DEF ds
  <2>2. /\ c \in PortRecord /\ ~c.needq /\ c.need = r.need /\ SameRecord(c, r)
        /\ c.dev.mq = r.dev.mq /\ c.dev.speed = r.dev.speed /\ c.dev.set = ds
        /\ c.dev.rx = g.rxq /\ c.dev.tx = g.txq
    BY <2>1, Zenon, ZenonT(40) DEF PortRecord, Device, SameRecord
  <2>3. QueuesReady(r) = c
    BY <1>2 DEF QueuesReady, ds
  <2> HIDE DEF c
  <2>4. QueuesAgree(c)
    BY <2>1, <2>2, SMTT(30), SMTT(60) DEF QueuesAgree, SameRecord
  <2>5. DevAgrees(r) => DevAgrees(c)
    BY <2>1, <2>2 DEF DevAgrees, SameRecord
  <2> QED
    BY <2>2, <2>3, <2>4, <2>5, SMTT(30), SMTT(60)
<1> QED
  BY <1>1, <1>2

\* Starting ports, wherever a device fails: a port counts as started only when
\* both halves of its setup are done.
LEMMA StartConfigStep ==
  ASSUME ConfigInv, NEW pid, NEW f, NEW k, StartPorts(pid, f, k),
         UNCHANGED <<session, enabled, slave>>
  PROVE  ConfigInv'
<1> DEFINE todo == {p \in enabled : pid \in {p, ALL} /\ status[p] = "STOPPED"}
           ready == IF f = NoPort \/ k = "start" THEN todo ELSE {p \in todo : p < f}
<1>0. ConfigTypes /\ enabled \subseteq PortIds /\ g.rxq \in Count /\ g.txq \in Count
  BY Zenon, ZenonT(40) DEF ConfigInv, ConfigTypes
<1>1. /\ status' = [p \in PortIds |-> IF p \in ready \ {f} THEN "STARTED" ELSE status[p]]
      /\ port' = [p \in PortIds |->
                    IF p \in ready THEN QueuesReady(Configured(port[p]))
                    ELSE IF p = f /\ k = "queues" THEN Configured(port[p])
                    ELSE port[p]]
      /\ g' = [g EXCEPT !.dcb_test = @ \/ g.dcb_config]
      /\ behind' = behind \ {p \in ready : port[p].need /\ port[p].needq}
  BY DEF StartPorts
<1>2. ready \subseteq enabled
  OBVIOUS
<1> HIDE DEF ready
<1>3. SameSettings
  BY <1>0, <1>1 DEF SameSettings, ConfigTypes
<1>4. ASSUME NEW p \in PortIds
      PROVE  /\ port'[p] \in PortRecord /\ SameRecord(port'[p], port[p])
             /\ p \in ready => ~port'[p].need /\ ~port'[p].needq
             /\ ~port[p].need => ~port'[p].need
             /\ ~port[p].needq => ~port'[p].needq
             /\ InStep(p) => /\ ~port'[p].need => DevAgrees(port'[p])
                             /\ ~port'[p].needq => QueuesAgree(port'[p])
  <2> DEFINE r == port[p]  c == Configured(r)  q == QueuesReady(c)
  <2>1. r \in PortRecord
    BY <1>0, Zenon, ZenonT(40) DEF ConfigTypes
  <2> HIDE DEF r
  <2>2. /\ c \in PortRecord /\ ~c.need /\ c.needq = r.needq /\ SameRecord(c, r)
        /\ (~r.need => DevAgrees(r)) => DevAgrees(c)
        /\ QueuesAgree(r) => QueuesAgree(c)
    BY <2>1, ConfiguredRecord, SMTT(30), SMTT(60)
  <2> HIDE DEF c
  <2>3. /\ q \in PortRecord /\ ~q.needq /\ q.need = c.need /\ SameRecord(q, c)
        /\ (~c.needq => QueuesAgree(c)) => QueuesAgree(q)
        /\ DevAgrees(c) => DevAgrees(q)
    BY <1>0, <2>2, ReadyRecord, SMTT(30), SMTT(60)
  <2> HIDE DEF q
  <2>4. InStep(p) => (~r.need => DevAgrees(r)) /\ (~r.needq => QueuesAgree(r))
    BY DEF InStep, DevAgrees, QueuesAgree, r
  <2>5. port'[p] = IF p \in ready THEN q ELSE IF p = f /\ k = "queues" THEN c ELSE r
    BY <1>1, SMTT(30), SMTT(60) DEF q, c, r
  <2>6. SameRecord(q, r) /\ SameRecord(r, r)
    BY <2>2, <2>3, SMTT(30), SMTT(60) DEF SameRecord
  <2>7. CASE p \in ready
    <3>1. port'[p] = q
      BY <2>5, <2>7
    <3>2. InStep(p) => DevAgrees(q) /\ QueuesAgree(q)
      BY <2>2, <2>3, <2>4, SMTT(30), SMTT(60)
    <3> QED
      BY <2>2, <2>3, <2>6, <3>1, <3>2, SMTT(30), SMTT(60) DEF r
  <2>8. CASE p \notin ready /\ p = f /\ k = "queues"
    <3>1. port'[p] = c
      BY <2>5, <2>8
    <3>2. InStep(p) => DevAgrees(c) /\ (~c.needq => QueuesAgree(c))
      BY <2>2, <2>4, SMTT(30), SMTT(60)
    <3> QED
      BY <2>2, <2>8, <3>1, <3>2 DEF r
  <2>9. CASE p \notin ready /\ ~(p = f /\ k = "queues")
    <3>1. port'[p] = r
      BY <2>5, <2>9, SMTT(30), SMTT(60)
    <3> QED
      BY <2>1, <2>4, <2>6, <2>9, <3>1, SMTT(30), SMTT(60) DEF r
  <2> QED
    BY <2>7, <2>8, <2>9, Zenon, ZenonT(40)
<1>5. ConfigTypes'
  <2>1. port' \in [PortIds -> PortRecord]
    BY <1>1, <1>4
  <2>2. status' \in [PortIds -> States]
    BY <1>0, <1>1 DEF ConfigTypes, States
  <2> QED
    BY <1>0, <1>3, <2>1, <2>2 DEF ConfigTypes, SameSettings
<1>6. \A p \in PortIds : InStep(p) => InStep(p)'
  BY <1>3, <1>4, Zenon, ZenonT(40) DEF InStep, SameSettings, DevAgrees, QueuesAgree
<1>7. \A p \in enabled \ behind' :
        /\ InStep(p)
        /\ p \in ready \/ (status[p] = "STARTED" => ~port[p].need /\ ~port[p].needq)
  <2>1. \A p \in enabled \ behind' : p \notin behind \/ (p \in ready /\ port[p].need /\ port[p].needq)
    BY <1>1, Zenon, ZenonT(40)
  <2>2. \A p \in PortIds : port[p].need /\ port[p].needq => InStep(p)
    BY Zenon, ZenonT(40) DEF InStep
  <2> QED
    BY <1>0, <2>1, <2>2, Zenon, ZenonT(40) DEF ConfigInv
<1>8. \A p \in enabled : status'[p] = "STARTED" => status[p] = "STARTED" \/ p \in ready
  BY <1>0, <1>1
<1>9. \A p \in PortIds \ enabled : status'[p] = status[p]
  BY <1>1, <1>2
<1> QED
  BY <1>0, <1>4, <1>5, <1>6, <1>7, <1>8, <1>9, Zenon, ZenonT(40) DEF ConfigInv

\* The DCB command flags the one port whose record it writes.
LEMMA DcbStep ==
  ASSUME ConfigInv, NEW p \in PortIds, cmd_config_dcb(p)
  PROVE  ConfigInv'
<1>0. /\ ConfigTypes /\ status[p] = "STOPPED"
      /\ UNCHANGED <<session, enabled, status, slave>>
  BY Zenon, ZenonT(40) DEF cmd_config_dcb, ConfigInv
<1>a. PICK vt \in BOOLEAN : \E q \in DcbQueues(p, vt) : init_port_dcb_config(p, q)
  BY DEF cmd_config_dcb
<1>1. PICK q \in DcbQueues(p, vt) : init_port_dcb_config(p, q)
  BY <1>a
<1>2. q \in Count \X Count
  BY <1>1, SizesAssumption DEF DcbQueues, Count
<1> DEFINE gl == [g EXCEPT !.rxq = q[1], !.txq = q[2], !.dcb_config = TRUE, !.set["threshold"] = 1]
           ds == [k \in Kinds |-> IF k \in DevKinds THEN 0 ELSE gl.set[k]]
           new == [port[p] EXCEPT !.mq = "dcb", !.speed = 0, !.dcb = TRUE, !.set = ds]
           pt == [port EXCEPT ![p] = new]
<1>3. /\ g' = gl /\ port' = Flag(pt, {p} \intersect enabled)
      /\ behind' = IF q = <<g.rxq, g.txq>> THEN behind \ {p} ELSE enabled \ {p}
  <2>1. pt = [port EXCEPT ![p].mq = "dcb", ![p].speed = 0, ![p].dcb = TRUE, ![p].set = ds]
    BY <1>0, Zenon, ZenonT(40) DEF ConfigTypes, PortRecord
  <2> HIDE DEF pt
  <2> QED
    BY <1>1, <2>1 DEF init_port_dcb_config
<1>4. /\ gl.rxq = q[1] /\ gl.txq = q[2] /\ gl.set = [g.set EXCEPT !["threshold"] = 1]
      /\ DOMAIN gl = DOMAIN g /\ q[1] \in Count /\ q[2] \in Count
  BY <1>0, <1>2 DEF ConfigTypes
<1> HIDE DEF gl
<1>5. gl.set \in [Kinds -> Value]
  BY <1>0, <1>4, Zenon, ZenonT(40) DEF ConfigTypes, Value
<1>6. ds \in [Kinds -> Value]
  BY <1>5 DEF Value
<1> HIDE DEF ds
<1>7. new \in PortRecord
  <2>1. port[p] \in PortRecord
    BY <1>0 DEF ConfigTypes
  <2>2. "dcb" \in Mode /\ 0 \in Value
    BY DEF Mode, Value
  <2> QED
    BY <1>6, <2>1, <2>2, Zenon, ZenonT(40) DEF PortRecord
<1> HIDE DEF new
<1>8. /\ pt \in [PortIds -> PortRecord]
      /\ \A r \in PortIds : r # p => pt[r] = port[r]
  BY <1>0, <1>7, SMTT(30), SMTT(60) DEF ConfigTypes
<1> HIDE DEF pt
<1>9. /\ port' \in [PortIds -> PortRecord]
      /\ p \in enabled => port'[p].need /\ port'[p].needq
      /\ \A r \in PortIds : r # p => port'[r] = port[r]
  BY <1>3, <1>8, FlagTypes
<1>10. ConfigTypes'
  BY <1>0, <1>3, <1>4, <1>5, <1>9, Zenon, ZenonT(40) DEF ConfigTypes
<1>11. \A r \in enabled \ behind' : r # p => r \notin behind /\ g'.rxq = g.rxq /\ g'.txq = g.txq
  BY <1>2, <1>3, <1>4
<1>12. \A r \in enabled \ behind' : InStep(r)'
  <2> SUFFICES ASSUME NEW r \in enabled \ behind' PROVE InStep(r)'
    OBVIOUS
  <2>1. r \in PortIds
    BY <1>0 DEF ConfigTypes
  <2>2. CASE r = p
    BY <1>9, <2>2, Zenon, ZenonT(40) DEF InStep
  <2>3. CASE r # p
    <3>1. r \in enabled \ behind /\ g'.rxq = g.rxq /\ g'.txq = g.txq /\ port'[r] = port[r]
      BY <1>9, <1>11, <2>1, <2>3
    <3>2. InStep(r)
      BY <3>1, ZenonT(40), ZenonT(60) DEF ConfigInv
    <3> QED
      BY <3>1, <3>2, Zenon, ZenonT(40) DEF InStep
  <2> QED
    BY <2>2, <2>3
<1>13. \A r \in enabled \ behind' : status[r] = "STARTED" => ~port'[r].need /\ ~port'[r].needq
  BY <1>0, <1>9, <1>11, SMTT(30), SMTT(60) DEF ConfigInv, ConfigTypes
<1> QED
  BY <1>0, <1>10, <1>12, <1>13, Zenon, ZenonT(40) DEF ConfigInv

\* Stopping and closing ports.
LEMMA StatusConfigStep ==
  ASSUME ConfigInv, NEW S \in SUBSET enabled, NEW b \in {"STOPPED", "CLOSED"},
         status' = [p \in PortIds |-> IF p \in S THEN b ELSE status[p]],
         SameSettings, UNCHANGED <<session, enabled, slave, port, behind>>
  PROVE  ConfigInv'
<1>1. ConfigTypes'
  BY SMTT(30), SMTT(60) DEF ConfigInv, ConfigTypes, SameSettings, States
<1>2. \A p \in PortIds : InStep(p)' <=> InStep(p)
  BY DEF InStep, SameSettings
<1>3. \A p \in PortIds : status'[p] = "STARTED" => status[p] = "STARTED"
  OBVIOUS
<1>4. enabled \subseteq PortIds
  BY Zenon, ZenonT(40) DEF ConfigInv, ConfigTypes
<1> QED
  BY <1>1, <1>2, <1>3, <1>4, Zenon, ZenonT(40) DEF ConfigInv

\* A new port is flagged; the refresh of the ports in en leaves the others in step or
\* counted as behind.
LEMMA NewPortStep ==
  ASSUME ConfigInv, NEW p \in PortIds, p \notin enabled, NEW b \in BOOLEAN, NEW en,
         port' = reconfig([port EXCEPT ![p].dev = NullPort.dev, ![p].bonded = b], p, en, g),
         enabled' = enabled \union {p}, status' \in [PortIds -> States], status'[p] # "STARTED",
         \A q \in PortIds \ {p} : status'[q] = status[q],
         behind' = (behind \union Rewritten(port')) \ {p}, SameSettings, UNCHANGED session
  PROVE  ConfigInv'
<1> DEFINE new == [port[p] EXCEPT !.dev = NullPort.dev, !.bonded = b]
           pt == [port EXCEPT ![p] = new]
           ft == Flag(pt, {p})
<1>0. /\ ConfigTypes /\ enabled \subseteq PortIds /\ port[p] \in PortRecord
      /\ port \in [PortIds -> PortRecord] /\ g.set \in [Kinds -> Value]
  BY DEF ConfigInv, ConfigTypes
<1>1. NullPort.dev \in Device
  BY SizesAssumption DEF NullPort, Device, Count, Mode, Value
<1>2. new \in PortRecord
  BY <1>0, <1>1 DEF PortRecord
<1>3. port' = init_port_config(ft, en, g)
  <2>1. pt = [port EXCEPT ![p].dev = NullPort.dev, ![p].bonded = b]
    BY <1>0, Zenon, ZenonT(40)
  <2> HIDE DEF pt
  <2> QED
    BY <2>1 DEF reconfig
<1> HIDE DEF new
<1>4. pt \in [PortIds -> PortRecord] /\ pt[p] = new /\ \A q \in PortIds : q # p => pt[q] = port[q]
  BY <1>0, <1>2
<1> HIDE DEF pt
<1>5. /\ ft \in [PortIds -> PortRecord] /\ ft[p].need /\ ft[p].needq
      /\ \A q \in PortIds : q # p => ft[q] = port[q]
  BY <1>2, <1>4, FlagTypes
<1> HIDE DEF ft
<1>6. port' \in [PortIds -> PortRecord]
  <2>1. init_port_config(ft, en, g) \in [PortIds -> PortRecord]
    <3>1. ft \in [PortIds -> PortRecord] /\ g.set \in [Kinds -> Value]
      BY <1>0, <1>5
    <3> QED
      BY <3>1, InitPortTypes
  <2> QED
    BY <1>3, <2>1, Zenon, ZenonT(40)
<1>7. ConfigTypes'
  BY <1>0, <1>6, Zenon, ZenonT(40) DEF ConfigTypes, SameSettings
<1>8. port'[p].need /\ port'[p].needq
  <2>1. CASE p \in en
    BY <1>3, <1>5, <2>1, InitPortSets
  <2>2. CASE p \notin en
    BY <1>3, <1>5, <2>2, InitPortSets
  <2> QED
    BY <2>1, <2>2
<1>9. InStep(p)'
  BY <1>8 DEF InStep
<1>10. \A q \in enabled \ behind' :
        /\ InStep(q)'
        /\ status'[q] = "STARTED" => ~port'[q].need /\ ~port'[q].needq
  <2> SUFFICES ASSUME NEW q \in enabled \ behind'
               PROVE  /\ InStep(q)'
                      /\ status'[q] = "STARTED" => ~port'[q].need /\ ~port'[q].needq
    BY Zenon, ZenonT(40)
  <2>1. q \in PortIds /\ q # p /\ q \notin behind /\ q \notin Rewritten(port') /\ ft[q] = port[q]
    BY <1>0, <1>5
  <2>2. InStep(q) /\ (status[q] = "STARTED" => ~port[q].need /\ ~port[q].needq)
    BY <2>1, Zenon, ZenonT(40) DEF ConfigInv
  <2>3. InStep(q)' /\ port'[q].need = port[q].need /\ port'[q].needq = port[q].needq
    <3>1. q \in enabled /\ ConfigTypes /\ ft \in [PortIds -> PortRecord]
          /\ port' = init_port_config(ft, en, g)
      BY <1>0, <1>3, <1>5, Zenon, ZenonT(40)
    <3> QED
      BY <2>1, <2>2, <3>1, RefreshedInStep, ZenonT(60)
  <2>4. status'[q] = status[q]
    BY <2>1
  <2> QED
    BY <2>2, <2>3, <2>4, Zenon, ZenonT(40)
<1>11. \A q \in PortIds \ enabled' : status'[q] # "STARTED"
  BY Zenon, ZenonT(40) DEF ConfigInv
<1>12. \A q \in enabled' \ behind' : q = p \/ q \in enabled \ behind'
  BY Zenon, ZenonT(40)
<1> QED
  BY <1>7, <1>9, <1>10, <1>11, <1>12, Zenon, ZenonT(40) DEF ConfigInv

\* Every step keeps recorded and device settings together.
LEMMA ConfigInvInductive ==
  ASSUME ConfigInv, [Next]_vars
  PROVE  ConfigInv'
<1>0. ConfigTypes /\ enabled \subseteq PortIds
  BY Zenon, ZenonT(40) DEF ConfigInv, ConfigTypes
<1>1. CASE Bystander
  BY <1>1, BystanderStep
<1>2. CASE main
  <2>1. PICK f \in Faulty \union {NoPort}, k \in Failures : StartPorts(ALL, f, k)
    BY <1>2 DEF main
  <2>2. UNCHANGED <<session, enabled, slave>>
    BY <1>2 DEF main
  <2> QED
    BY <2>1, <2>2, StartConfigStep
<1>3. ASSUME NEW p \in PortIds \union {ALL}, start_port(p) PROVE ConfigInv'
  <2>1. UNCHANGED <<session, enabled, slave>>
    BY <1>3 DEF start_port
  <2>2. CASE StreamsExit(enabled, g)
    <3>1. Bystander
      BY <1>3, <2>2 DEF start_port, Bystander, SameSettings
    <3> QED
      BY <3>1, BystanderStep
  <2>3. CASE ~StreamsExit(enabled, g)
    <3>1. PICK f \in Faulty \union {NoPort}, k \in Failures : StartPorts(p, f, k)
      BY <1>3, <2>3 DEF start_port
    <3> QED
      BY <2>1, <3>1, StartConfigStep
  <2> QED
    BY <2>2, <2>3
<1>4. ASSUME NEW p \in PortIds \union {ALL}, stop_port(p) PROVE ConfigInv'
  <2> DEFINE S == {q \in enabled : p \in {q, ALL} /\ status[q] = "STARTED"}
  <2>1. /\ status' = [q \in PortIds |-> IF q \in S THEN "STOPPED" ELSE status[q]]
        /\ UNCHANGED <<session, enabled, slave, port, behind>>
    BY <1>4 DEF stop_port, histVars
  <2>2. SameSettings
    BY <1>0, <1>4 DEF stop_port, SameSettings, ConfigTypes
  <2>3. S \in SUBSET enabled
    OBVIOUS
  <2> HIDE DEF S
  <2> QED
    BY <2>1, <2>2, <2>3, StatusConfigStep
<1>5. ASSUME NEW p \in PortIds \union {ALL}, close_port(p) PROVE ConfigInv'
  <2> DEFINE S == {q \in enabled : p \in {q, ALL} /\ status[q] = "STOPPED"}
  <2>1. /\ status' = [q \in PortIds |-> IF q \in S THEN "CLOSED" ELSE status[q]]
        /\ SameSettings /\ UNCHANGED <<session, enabled, slave, port, behind>>
    BY <1>5 DEF close_port, SameSettings, histVars
  <2>2. S \in SUBSET enabled
    OBVIOUS
  <2> HIDE DEF S
  <2> QED
    BY <2>1, <2>2, StatusConfigStep, SMTT(30), SMTT(60)
<1>6. ASSUME NEW p \in PortIds, attach_port(p) PROVE ConfigInv'
  <2>1. /\ p \notin enabled /\ enabled' = enabled \union {p}
        /\ status' = [status EXCEPT ![p] = "STOPPED"]
        /\ behind' = (behind \union Rewritten(port')) \ {p}
        /\ port' = reconfig([port EXCEPT ![p].dev = NullPort.dev, ![p].bonded = FALSE], p, enabled', g)
        /\ UNCHANGED <<session, slave>>
    BY <1>6 DEF attach_port, FreePort
  <2>2. SameSettings
    BY <1>0, <1>6 DEF attach_port, SameSettings, ConfigTypes
  <2>4. /\ status' \in [PortIds -> States] /\ status'[p] = "STOPPED"
        /\ \A q \in PortIds \ {p} : status'[q] = status[q]
    BY <1>0, <2>1 DEF ConfigTypes, States
  <2> QED
    BY <2>1, <2>2, <2>4, NewPortStep, Zenon, ZenonT(40)
<1>7. ASSUME NEW p \in PortIds, cmd_create_bonded_device(p) PROVE ConfigInv'
  <2>1. /\ p \notin enabled /\ enabled' = enabled \union {p}
        /\ behind' = (behind \union Rewritten(port')) \ {p}
        /\ port' = reconfig([port EXCEPT ![p].dev = NullPort.dev, ![p].bonded = TRUE], p, enabled, g)
        /\ UNCHANGED <<session, slave, status, g>>
    BY <1>7 DEF cmd_create_bonded_device, FreePort
  <2>2. SameSettings
    BY <2>1 DEF SameSettings
  <2>4. status[p] # "STARTED" /\ status \in [PortIds -> States]
    BY <1>0, <2>1 DEF ConfigInv, ConfigTypes
  <2> QED
    BY <2>1, <2>2, <2>4, NewPortStep, Zenon, ZenonT(40)
<1>8. ASSUME NEW p \in PortIds, detach_port(p) PROVE ConfigInv'
  <2>1. /\ p \in enabled /\ status[p] = "CLOSED" /\ enabled' = enabled \ {p}
        /\ UNCHANGED <<session, status, slave, port, behind>>
    BY <1>8 DEF detach_port, histVars
  <2>2. SameSettings
    BY <1>0, <1>8, SMTT(30), SMTT(60) DEF detach_port, SameSettings, ConfigTypes
  <2>4. \A q \in PortIds : InStep(q)' <=> InStep(q)
    BY <2>1, <2>2 DEF InStep, SameSettings
  <2>5. ConfigTypes'
    BY <1>0, <2>1, <2>2, Zenon, ZenonT(40) DEF ConfigTypes, SameSettings
  <2> QED
    BY <1>0, <2>1, <2>4, <2>5, Zenon, ZenonT(40) DEF ConfigInv
<1>9. ASSUME NEW p \in PortIds, SlaveStep(p) PROVE ConfigInv'
  <2>1. /\ port' = init_port_config(port, enabled, g) /\ behind' = behind \union Rewritten(port')
        /\ UNCHANGED <<session, enabled, status, g>>
    BY <1>9, Zenon, ZenonT(40) DEF SlaveStep, cmd_set_bonding_primary, cmd_add_bonding_slave,
                       cmd_remove_bonding_slave, Refresh
  <2>2. port \in [PortIds -> PortRecord] /\ g.set \in [Kinds -> Value] /\ SameSettings
    BY <1>0, <2>1 DEF ConfigTypes, SameSettings
  <2>3. port' \in [PortIds -> PortRecord]
    BY <2>1, <2>2, InitPortTypes, SMTT(30), SMTT(60)
  <2>4. ConfigTypes'
    BY <1>0, <2>1, <2>3, Zenon, ZenonT(40) DEF ConfigTypes
  <2>5. \A q \in enabled \ behind' :
          /\ InStep(q)'
          /\ status[q] = "STARTED" => ~port'[q].need /\ ~port'[q].needq
    <3> SUFFICES ASSUME NEW q \in enabled \ behind'
                 PROVE  /\ InStep(q)'
                        /\ status[q] = "STARTED" => ~port'[q].need /\ ~port'[q].needq
      BY Zenon, ZenonT(40)
    <3>1. q \notin behind /\ q \notin Rewritten(port')
      BY <2>1
    <3>2. InStep(q) /\ (status[q] = "STARTED" => ~port[q].need /\ ~port[q].needq)
      BY <3>1, Zenon, ZenonT(40) DEF ConfigInv
    <3>3. InStep(q)' /\ port'[q].need = port[q].need /\ port'[q].needq = port[q].needq
      BY <1>0, <2>1, <2>2, <3>1, <3>2, RefreshedInStep, Zenon, ZenonT(40)
    <3> QED
      BY <3>2, <3>3, Zenon, ZenonT(40)
  <2> QED
    BY <2>1, <2>4, <2>5, Zenon, ZenonT(40) DEF ConfigInv
<1> QED
  BY <1>0, <1>1, <1>2, <1>3, <1>4, <1>5, <1>6, <1>7, <1>8, <1>9, SettingStep, DcbStep, ConfigCases
  DEF PortStep

\* A started port runs with the settings recorded for it: no command that changes a
\* setting, no failing device and no port that comes or goes leaves a device behind
\* (need_reconfig and need_reconfig_queues), for any number of ports, queues and
\* values and in every session, except slaves and the ports in behind: those a DCB
\* command passed over, those init_port_config rewrote without a flag, and those
\* flagged while they were started slaves.
THEOREM SettingsInForce == Spec => []ConfigInForce
<1>1. Init => ConfigInv
  <2> SUFFICES ASSUME Init PROVE ConfigInv
    OBVIOUS
  <2> DEFINE pt == [p \in PortIds |-> NullPort]
             ip == init_port_config(pt, enabled, g)
  <2>1. /\ session \in Sessions /\ enabled = session.ports /\ behind = {}
        /\ status = [p \in PortIds |-> "STOPPED"]
        /\ g.rxq = session.rxq /\ g.txq = session.txq /\ g.set = [k \in Kinds |-> 0]
        /\ DOMAIN g = {"rxq", "txq", "set", "burst", "dcb_config", "dcb_test", "icmp", "ids",
                       "nbport", "nbcfg", "nblc", "nbcfglc"}
        /\ port = Flag(ip, enabled)
    BY Zenon, ZenonT(40) DEF Init
  <2>2. enabled \subseteq PortIds
    BY <2>1, SessionsAssumption, SMTT(30), SMTT(60)
  <2>3. NullPort \in PortRecord
    BY SizesAssumption, SMTT(30), SMTT(60) DEF NullPort, PortRecord, Device, Count, Mode, Value
  <2>4. pt \in [PortIds -> PortRecord] /\ g.set \in [Kinds -> Value]
    BY <2>1, <2>3, SMTT(30), SMTT(60) DEF Value
  <2>5. /\ NullPort.set = [k \in Kinds |-> 0] /\ NullPort.mq = "none"
        /\ \A p \in PortIds : pt[p] = NullPort
    BY SMTT(30), SMTT(60) DEF NullPort
  <2> HIDE DEF pt
  <2>6. ip \in [PortIds -> PortRecord]
    BY <2>4, InitPortTypes, SMTT(30), SMTT(60)
  <2>7. /\ \A p \in enabled : ip[p].set = g.set /\ ip[p].mq = ModeOf(pt[p], g) /\ ip[p].dcb = pt[p].dcb
        /\ \A p \in PortIds \ enabled : ip[p] = NullPort
    BY <2>2, <2>4, <2>5, InitPortSets, SMTT(30), SMTT(60)
  <2> HIDE DEF ip
  <2>8. /\ port \in [PortIds -> PortRecord]
        /\ \A p \in enabled : /\ port[p].need /\ port[p].needq /\ port[p].set = g.set
                              /\ port[p].mq = ModeOf(port[p], g)
        /\ \A p \in PortIds \ enabled : port[p] = NullPort
    BY <2>1, <2>2, <2>6, <2>7, FlagTypes, SMTT(30), SMTT(60) DEF ModeOf
  <2>9. ConfigTypes
    BY <2>1, <2>2, <2>4, <2>8, SMTT(30), SMTT(60) DEF ConfigTypes, Count, States
  <2>10. \A p \in enabled : InStep(p)
    BY <2>8, SMTT(30), SMTT(60) DEF InStep
  <2>12. \A p \in PortIds : status[p] # "STARTED"
    BY <2>1, SMTT(30), SMTT(60)
  <2> QED
    BY <2>2, <2>9, <2>10, <2>12 DEF ConfigInv
<1>2. ConfigInv /\ [Next]_vars => ConfigInv'
  BY ConfigInvInductive
<1>3. ConfigInv => ConfigInForce
  <2> SUFFICES ASSUME ConfigInv, NEW p \in enabled \ (slave \union behind), status[p] = "STARTED"
               PROVE  InForce(p)
    BY SMTT(30), SMTT(60) DEF ConfigInForce
  <2>1. /\ port[p] \in PortRecord /\ InStep(p) /\ ~port[p].need /\ ~port[p].needq
    BY SMTT(30), SMTT(60) DEF ConfigInv, ConfigTypes
  <2> DEFINE r == port[p]
  <2>2. /\ r.dev.mq = r.mq /\ r.dev.speed = r.speed /\ r.dev.rx = g.rxq /\ r.dev.tx = g.txq
        /\ \A k \in Kinds : r.dev.set[k] = r.set[k]
    BY <2>1, SMTT(30), SMTT(60) DEF InStep, Kinds
  <2>3. r.dev.set = r.set
    BY <2>1, <2>2, SMTT(30), SMTT(60) DEF PortRecord, Device
  <2>4. r.dev = [rx |-> g.rxq, tx |-> g.txq, mq |-> r.mq, speed |-> r.speed, set |-> r.set]
    BY <2>1, <2>2, <2>3 DEF PortRecord, Device
  <2> QED
    BY <2>1, <2>4 DEF InForce
<1> QED
  BY <1>1, <1>2, <1>3, PTL DEF Spec

=============================================================================
