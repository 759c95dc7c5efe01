------------------------------ MODULE TestPmd ------------------------------
(***************************************************************************)
(* The life of testpmd: its ports, its forwarding configuration, the start *)
(* and stop of packet forwarding, and the forwarding cores (test-pmd/      *)
(* testpmd.c, config.c and the commands of cmdline.c that change them).    *)
(*                                                                         *)
(* One master thread executes commands typed at a prompt, each to its end. *)
(* Between the two halves of "start tx_first" and of "stop" it waits for   *)
(* the forwarding cores, which run concurrently.  Commands that the code   *)
(* refuses change nothing and have no step here.                           *)
(*                                                                         *)
(* A session is what the user of one execution does: the ports and options *)
(* testpmd is launched with, the commands given while forwarding is        *)
(* stopped (cmds) and those given while it runs (running).                 *)
(***************************************************************************)
EXTENDS FwdConfig, FiniteSets

CONSTANTS MaxPorts,     \* RTE_MAX_ETHPORTS
          NbLcores,     \* nb_lcores
          MaxQ,         \* max_rx_queues and max_tx_queues of every device
          Tcs,          \* traffic classes given to the DCB command
          VmdqBase,     \* vmdq_pool_base of every device
          Settings,     \* values of a setting
          StackCounts,  \* queue counts that memory never written may hold
          Sessions      \* the sessions explored

ASSUME SizesAssumption ==
  /\ MaxPorts \in Nat \ {0} /\ NbLcores \in Nat \ {0} /\ MaxQ \in Nat \ {0}

PortIds == 0 .. MaxPorts - 1
Lcores  == 0 .. NbLcores - 1
ALL     == MaxPorts         \* RTE_PORT_ALL, no index of ports[]
NoPort  == MaxPorts + 1

ASSUME SessionsAssumption == \A s \in Sessions : s.ports \subseteq PortIds

\* Settings kept in global variables that init_port_config copies to the ports:
\* those given to rte_eth_dev_configure and those given to the queue setups.
DevKinds   == {"max-pkt-len", "rx-mode"}
QueueKinds == {"desc", "thresh", "threshold"}
Kinds      == DevKinds \union QueueKinds

VARIABLES
  session,    \* the session of this execution (never changes)
  pc,         \* what the master thread is doing
  enabled,    \* ports p with ports[p].enabled
  status,     \* ports[p].port_status
  slave,      \* ports p with ports[p].slave_flag
  port,       \* the rest of ports[p], and the device behind it
  g,          \* global configuration variables
  cur,        \* cur_fwd_config
  fc,         \* fwd_lcores[]: stream_idx, stream_nb, stopped
  fs,         \* fwd_streams[]: the streams allocated
  core,       \* what each forwarding core runs, and the streams it took
  test_done,  \* no forwarding in progress
  \* history:
  behind,     \* ports whose settings changed without a flag, or while they were started
  released    \* slaves taken out of a bonded device while packets are forwarded

portVars == <<enabled, status, slave, port>>
fwdVars  == <<cur, fc, fs, core>>
histVars == <<behind, released>>
vars     == <<session, pc, portVars, g, fwdVars, test_done, histVars>>

nb_ports == Cardinality(enabled)

\* fwd_ports_ids filled with the ports of S in ascending order, zero after them.
IdsOf(S) ==
  [i \in 0 .. MaxPorts |->
     IF i < Cardinality(S)
     THEN CHOOSE p \in S : Cardinality({q \in S : q < p}) = i ELSE 0]

Idle      == [st |-> "idle", idx |-> 0, nb |-> 0, dealt |-> FALSE, freed |-> FALSE]
NullPort  == [need |-> FALSE, needq |-> FALSE, dcb |-> FALSE, speed |-> 0,
              bonded |-> FALSE, mq |-> "none", set |-> [k \in Kinds |-> 0],
              dev |-> [rx |-> 0, tx |-> 0, mq |-> "none", speed |-> 0,
                       set |-> [k \in Kinds |-> 0]]]
ZeroStream == Stream(0, 0, 0, 0)

\* Mutant: one started port is enough.
all_ports_started_one == \E p \in enabled : status[p] = "STARTED"

all_ports_started == \A p \in enabled \ slave : status[p] = "STARTED"

all_ports_stopped == \A p \in enabled \ slave : status[p] = "STOPPED"

\* A command of family c may be typed now.
Typed(c) == /\ pc = "prompt"
            /\ c \in (IF test_done THEN session.cmds ELSE session.running)

-----------------------------------------------------------------------------
(* Helpers of the handlers: what they make of ports and streams.           *)

\* init_port_config: every enabled port takes the global settings.  The receive
\* mode loses what a DCB command wrote into it.
init_port_config(pt, en, gl) ==
  [p \in PortIds |->
     IF p \in en
     THEN [pt[p] EXCEPT !.set = gl.set,
                        !.mq = IF gl.rxq > 1 /\ ~pt[p].dcb THEN "rss" ELSE "none"]
     ELSE pt[p]]

\* cmd_reconfig_device_queue(id, 1, 1) for the ports of S.
Flag(pt, S) ==
  [p \in PortIds |-> IF p \in S THEN [pt[p] EXCEPT !.need = TRUE, !.needq = TRUE]
                     ELSE pt[p]]

\* reconfig: flags the new port, then refreshes every port enabled by now.
reconfig(pt, new, en, gl) == init_port_config(Flag(pt, {new}), en, gl)

\* The enabled ports that are not flagged although their records change to pt.
Rewritten(pt) ==
  {q \in enabled : /\ ~(port[q].need /\ port[q].needq)
                   /\ <<pt[q].set, pt[q].mq>> /= <<port[q].set, port[q].mq>>}

\* The ports that are flagged while they are started: only slaves can be.
FlaggedLate == {q \in enabled : status[q] = "STARTED"}

\* init_fwd_streams: -1 and nothing done when a device has too few queues;
\* otherwise the streams are kept, or freed and allocated again, zeroed; an
\* allocation of zero streams ends the program.
StreamsRefused(en, gl) == en /= {} /\ (gl.rxq > MaxQ \/ gl.txq > MaxQ)
StreamsNew(en, gl) == Cardinality(en) * gl.rxq
StreamsKept(en, gl) ==
  StreamsRefused(en, gl) \/ StreamsNew(en, gl) = Cardinality(DOMAIN fs)
StreamsExit(en, gl) == ~StreamsKept(en, gl) /\ StreamsNew(en, gl) = 0
init_fwd_streams(en, gl) ==
  IF StreamsKept(en, gl) THEN fs
  ELSE [s \in 0 .. StreamsNew(en, gl) - 1 |-> ZeroStream]

\* The cores that run keep pointers into a freed array.
CoresAfter(en, gl) ==
  IF StreamsKept(en, gl) THEN core
  ELSE [lc \in Lcores |-> IF core[lc].st = "idle" THEN core[lc]
                          ELSE [core[lc] EXCEPT !.freed = TRUE]]

Config ==
  [nbport |-> g.nbport, ids |-> g.ids, rxq |-> g.rxq, txq |-> g.txq,
   nblc |-> g.nblc, topo |-> session.topo, icmp |-> g.icmp,
   dcb |-> g.dcb_config, tcs |-> Tcs,
   step |-> LET half == nb_ports \div 2 IN
            IF session.numa /\ g.nbport > 0 /\ g.nbport <= half
            THEN half \div g.nbport ELSE 1]

Setup == fwd_config_setup(Config, fc)

\* fwd_config_setup divides by the number of cores, and writes streams and reads
\* ports by index: no core for some stream, more ports than there are or streams
\* past the allocated ones (init_fwd_streams refused), and the program dies.
SetupDies ==
  \/ g.nbport > nb_ports
  \/ /\ g.nbport > 0 /\ g.icmp /\ g.rxq > 0
     /\ g.nblc = 0 \/ g.txq = 0
  \/ g.nbport > 0 /\ ~g.icmp /\ (g.rxq <= 1 \/ g.txq <= 1) /\ g.nblc = 0
  \/ ~(DOMAIN Setup.fs \subseteq DOMAIN init_fwd_streams(enabled, g))

\* fwd_config_setup, with the reallocation of the streams it contains.
SetupDone(launched) ==
  /\ cur' = [lcores |-> Setup.lcores, ports |-> Setup.ports, streams |-> Setup.streams,
             dealt |-> Setup.dealt]
  /\ fc' = [lc \in Lcores |->
              IF lc < Setup.lcores
              THEN [idx |-> Setup.fc[lc].idx, nb |-> Setup.fc[lc].nb,
                    stopped |-> ~launched /\ fc[lc].stopped]
              ELSE fc[lc]]
  /\ fs' = LET a == init_fwd_streams(enabled, g) IN
           [s \in DOMAIN a |-> IF s \in DOMAIN Setup.fs THEN Setup.fs[s] ELSE a[s]]

\* launch_packet_forwarding on the cores of configuration c; a busy core refuses.
Launched(c, f, st) ==
  [lc \in Lcores |->
     IF lc < c.lcores /\ core[lc].st = "idle"
     THEN [st |-> st, idx |-> f[lc].idx, nb |-> f[lc].nb, dealt |-> lc < c.dealt,
           freed |-> FALSE]
     ELSE core[lc]]

AllIdle == \A lc \in Lcores : core[lc].st = "idle"

-----------------------------------------------------------------------------
(* Ports: start, stop, close, attach, detach.                              *)

\* The device takes the settings given to rte_eth_dev_configure, then those
\* given to the queue setups.
Configured(r) ==
  IF ~r.need THEN r
  ELSE [r EXCEPT !.need = FALSE, !.dev.mq = r.mq, !.dev.speed = r.speed,
                 !.dev.set = [k \in Kinds |-> IF k \in DevKinds THEN r.set[k]
                                              ELSE r.dev.set[k]]]
QueuesReady(r) ==
  IF ~r.needq THEN r
  ELSE [r EXCEPT !.needq = FALSE, !.dev.rx = g.rxq, !.dev.tx = g.txq,
                 !.dev.set = [k \in Kinds |-> IF k \in QueueKinds THEN r.set[k]
                                              ELSE r.dev.set[k]]]

\* The ports in ascending order, until the setup of port f fails (a device that
\* fails to start only is passed over).  f = NoPort when all goes well.
StartPorts(pid, f, failure) ==
  LET todo  == {p \in enabled : pid \in {p, ALL} /\ status[p] = "STOPPED"}
      ready == IF f = NoPort \/ failure = "start" THEN todo
               ELSE {p \in todo : p < f}
  IN  /\ f = NoPort \/ /\ f \in todo
                       /\ failure = "configure" => port[f].need
                       /\ failure = "queues" => port[f].needq
      /\ status' = [p \in PortIds |-> IF p \in ready \ {f} THEN "STARTED" ELSE status[p]]
      /\ port' = [p \in PortIds |->
                    IF p \in ready THEN QueuesReady(Configured(port[p]))
                    ELSE IF p = f /\ failure = "queues" THEN Configured(port[p])
                    ELSE port[p]]
      /\ behind' = behind \ {p \in ready : port[p].need /\ port[p].needq}
      /\ g' = [g EXCEPT !.dcb_test = @ \/ g.dcb_config]
      /\ fs' = init_fwd_streams(enabled, g)
      /\ core' = CoresAfter(enabled, g)

Failures == {"configure", "queues", "start"}
Faulty   == IF session.faults THEN PortIds ELSE {}

start_port(pid) ==
  /\ Typed("port") /\ test_done /\ pid \in enabled \union {ALL}
  /\ ~StreamsRefused(enabled, g)
  /\ IF StreamsExit(enabled, g)
     THEN pc' = "exit" /\ UNCHANGED <<status, port, g, fs, core, behind>>
     ELSE /\ UNCHANGED pc
          /\ \E f \in Faulty \union {NoPort}, k \in Failures : StartPorts(pid, f, k)
  /\ UNCHANGED <<session, enabled, slave, cur, fc, test_done, released>>

\* The DCB state is reset before the port is looked at: also for a port that does
\* not exist.
stop_port(pid) ==
  /\ Typed("port") /\ test_done
  /\ status' = [p \in PortIds |->
                  IF p \in enabled /\ pid \in {p, ALL} /\ status[p] = "STARTED"
                  THEN "STOPPED" ELSE status[p]]
  /\ g' = [g EXCEPT !.dcb_config = @ /\ ~g.dcb_test, !.dcb_test = FALSE]
  /\ UNCHANGED <<session, pc, enabled, slave, port, fwdVars, test_done, histVars>>

\* Mutant: a started port is closed.
close_port_started(pid) ==
  /\ Typed("port") /\ test_done /\ pid \in enabled \union {ALL}
  /\ status' = [p \in PortIds |->
                  IF p \in enabled /\ pid \in {p, ALL} THEN "CLOSED" ELSE status[p]]
  /\ UNCHANGED <<session, pc, enabled, slave, port, g, fwdVars, test_done, histVars>>

close_port(pid) ==
  /\ Typed("port") /\ test_done /\ pid \in enabled \union {ALL}
  /\ status' = [p \in PortIds |->
                  IF p \in enabled /\ pid \in {p, ALL} /\ status[p] = "STOPPED"
                  THEN "CLOSED" ELSE status[p]]
  /\ UNCHANGED <<session, pc, enabled, slave, port, g, fwdVars, test_done, histVars>>

\* The identifier the ethdev library gives to a new device.
FreePort(p) == p \notin enabled /\ \A q \in PortIds \ enabled : p <= q

\* Mutant: a port may be attached while packets are forwarded.
attach_port_running(p) ==
  /\ Typed("attach") /\ FreePort(p)
  /\ enabled' = enabled \union {p}
  /\ status' = [status EXCEPT ![p] = "STOPPED"]
  /\ port' = reconfig([port EXCEPT ![p].dev = NullPort.dev, ![p].bonded = FALSE],
                      p, enabled', g)
  /\ g' = [g EXCEPT !.ids = IdsOf(enabled'), !.nbcfg = Cardinality(enabled'),
                    !.nbport = (@ + 1) % 256]
  /\ behind' = (behind \union Rewritten(port')) \ {p}
  /\ UNCHANGED <<session, pc, slave, fwdVars, test_done, released>>

attach_port(p) ==
  /\ Typed("attach") /\ test_done /\ FreePort(p)
  /\ enabled' = enabled \union {p}
  /\ status' = [status EXCEPT ![p] = "STOPPED"]
  /\ port' = reconfig([port EXCEPT ![p].dev = NullPort.dev, ![p].bonded = FALSE],
                      p, enabled', g)
  /\ g' = [g EXCEPT !.ids = IdsOf(enabled'), !.nbcfg = Cardinality(enabled'),
                    !.nbport = (@ + 1) % 256]
  /\ behind' = (behind \union Rewritten(port')) \ {p}
  /\ UNCHANGED <<session, pc, slave, fwdVars, test_done, released>>

detach_port(p) ==
  /\ Typed("detach") /\ p \in enabled /\ status[p] = "CLOSED"
  /\ enabled' = enabled \ {p}
  /\ g' = [g EXCEPT !.ids = IdsOf(enabled'), !.nbcfg = Cardinality(enabled'),
                    !.nbport = (@ + 255) % 256]
  /\ UNCHANGED <<session, pc, status, slave, port, fwdVars, test_done, histVars>>

-----------------------------------------------------------------------------
(* Commands that change the configuration of the ports.                    *)

\* Mutant: the ports are not flagged for another configuration.
ConfigAll_noflag(gl, pt) ==
  /\ g' = gl
  /\ port' = init_port_config(pt, enabled, gl)
  /\ behind' = FlaggedLate
  /\ UNCHANGED <<session, pc, enabled, status, slave, fwdVars, test_done, released>>

\* The common end of the "port config all" commands.
ConfigAll(gl, pt) ==
  /\ g' = gl
  /\ port' = Flag(init_port_config(pt, enabled, gl), enabled)
  /\ behind' = FlaggedLate
  /\ UNCHANGED <<session, pc, enabled, status, slave, fwdVars, test_done, released>>

cmd_config_rx_tx ==
  /\ Typed("rxtx") /\ all_ports_stopped
  /\ \/ \E v \in 0 .. MaxQ + 1 :
          /\ v = 0 => g.txq > 0
          /\ ConfigAll([g EXCEPT !.rxq = v], port)
     \/ \E v \in 0 .. MaxQ + 1 :
          /\ v = 0 => g.rxq > 0
          /\ ConfigAll([g EXCEPT !.txq = v], port)
     \/ \E v \in Settings : ConfigAll([g EXCEPT !.set["desc"] = v], port)

cmd_config_max_pkt_len ==
  /\ Typed("max-pkt-len") /\ all_ports_stopped
  /\ \E v \in Settings \ {g.set["max-pkt-len"]} :
       ConfigAll([g EXCEPT !.set["max-pkt-len"] = v], port)

cmd_config_rx_mode_flag ==
  /\ Typed("rx-mode") /\ all_ports_stopped
  /\ \E v \in Settings : ConfigAll([g EXCEPT !.set["rx-mode"] = v], port)

cmd_config_thresh ==
  /\ Typed("thresh") /\ all_ports_stopped
  /\ \E v \in Settings : ConfigAll([g EXCEPT !.set["thresh"] = v], port)

cmd_config_threshold ==
  /\ Typed("threshold") /\ all_ports_stopped
  /\ \E v \in Settings : ConfigAll([g EXCEPT !.set["threshold"] = v], port)

cmd_config_burst ==
  /\ Typed("burst") /\ all_ports_stopped
  /\ \E v \in Settings : ConfigAll([g EXCEPT !.burst = v], port)

\* The speed is written into the ports; their other settings stay.
SetSpeed(S, v) ==
  /\ port' = Flag([p \in PortIds |-> IF p \in S THEN [port[p] EXCEPT !.speed = v]
                                     ELSE port[p]], enabled)
  /\ behind' = FlaggedLate
  /\ UNCHANGED <<session, pc, enabled, status, slave, g, fwdVars, test_done, released>>

cmd_config_speed_all ==
  /\ Typed("speed") /\ all_ports_stopped
  /\ \E v \in Settings : SetSpeed(enabled, v)

cmd_config_speed_specific ==
  /\ Typed("speed") /\ all_ports_stopped
  /\ \E v \in Settings, p \in enabled : SetSpeed({p}, v)

\* The queue counts that rte_eth_dev_info_get leaves init_port_dcb_config with: for
\* a port that does not exist it leaves what the stack holds.
DcbQueues(p, vt) ==
  IF p \notin enabled THEN StackCounts \X StackCounts
  ELSE IF vt \/ VmdqBase = 0 THEN {<<MaxQ, MaxQ>>} ELSE {<<Tcs, Tcs>>}

\* get_eth_dcb_conf and the rest of init_port_dcb_config: the port's own
\* configuration is written over, the global queue counts follow the device.  The
\* port is flagged when it exists (cmd_reconfig_device_queue).
init_port_dcb_config(p, q) ==
  LET gl == [g EXCEPT !.rxq = q[1], !.txq = q[2], !.dcb_config = TRUE,
                      !.set["threshold"] = 1]
  IN  /\ g' = gl
      /\ port' = Flag([port EXCEPT ![p].mq = "dcb", ![p].speed = 0, ![p].dcb = TRUE,
                         ![p].set = [k \in Kinds |-> IF k \in DevKinds THEN 0
                                                     ELSE gl.set[k]]],
                      {p} \intersect enabled)
      /\ behind' = IF q = <<g.rxq, g.txq>> THEN behind \ {p} ELSE enabled \ {p}

\* The status of the port is asked for, not its existence (the family "dcb absent"
\* has the commands for ports that do not exist).
cmd_config_dcb(p) ==
  /\ Typed(IF p \in enabled THEN "dcb" ELSE "dcb absent")
  /\ status[p] = "STOPPED" /\ g.nblc >= Tcs
  /\ \E vt \in BOOLEAN :
       /\ ~(p \in enabled /\ vt /\ VmdqBase > 0)
       /\ \E q \in DcbQueues(p, vt) : init_port_dcb_config(p, q)
  /\ UNCHANGED <<session, pc, enabled, status, slave, fwdVars, test_done, released>>

\* The new device is configured while it is not yet enabled, and takes over the
\* status that ports[] has at its index.
cmd_create_bonded_device(p) ==
  /\ Typed("bond") /\ test_done /\ FreePort(p)
  /\ port' = reconfig([port EXCEPT ![p].dev = NullPort.dev, ![p].bonded = TRUE],
                      p, enabled, g)
  /\ enabled' = enabled \union {p}
  /\ behind' = (behind \union Rewritten(port')) \ {p}
  /\ UNCHANGED <<session, pc, status, slave, g, fwdVars, test_done, released>>

Bonds == {b \in enabled : port[b].bonded}

\* The bonding commands refresh the records of all ports and flag none.
Refresh ==
  /\ port' = init_port_config(port, enabled, g)
  /\ behind' = behind \union Rewritten(port')
  /\ UNCHANGED <<session, pc, enabled, status, g, fwdVars, test_done>>

cmd_set_bonding_primary(p) ==
  /\ Typed("primary") /\ p \in enabled \intersect slave /\ Bonds /= {}
  /\ Refresh
  /\ UNCHANGED <<slave, released>>

cmd_add_bonding_slave(p) ==
  /\ Typed("addslave") /\ p \in enabled \ (slave \union Bonds) /\ Bonds /= {}
  /\ Refresh
  /\ slave' = slave \union {p}
  /\ UNCHANGED released

cmd_remove_bonding_slave(p) ==
  /\ Typed("unslave") /\ p \in enabled \intersect slave /\ Bonds /= {}
  /\ Refresh
  /\ slave' = slave \ {p}
  /\ released' = IF test_done THEN {} ELSE released \union {p}

-----------------------------------------------------------------------------
(* Commands that change the forwarding configuration.                      *)

SetFwd(gl) ==
  /\ g' = gl
  /\ UNCHANGED <<session, pc, portVars, fwdVars, test_done, histVars>>

\* set corelist / coremask, set portlist / portmask: n different ports.
cmd_set_list ==
  /\ test_done
  /\ \/ /\ Typed("corelist")
        /\ \E n \in 1 .. NbLcores : SetFwd([g EXCEPT !.nbcfglc = n, !.nblc = n])
     \/ /\ Typed("portlist")
        /\ \E n \in 1 .. nb_ports : \E l \in [0 .. n - 1 -> enabled] :
             /\ \A i, j \in 0 .. n - 1 : l[i] = l[j] => i = j
             /\ SetFwd([g EXCEPT !.nbcfg = n, !.nbport = n,
                          !.ids = [i \in 0 .. MaxPorts |-> IF i < n THEN l[i] ELSE @[i]]])

set_fwd_lcores_number ==
  Typed("nbcore") /\ \E n \in 0 .. g.nbcfglc : SetFwd([g EXCEPT !.nblc = n])

set_fwd_ports_number ==
  Typed("nbport") /\ \E n \in 0 .. g.nbcfg : SetFwd([g EXCEPT !.nbport = n])

set_def_fwd_config ==
  /\ Typed("default")
  /\ SetFwd([g EXCEPT !.nbcfglc = NbLcores, !.nblc = 1,
                      !.nbcfg = nb_ports, !.nbport = nb_ports,
                      !.ids = [i \in 0 .. MaxPorts |-> IF i < nb_ports THEN i ELSE @[i]]])

set_pkt_forwarding_mode ==
  Typed("mode") /\ \E b \in BOOLEAN : SetFwd([g EXCEPT !.icmp = b])

\* "show config fwd" rebuilds the forwarding configuration, also while it is
\* in use.
fwd_config_display ==
  /\ Typed("show")
  /\ IF SetupDies THEN pc' = "crash" /\ UNCHANGED fwdVars
     ELSE IF StreamsExit(enabled, g) THEN pc' = "exit" /\ UNCHANGED fwdVars
     ELSE pc' = pc /\ SetupDone(FALSE) /\ core' = CoresAfter(enabled, g)
  /\ UNCHANGED <<session, portVars, g, test_done, histVars>>

-----------------------------------------------------------------------------
(* Start and stop of packet forwarding, and the cores.                     *)

\* In DCB mode every forwarding port must carry the DCB flag, and there must be
\* more than one core.
DcbRefused ==
  g.dcb_test /\ (g.nblc = 1 \/ \E i \in 0 .. g.nbport - 1 :
                                  i <= MaxPorts /\ ~port[g.ids[i]].dcb)

\* The cores run the function named st (with tx_first, one burst).
StartForwarding(st, then) ==
  /\ all_ports_started /\ test_done /\ ~DcbRefused
  /\ IF SetupDies THEN pc' = "crash" /\ UNCHANGED <<fwdVars, test_done>>
     ELSE IF StreamsExit(enabled, g) THEN pc' = "exit" /\ UNCHANGED <<fwdVars, test_done>>
     ELSE /\ SetupDone(TRUE)
          /\ core' = Launched(cur', fc', st)
          /\ test_done' = FALSE
          /\ pc' = then
  /\ UNCHANGED <<session, portVars, g, histVars>>

cmd_start == Typed("start") /\ StartForwarding("fwd", "prompt")

cmd_start_tx_first == Typed("txfirst") /\ StartForwarding("burst", "txfirst")

\* rte_eal_mp_wait_lcore has returned: the second launch.
TxFirstDone ==
  /\ pc = "txfirst" /\ AllIdle
  /\ fc' = [lc \in Lcores |-> IF lc < cur.lcores THEN [fc[lc] EXCEPT !.stopped = FALSE]
                              ELSE fc[lc]]
  /\ core' = Launched(cur, fc, "fwd")
  /\ pc' = "prompt"
  /\ UNCHANGED <<session, portVars, g, cur, fs, test_done, histVars>>

\* Mutant: the last core is not told.
TellCores_butlast ==
  fc' = [lc \in Lcores |-> IF lc < cur.lcores - 1 THEN [fc[lc] EXCEPT !.stopped = TRUE]
                           ELSE fc[lc]]

TellCores ==
  fc' = [lc \in Lcores |-> IF lc < cur.lcores THEN [fc[lc] EXCEPT !.stopped = TRUE]
                           ELSE fc[lc]]

stop_packet_forwarding ==
  /\ Typed("stop") /\ all_ports_started /\ ~test_done
  /\ TellCores
  /\ pc' = "stopping"
  /\ UNCHANGED <<session, portVars, g, cur, fs, core, test_done, histVars>>

\* quit: stops the forwarding when stop would, then closes the devices.
pmd_test_exit ==
  /\ Typed("quit")
  /\ IF ~test_done /\ all_ports_started THEN TellCores /\ pc' = "quitting"
     ELSE pc' = "exit" /\ UNCHANGED fc
  /\ UNCHANGED <<session, portVars, g, cur, fs, core, test_done, histVars>>

StopDone ==
  /\ pc \in {"stopping", "quitting"} /\ AllIdle
  /\ test_done' = TRUE
  /\ pc' = IF pc = "stopping" THEN "prompt" ELSE "exit"
  /\ released' = {}
  /\ UNCHANGED <<session, portVars, g, fwdVars, behind>>

\* A core leaves run_pkt_fwd_on_lcore: after one burst, or when told to stop.
run_pkt_fwd_on_lcore(lc) ==
  /\ \/ core[lc].st = "burst"
     \/ core[lc].st = "fwd" /\ fc[lc].stopped
  /\ core' = [core EXCEPT ![lc] = Idle]
  /\ UNCHANGED <<session, pc, portVars, g, cur, fc, fs, test_done, histVars>>

\* It makes another pass over its streams (Engines models the pass).
pkt_fwd(lc) == core[lc].st = "fwd" /\ ~fc[lc].stopped /\ UNCHANGED vars

-----------------------------------------------------------------------------
(* Launch, after the options are parsed and init_config is done.           *)

Init ==
  /\ session \in Sessions
  /\ pc = "boot"
  /\ enabled = session.ports
  /\ status = [p \in PortIds |-> "STOPPED"]
  /\ slave = {}
  /\ g = [rxq |-> session.rxq, txq |-> session.txq, set |-> [k \in Kinds |-> 0],
          burst |-> 0, dcb_config |-> FALSE, dcb_test |-> FALSE, icmp |-> FALSE,
          ids |-> [i \in 0 .. MaxPorts |-> IF i < nb_ports THEN i ELSE 0],
          nbport |-> nb_ports, nbcfg |-> nb_ports,
          nblc |-> session.nblc, nbcfglc |-> NbLcores]
  /\ port = Flag(init_port_config([p \in PortIds |-> NullPort], enabled, g), enabled)
  /\ cur = [lcores |-> 0, ports |-> 0, streams |-> 0, dealt |-> 0]
  /\ fc = [lc \in Lcores |-> [idx |-> 0, nb |-> 0, stopped |-> FALSE]]
  /\ fs = [s \in 0 .. nb_ports * session.rxq - 1 |-> ZeroStream]
  /\ core = [lc \in Lcores |-> Idle]
  /\ test_done = TRUE
  /\ behind = {} /\ released = {}

\* main: the program ends when the ports cannot be configured; a device that
\* only fails to start leaves its port stopped.
main ==
  /\ pc = "boot"
  /\ \E f \in Faulty \union {NoPort}, k \in Failures :
       /\ StartPorts(ALL, f, k)
       /\ pc' = IF f /= NoPort /\ k /= "start" THEN "exit"
                ELSE IF session.auto THEN "autostart" ELSE "prompt"
  /\ UNCHANGED <<session, enabled, slave, cur, fc, test_done, released>>

\* The option auto-start; the prompt appears also when the start is refused.
auto_start ==
  /\ pc = "autostart"
  /\ IF all_ports_started THEN StartForwarding("fwd", "prompt")
     ELSE pc' = "prompt" /\ UNCHANGED <<session, portVars, g, fwdVars, test_done, histVars>>

Exited == pc \in {"exit", "crash"} /\ UNCHANGED vars

Master ==
  \/ main \/ auto_start \/ TxFirstDone \/ StopDone

\* The commands, as main_ctx lists them.
Command ==
  \/ \E p \in PortIds \union {ALL} : start_port(p) \/ stop_port(p) \/ close_port(p)
  \/ \E p \in PortIds : attach_port(p) \/ detach_port(p)
  \/ cmd_config_rx_tx \/ cmd_config_max_pkt_len \/ cmd_config_rx_mode_flag
  \/ cmd_config_thresh \/ cmd_config_threshold \/ cmd_config_burst
  \/ cmd_config_speed_all \/ cmd_config_speed_specific
  \/ \E p \in PortIds : cmd_config_dcb(p) \/ cmd_create_bonded_device(p)
  \/ \E p \in PortIds : \/ cmd_set_bonding_primary(p)
                          \/ cmd_add_bonding_slave(p) \/ cmd_remove_bonding_slave(p)
  \/ cmd_set_list \/ set_fwd_lcores_number \/ set_fwd_ports_number
  \/ set_def_fwd_config \/ set_pkt_forwarding_mode \/ fwd_config_display
  \/ cmd_start \/ cmd_start_tx_first \/ stop_packet_forwarding \/ pmd_test_exit

Next == Master \/ Command \/ (\E lc \in Lcores : run_pkt_fwd_on_lcore(lc) \/ pkt_fwd(lc)) \/ Exited

\* The master thread runs on its own core and never waits for more than the
\* forwarding cores; a forwarding core polls the flag between two passes.
Spec ==
  /\ Init /\ [][Next]_vars
  /\ WF_vars(Master)
  /\ \A lc \in Lcores : WF_vars(run_pkt_fwd_on_lcore(lc))

-----------------------------------------------------------------------------
(* Properties.                                                             *)

TypeOK ==
  /\ pc \in {"boot", "autostart", "prompt", "txfirst", "stopping", "quitting",
             "exit", "crash"}
  /\ enabled \subseteq PortIds /\ slave \subseteq PortIds /\ behind \subseteq PortIds
  /\ released \subseteq PortIds
  /\ status \in [PortIds -> {"STOPPED", "STARTED", "CLOSED"}]
  /\ test_done \in BOOLEAN

Running == {lc \in Lcores : core[lc].st /= "idle"}
StreamIds(lc) == core[lc].idx .. core[lc].idx + core[lc].nb - 1

\* With several queues, and in the paired topology, ports send to their
\* neighbours: the last of an odd number of ports has none.
OddPairing == ~Even(cur.ports) /\ (session.topo = "paired" \/ cur.streams > cur.ports)

Usable(p) == p \in enabled /\ (p \in slave \union released \/ status[p] = "STARTED")

\* The identifiers that "set default" lists although no such port exists: it counts
\* the ports and lists them from 0.
ListedAbsent ==
  IF "default" \in session.cmds \union session.running
  THEN (0 .. nb_ports - 1) \ enabled ELSE {}

\* A forwarding core polls streams that are allocated, whose receive port is started
\* (bonding slaves are left to the bonded device, those taken out of it while packets
\* are forwarded included) and has the receive queue, and whose transmit port and
\* queue exist likewise.  What the code does not cover (all_ports_started,
\* init_fwd_streams and fwd_config_setup together): identifiers that
\* set_default_fwd_ports_config lists after a port below them is gone, ports whose
\* settings are behind, a configuration without transmit queues, more receive than
\* transmit queues in icmpecho mode, and odd pairings.
PollsReadyQueues ==
  \A lc \in Running :
    /\ ~core[lc].freed
    /\ StreamIds(lc) \subseteq DOMAIN fs
    /\ \A s \in StreamIds(lc) :
         LET rx == fs[s].rx  tx == fs[s].tx IN
         /\ rx[1] \in ListedAbsent \/ Usable(rx[1])
         /\ rx[1] \in ListedAbsent \union behind \/ rx[2] < port[rx[1]].dev.rx
         /\ OddPairing \/ /\ tx[1] \in ListedAbsent \/ Usable(tx[1])
                          /\ \/ tx[1] \in ListedAbsent \union behind
                             \/ port[tx[1]].dev.tx = 0
                             \/ g.icmp /\ g.rxq > g.txq
                             \/ tx[2] < port[tx[1]].dev.tx

\* Receive and transmit queues are not safe for two cores at once: no queue is
\* served by two cores that fwd_config_setup dealt a share.  In DCB mode it launches
\* the cores past the last traffic class with the share they had before.
NoSharedQueue ==
  \A a, b \in Running : a /= b /\ core[a].dealt /\ core[b].dealt =>
    \A s \in StreamIds(a), t \in StreamIds(b) :
      /\ fs[s].rx /= fs[t].rx
      /\ OddPairing \/ fs[s].tx /= fs[t].tx

\* While packets are forwarded every port that stop_packet_forwarding insists on
\* is started, but for the slaves that were taken out of a bonded device in the
\* meantime (cmd_remove_bonding_slave does not ask whether packets are forwarded):
\* without such a command, forwarding that was started can be stopped.
CanStop == ~test_done => \A p \in enabled \ (slave \union released) : status[p] = "STARTED"

\* A started port runs with the settings recorded for it: none of the commands
\* that change a setting leaves the device behind (need_reconfig and
\* need_reconfig_queues).  Exceptions are the slaves and the ports that are behind:
\* passed over by a DCB command, rewritten by init_port_config without a flag, or
\* flagged as a slave while they were started.
InForce(p) ==
  LET r == port[p] IN
  /\ ~r.need /\ ~r.needq
  /\ r.dev = [rx |-> g.rxq, tx |-> g.txq, mq |-> r.mq, speed |-> r.speed, set |-> r.set]
ConfigInForce ==
  \A p \in enabled \ (slave \union behind) : status[p] = "STARTED" => InForce(p)

\* "In DCB mode, all forwarding ports must be configured in this mode"
\* (start_packet_forwarding): their devices were configured for it.
DcbPortsConfigured ==
  ~test_done /\ g.dcb_test =>
    \A i \in 0 .. cur.ports - 1 : port[g.ids[i]].dev.mq = "dcb"

\* The master thread comes back to the prompt, or leaves, when it waits for the
\* forwarding cores ("stop", "quit" and "start tx_first"), provided that the forwarding
\* configuration still counts the cores that run: "show config fwd" may have made it
\* smaller while it was in use, and stop_packet_forwarding tells only those it counts.
WaitEnds ==
  pc \in {"txfirst", "stopping", "quitting"} /\ Running \subseteq 0 .. cur.lcores - 1
    ~> pc \in {"prompt", "exit"}

\* What testpmd promises of its ports.
Life == INSTANCE PortLife WITH
  Ports <- PortIds, forwarding <- ~test_done,
  life <- [p \in PortIds |-> IF p \in enabled THEN status[p] ELSE "ABSENT"]

\* The handlers implement the life cycle of PortLife: ports change only as it
\* says and never while packets are forwarded.
LifeCycle == Life!LifeSpec
=============================================================================
