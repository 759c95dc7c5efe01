---------------------------- MODULE FlowControl ----------------------------
(***************************************************************************)
(* "set flow_ctrl" in its full and its eight partial forms, and            *)
(* "set pfc_ctrl" (test-pmd/cmdline.c).  A partial command reads the       *)
(* device's parameters, decodes the mode into two switches, changes what   *)
(* was typed and writes everything back.                                   *)
(***************************************************************************)
EXTENDS PmdBase

CONSTANT Priorities    \* priorities typed for priority flow control

VARIABLES fc_conf, \* per port: struct rte_eth_fc_conf as the device holds it
          pfc,     \* per port and priority: mode and send_xon sent last
          want     \* history: per port, every parameter as it was typed last

Numbers == {"high_water", "low_water", "pause_time", "send_xon"}
Switches == {"rx", "tx", "mac_ctrl_frame_fwd", "autoneg"}
Params == Numbers \union Switches

\* Mutant: both directions on is not taken for receive on.
RxOn_alone(mode) == mode = "RX_PAUSE"

RxOn(mode) == mode \in {"RX_PAUSE", "FULL"}
TxOn(mode) == mode \in {"TX_PAUSE", "FULL"}

\* Rx on gives RX_PAUSE: not what the comment above the table says (cmdline.c:4990).
rx_tx_onoff_2_lfc_mode(rx, tx) ==
  CASE ~rx /\ ~tx -> "NONE"     [] ~rx /\ tx -> "TX_PAUSE"
    [] rx /\ ~tx  -> "RX_PAUSE" [] OTHER     -> "FULL"

\* The table of priority flow control is the transpose of the one above; it
\* bears the same comment and agrees with it.
rx_tx_onoff_2_pfc_mode(rx, tx) ==
  CASE ~rx /\ ~tx -> "NONE"     [] ~rx /\ tx -> "RX_PAUSE"
    [] rx /\ ~tx  -> "TX_PAUSE" [] OTHER     -> "FULL"

\* The parameters as the handler sees them after rte_eth_dev_flow_ctrl_get.
FcCurrent(c) ==
  [x \in Params |-> CASE x = "rx" -> RxOn(c.mode) [] x = "tx" -> TxOn(c.mode)
                      [] OTHER -> c[x]]

\* ... and what it writes with rte_eth_dev_flow_ctrl_set.
FcConf(v) ==
  [x \in (Params \ {"rx", "tx"}) \union {"mode"} |->
     IF x = "mode" THEN rx_tx_onoff_2_lfc_mode(v["rx"], v["tx"]) ELSE v[x]]

Typeable(x) == IF x \in Numbers THEN Vals ELSE BOOLEAN

SetFlow(p, new) == fc_conf' = [fc_conf EXCEPT ![p] = FcConf(new)] /\ UNCHANGED pfc

cmd_link_flow_control_set ==
  \E p \in Ports, n \in Vals, s \in [Switches -> BOOLEAN] :
    LET new == [x \in Params |-> IF x \in Numbers THEN n ELSE s[x]]
    IN SetFlow(p, new) /\ want' = [want EXCEPT ![p] = new]

\* The partial forms: one parameter is typed, the others are read back.
cmd_link_flow_control_set_one ==
  \E p \in Ports, x \in Params : \E v \in Typeable(x) :
    /\ SetFlow(p, [FcCurrent(fc_conf[p]) EXCEPT ![x] = v])
    /\ want' = [want EXCEPT ![p][x] = v]

\* send_xon, mac_ctrl_frame_fwd and autoneg of the structure that is passed
\* are never assigned; send_xon stands for the three.
cmd_priority_flow_control_set ==
  \E p \in Ports, pr \in Priorities, rx, tx \in BOOLEAN, junk \in Vals :
    /\ pfc' = [pfc EXCEPT ![p][pr] = [mode |-> rx_tx_onoff_2_pfc_mode(rx, tx),
                                      send_xon |-> junk]]
    /\ UNCHANGED <<fc_conf, want>>

FcInit ==
  LET zero == [x \in Params |-> IF x \in Numbers THEN 0 ELSE FALSE]
  IN /\ fc_conf = [p \in Ports |-> FcConf(zero)] /\ want = [p \in Ports |-> zero]
     /\ pfc = [p \in Ports |-> [pr \in Priorities |-> [mode |-> "NONE", send_xon |-> 0]]]

FcNext == \/ cmd_link_flow_control_set \/ cmd_link_flow_control_set_one
          \/ cmd_priority_flow_control_set

FcSpec == FcInit /\ [][FcNext]_<<fc_conf, pfc, want>>

\* A partial command changes what was typed and nothing else: after any sequence
\* of full and partial commands each parameter that cmd_link_flow_ctrl_set_parsed
\* would read back is the one typed last for it.  Decoding the mode with the two
\* tests and encoding it with the table loses neither direction.  Which pause
\* mode a direction stands for is another question, the next property.
FlowAsTyped == \A p \in Ports : FcCurrent(fc_conf[p]) = want[p]

\* "Rx on/off [...] can indicate the RTE_FC_TX_PAUSE [...] Tx on/off [...] can
\* indicate the RTE_FC_RX_PAUSE": the comment at cmdline.c:4990.  Link flow control
\* does the opposite, so this fails as soon as one direction alone is typed.
FlowModesAsCommented ==
  \A p \in Ports : /\ want[p]["rx"] <=> fc_conf[p].mode \in {"TX_PAUSE", "FULL"}
                   /\ want[p]["tx"] <=> fc_conf[p].mode \in {"RX_PAUSE", "FULL"}
=============================================================================
