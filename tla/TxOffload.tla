----------------------------- MODULE TxOffload -----------------------------
(***************************************************************************)
(* The VLAN and checksum commands of testpmd (test-pmd/config.c and        *)
(* cmdline.c): read-modify-write of a device's VLAN offloads, its VLAN     *)
(* filter table, and the flags in ports[p].tx_ol_flags, which the VLAN     *)
(* insertion and the checksum commands share.                              *)
(***************************************************************************)
EXTENDS PmdBase

CONSTANT Protos       \* checksum protocols looked at

ASSUME ProtosAssumption == Protos \subseteq {"ip", "udp", "tcp", "sctp", "outer-ip"}

VARIABLE off   \* per port: offloads of the device and flags of ports[]

OffloadInit ==
  off = [p \in Ports |->
           [vlan |-> {}, stripq |-> {}, vft |-> {}, tpid |-> [t \in {"inner", "outer"} |-> 0],
            pvid |-> NbVlans, flags |-> {}, id |-> 0, outer |-> 0, tso |-> 0]]

\* rte_eth_dev_get_vlan_offload, one flag changed, rte_eth_dev_set_vlan_offload.
VlanOffload(p, what, on) == off' = [off EXCEPT ![p].vlan = Flip(@, what, on)]

vlan_extend_set(p, on)    == VlanOffload(p, "extend", on)
rx_vlan_strip_set(p, on)  == VlanOffload(p, "strip", on)
rx_vlan_filter_set(p, on) == VlanOffload(p, "filter", on)
rx_vlan_strip_set_on_queue(p, q, on) == off' = [off EXCEPT ![p].stripq = Flip(@, q, on)]

cmd_vlan_offload ==
  \E p \in Ports, on \in BOOLEAN :
    \/ rx_vlan_strip_set(p, on)
    \/ \E q \in TypedQueues : rx_vlan_strip_set_on_queue(p, q, on)
    \/ rx_vlan_filter_set(p, on)
    \/ vlan_extend_set(p, on)

rx_vft_set(p, v, on) ==
  ~vlan_id_is_invalid(v) /\ off' = [off EXCEPT ![p].vft = Flip(@, v, on)]

cmd_rx_vlan_filter == \E p \in Ports, v \in TypedVlans, on \in BOOLEAN : rx_vft_set(p, v, on)

\* Identifier after identifier, until the device refuses identifier k.
rx_vlan_all_filter_set(p, on, k) ==
  off' = [off EXCEPT ![p].vft = IF on THEN @ \union (0 .. k - 1) ELSE @ \ (0 .. k - 1)]

cmd_rx_vlan_filter_all ==
  \E p \in Ports, on \in BOOLEAN, k \in 0 .. NbVlans : rx_vlan_all_filter_set(p, on, k)

vlan_tpid_set(p, type, tp) == off' = [off EXCEPT ![p].tpid[type] = tp]

cmd_vlan_tpid ==
  \E p \in Ports, type \in {"inner", "outer"}, tp \in {0, 1} : vlan_tpid_set(p, type, tp)

\* Both insertions off, both identifiers cleared.
VlanReset(r) == [r EXCEPT !.flags = @ \ {"INSERT_VLAN", "INSERT_QINQ"}, !.id = 0, !.outer = 0]

tx_vlan_reset(p) == off' = [off EXCEPT ![p] = VlanReset(@)]

cmd_tx_vlan_reset == \E p \in Ports : tx_vlan_reset(p)

\* Mutant: the earlier insertion is not reset.
tx_vlan_set_noreset(p, v) ==
  /\ ~vlan_id_is_invalid(v) /\ "extend" \notin off[p].vlan
  /\ off' = [off EXCEPT ![p].flags = @ \union {"INSERT_VLAN"}, ![p].id = v]

tx_vlan_set(p, v) ==
  /\ ~vlan_id_is_invalid(v) /\ "extend" \notin off[p].vlan
  /\ LET r == VlanReset(off[p])
     IN  off' = [off EXCEPT ![p] = [r EXCEPT !.flags = @ \union {"INSERT_VLAN"}, !.id = v]]

cmd_tx_vlan_set == \E p \in Ports, v \in TypedVlans : tx_vlan_set(p, v)

tx_qinq_set(p, v, w) ==
  /\ ~vlan_id_is_invalid(v) /\ ~vlan_id_is_invalid(w) /\ "extend" \in off[p].vlan
  /\ LET r == VlanReset(off[p])
     IN  off' = [off EXCEPT ![p] = [r EXCEPT !.flags = @ \union {"INSERT_QINQ"},
                                             !.id = v, !.outer = w]]

cmd_tx_vlan_set_qinq == \E p \in Ports, v, w \in TypedVlans : tx_qinq_set(p, v, w)

\* The identifier goes to the device unchecked; NbVlans stands for "none".
tx_vlan_pvid_set(p, v, on) == off' = [off EXCEPT ![p].pvid = IF on THEN v ELSE NbVlans]

cmd_tx_vlan_set_pvid ==
  \E p \in Ports, v \in TypedVlans, on \in BOOLEAN : tx_vlan_pvid_set(p, v, on)

cmd_csum ==
  \E p \in FewPorts, proto \in Protos, hw \in BOOLEAN :
    off' = [off EXCEPT ![p].flags = Flip(@, proto, hw)]

cmd_csum_tunnel ==
  \E p \in FewPorts, on \in BOOLEAN :
    off' = [off EXCEPT ![p].flags = Flip(@, "PARSE_TUNNEL", on)]

cmd_tso_set == \E p \in FewPorts, n \in {0, 1} : off' = [off EXCEPT ![p].tso = n]

\* The commands that meet in the insertion of tags, and the others.
InsertNext ==
  \/ cmd_vlan_offload \/ cmd_tx_vlan_set \/ cmd_tx_vlan_set_qinq \/ cmd_tx_vlan_reset \/ cmd_csum

OffloadNext ==
  \/ InsertNext \/ cmd_rx_vlan_filter \/ cmd_rx_vlan_filter_all \/ cmd_vlan_tpid
  \/ cmd_tx_vlan_set_pvid \/ cmd_csum_tunnel \/ cmd_tso_set

OffloadSpec == OffloadInit /\ [][OffloadNext]_off

\* The engines insert either one VLAN tag or two, never both, and every
\* identifier they insert is valid; with no insertion the identifiers are zero
\* (tx_vlan_set, tx_qinq_set and tx_vlan_reset, in any order with the commands
\* that switch QinQ and checksums).
OneInsertion ==
  \A p \in Ports :
    /\ ~({"INSERT_VLAN", "INSERT_QINQ"} \subseteq off[p].flags)
    /\ off[p].id < NbVlans /\ off[p].outer < NbVlans
    /\ "INSERT_QINQ" \notin off[p].flags => off[p].outer = 0
    /\ {"INSERT_VLAN", "INSERT_QINQ"} \intersect off[p].flags = {} => off[p].id = 0
=============================================================================
