------------------------------ MODULE Filters ------------------------------
(***************************************************************************)
(* The packet-filter commands of testpmd (test-pmd/cmdline.c, config.c).   *)
(* Match fields are abstracted to one typed value; what is kept is which   *)
(* commands are refused, which typed words end up in the request sent with *)
(* rte_eth_dev_filter_ctrl, and the flow-director tables that testpmd      *)
(* keeps itself (masks, flexible masks, flexible payloads) and that reach  *)
(* the device when the port starts.                                        *)
(***************************************************************************)
EXTENDS PmdBase, FiniteSetsExt

CONSTANTS FdirMode,     \* fdir_conf.mode: "IP", "MAC-VLAN" or "Tunnel"
          FlowTypes,    \* flow types the device supports (not "unknown")
          FlexMax,      \* entries of flex_mask[] (RTE_ETH_FLOW_MAX)
          FlexLen,      \* RTE_FLEX_FILTER_MAXLEN
          FilterRoom    \* filters a device has room for

ASSUME FlowAssumption == /\ IsFiniteSet(FlowTypes) /\ "unknown" \notin FlowTypes
                         /\ FlexMax \in Nat /\ Cardinality(FlowTypes) < FlexMax

VARIABLES filt,     \* per port: filters the device holds
          table,    \* per port: mask, masks, payloads, started, need_reconfig
          device,   \* per port: the tables last given to the device
          wanted,   \* history: per port, flow type -> flexible mask typed last
          dropped   \* history: ports whose table was emptied behind their device

filtvars == <<filt, table, device, wanted, dropped>>

FilterKinds == {"syn", "ntuple", "flex", "ethertype", "tunnel", "vxlan_port", "gre_key_len", "fdir"}

(* A filter: its kind, what it matches (key) and the rest of the request.
   External: the device refuses to add a match it holds, or a filter it has no
   room for; it deletes by match, and updates by replacing. *)
NewFilter(kind, key, act) == [kind |-> kind, key |-> key, act |-> act]
rte_eth_dev_filter_ctrl(p, op, e) ==
  LET rest == {f \in filt[p][e.kind] : f.key # e.key}
      held == MapThenSumSet(LAMBDA k : Cardinality(filt[p][k]), FilterKinds \ {e.kind})
  IN /\ op = "add" => rest = filt[p][e.kind]
     /\ op # "del" => held + Cardinality(rest) < FilterRoom
     /\ filt' = [filt EXCEPT ![p][e.kind] = IF op = "del" THEN rest ELSE rest \union {e}]
     /\ UNCHANGED <<table, device, wanted, dropped>>

AddDel == {"add", "del"}

\* The delete request is the zeroed structure: a device has one SYN filter.
cmd_syn_filter ==
  \E p \in FewPorts, op \in AddDel, q \in Vals :
    rte_eth_dev_filter_ctrl(p, op, NewFilter("syn", <<>>, IF op = "add" THEN q ELSE 0))

\* Flags are refused unless the protocol is TCP, and when out of range (2).
TcpFlagsOk(flags, proto) == (flags # 0 => proto = "tcp") /\ flags <= 1

cmd_2tuple_filter ==
  \E p \in FewPorts, op \in AddDel, m \in Vals, mask \in SUBSET {"dst_port", "proto"},
     proto \in {"tcp", "udp"}, flags \in 0 .. 2, q \in Vals :
    /\ TcpFlagsOk(flags, proto)
    /\ rte_eth_dev_filter_ctrl(p, op, NewFilter("ntuple", <<2, m, mask, proto, flags>>, q))

\* An IPv6 address is accepted only where the mask takes it out of the
\* comparison, and then travels as zero.
IpOk(family, field, mask) == family = 4 \/ field \in mask
IpField(family, m) == IF family = 4 THEN m ELSE 0

cmd_5tuple_filter ==
  \E p \in FewPorts, op \in AddDel, m \in Vals, mask \in SUBSET {"dst_ip", "src_ip"},
     proto \in {"tcp", "udp"}, flags \in 0 .. 2, dst, src \in {4, 6}, q \in Vals :
    /\ TcpFlagsOk(flags, proto)
    /\ IpOk(dst, "dst_ip", mask) /\ IpOk(src, "src_ip", mask)
    /\ rte_eth_dev_filter_ctrl(p, op,
         NewFilter("ntuple", <<5, IpField(dst, m), IpField(src, m), mask, proto, flags>>, q))

(* The nibbles typed for bytes and mask are cut at what len allows; bytes come
   in groups of four; a last odd nibble of the mask is parsed and not stored. *)
cmd_flex_filter ==
  \E p \in FewPorts, op \in AddDel, len, bytes, mask \in 0 .. FlexLen + 1, m \in Vals :
    LET b == IF bytes * 2 < len * 2 THEN bytes * 2 ELSE len * 2
        k == IF mask < (len + 3) \div 4 THEN mask ELSE (len + 3) \div 4
    IN /\ len <= FlexLen /\ b # 0 /\ b % 8 = 0 /\ k # 0
       /\ rte_eth_dev_filter_ctrl(p, op, NewFilter("flex", <<len, b \div 2, k \div 2, m>>, 0))

cmd_ethertype_filter ==
  \E p \in FewPorts, op \in AddDel, m, mac \in Vals, drop, useMac \in BOOLEAN :
    rte_eth_dev_filter_ctrl(p, op,
      NewFilter("ethertype", <<m, useMac, IF useMac THEN mac ELSE 0>>, drop))

cmd_tunnel_filter ==
  \E p \in FewPorts, op \in AddDel, m \in Vals,
     type \in {"imac-ivlan", "imac-ivlan-tenid", "imac-tenid", "imac",
               "omac-imac-tenid", "oip", "iip"},
     tunnel \in {"vxlan", "nvgre", "ipingre"}, ip \in {4, 6} :
    rte_eth_dev_filter_ctrl(p, op, NewFilter("tunnel", <<type, tunnel, ip, m>>, 0))

cmd_tunnel_udp_config ==
  \E p \in FewPorts, op \in AddDel, m \in Vals :
    rte_eth_dev_filter_ctrl(p, op, NewFilter("vxlan_port", m, 0))

\* RTE_ETH_FILTER_SET of the GRE key length.
cmd_global_config ==
  \E p \in FewPorts, len \in Vals :
    rte_eth_dev_filter_ctrl(p, "update", NewFilter("gre_key_len", <<>>, len))

\* Flow director ----------------------------------------------------------

Ipv4Flows == {"ipv4-other", "ipv4-frag", "ipv4-udp", "ipv4-tcp", "ipv4-sctp"}
Ipv6Flows == {"ipv6-other", "ipv6-frag", "ipv6-udp", "ipv6-tcp", "ipv6-sctp"}
ProtoFlows == {"ipv4-other", "ipv4-frag", "ipv6-other", "ipv6-frag"}
SctpFlows == {"ipv4-sctp", "ipv6-sctp"}
AllFlows == Ipv4Flows \union Ipv6Flows \union {"l2_payload"}

\* "none" stands for RTE_ETH_FLOW_UNKNOWN's word as well.
str2flowtype(s) == IF s \in AllFlows THEN s ELSE "unknown"

str2fdir_tunneltype(s) == IF s \in {"NVGRE", "VxLAN"} THEN s ELSE "unknown"

\* A list "(a,b,..)" of n numbers: at most max of them, each in range.
parse_flexbytes(n, max, inRange) == n <= max /\ inRange
parse_offsets(n, max, inRange) == n <= max /\ inRange

\* IPV4_ADDR_TO_UINT, IPV6_ADDR_TO_ARRAY: the typed family must be the flow's.
IPV4_ADDR_TO_UINT(family)  == family = 4
IPV6_ADDR_TO_ARRAY(family) == family = 6

\* The fields of the request a flow type fills, besides the flexible bytes.
FlowFields(ft) ==
  CASE ft \in Ipv4Flows \union Ipv6Flows ->
         {"ip", "tos", "ttl"} \union (IF ft \in ProtoFlows THEN {"proto"} ELSE {"ports"})
                              \union (IF ft \in SctpFlows THEN {"verify_tag"} ELSE {})
    [] ft = "l2_payload" -> {"ether_type"}
    [] OTHER -> {}

\* Only in IP mode is the flow type read; the other modes leave it unknown.
FdirKey(word, tunnel, m, vf) ==
  LET ft == IF FdirMode = "IP" THEN str2flowtype(word) ELSE "unknown"
      fields == CASE FdirMode = "IP" -> FlowFields(ft)
                  [] FdirMode = "MAC-VLAN" -> {"mac"}
                  [] OTHER -> {"mac", "tunnel_id", str2fdir_tunneltype(tunnel)}
  IN <<ft, fields, m, vf>>

FamilyOk(word, family) ==
  FdirMode = "IP" => /\ word \in Ipv4Flows => IPV4_ADDR_TO_UINT(family)
                     /\ word \in Ipv6Flows => IPV6_ADDR_TO_ARRAY(family)

cmd_flow_director_filter ==
  \E p \in FewPorts, op \in {"add", "del", "update"}, mode \in {"IP", "MAC-VLAN", "Tunnel"},
     word \in FlowTypes \union {"l2_payload"}, tunnel \in {"NVGRE", "VxLAN"},
     m \in Vals, family \in {4, 6}, vf \in {"pf", "vf"}, drop, inRange, vfOk \in BOOLEAN :
    /\ mode = FdirMode /\ parse_flexbytes(1, 16, inRange) /\ FamilyOk(word, family)
    /\ vf = "vf" => vfOk
    /\ rte_eth_dev_filter_ctrl(p, op, NewFilter("fdir", FdirKey(word, tunnel, m, vf), drop))

\* RTE_ETH_FILTER_FLUSH.
cmd_flush_flow_director ==
  \E p \in FewPorts :
    /\ filt' = [filt EXCEPT ![p]["fdir"] = {}]
    /\ UNCHANGED <<table, device, wanted, dropped>>

\* dev_conf.fdir_conf of a port, with need_reconfig of cmd_reconfig_device_queue.
Tables(p, new) ==
  /\ ~table[p].started
  /\ table' = [table EXCEPT ![p] = new]
  /\ UNCHANGED <<filt, device, dropped>>

MaskOrder == <<"vlan", "ipv4_src", "ipv4_dst", "ipv6_src", "ipv6_dst">>
ZeroMask == [f \in {MaskOrder[i] : i \in 1 .. 5} |-> 0]

(* The four addresses of the IP mask are converted in turn: a wrong family at
   the k-th returns with the fields before it written and no reconfiguration. *)
cmd_flow_director_mask ==
  \E p \in FewPorts, mode \in {"IP", "MAC-VLAN", "Tunnel"}, m \in Vals, k \in 0 .. 4 :
    /\ mode = FdirMode
    /\ LET written == {MaskOrder[i] : i \in 1 .. IF FdirMode = "IP" THEN k + 1 ELSE 1}
       IN Tables(p, [table[p] EXCEPT
            !.mask = [f \in DOMAIN @ |-> IF f \in written THEN m ELSE @[f]],
            !.need = @ \/ FdirMode # "IP" \/ k = 4])
    /\ UNCHANGED wanted

TypesOf(s) == {s[i][1] : i \in 1 .. Len(s)}

\* Mutant: the table is not searched for the flow type.
fdir_set_flex_mask_append(s, t, v) == IF Len(s) < FlexMax THEN Append(s, <<t, v>>) ELSE s

(* fdir_set_flex_mask: the entry of the flow type is replaced, else one is
   appended if there is room.  Entries past nb_flexmasks are zero, and no flow
   type the device supports is RTE_ETH_FLOW_UNKNOWN, which is zero too. *)
fdir_set_flex_mask(s, t, v) ==
  IF t \in TypesOf(s) THEN [i \in 1 .. Len(s) |-> IF s[i][1] = t THEN <<t, v>> ELSE s[i]]
  ELSE IF Len(s) < FlexMax THEN Append(s, <<t, v>>) ELSE s

fdir_set_flex_payload(s, t, v) ==
  IF t \in TypesOf(s) THEN [i \in 1 .. Len(s) |-> IF s[i][1] = t THEN <<t, v>> ELSE s[i]]
  ELSE IF Len(s) < 5 THEN Append(s, <<t, v>>) ELSE s

\* The elements of a set, each once, in some order.
Listed(S) == CHOOSE f \in [1 .. Cardinality(S) -> S] : IsInjective(f)

(* "all": one call of fdir_set_flex_mask for every supported type.  There is room
   for all of them (FlowAssumption), and the order of the new entries is no
   matter to the device. *)
SetAllFlows(s, v) ==
  LET new == FlowTypes \ TypesOf(s)
  IN [i \in 1 .. Len(s) |-> IF s[i][1] \in FlowTypes THEN <<s[i][1], v>> ELSE s[i]]
     \o [i \in 1 .. Cardinality(new) |-> <<Listed(new)[i], v>>]

SetMasks(p, masks, typed) ==
  /\ Tables(p, [table[p] EXCEPT !.masks = masks, !.need = TRUE])
  /\ wanted' = [wanted EXCEPT ![p] = typed]

\* The history after v is typed for the flow types of T.
Typed(w, T, v) == [t \in DOMAIN w \union T |-> IF t \in T THEN v ELSE w[t]]

cmd_flow_director_flex_mask ==
  \E p \in FewPorts, word \in FlowTypes \union {"none", "all", "l2_payload"}, v \in Vals,
     inRange \in BOOLEAN :
    /\ parse_flexbytes(1, 16, inRange)
    /\ \/ /\ word = "none"
          /\ SetMasks(p, << <<"unknown", v>> >>, [t \in {"unknown"} |-> v])
       \/ /\ word = "all" /\ FlowTypes # {}
          /\ SetMasks(p, SetAllFlows(table[p].masks, v), Typed(wanted[p], FlowTypes, v))
       \/ /\ str2flowtype(word) \in FlowTypes
          /\ SetMasks(p, fdir_set_flex_mask(table[p].masks, word, v), Typed(wanted[p], {word}, v))

cmd_flow_director_flex_payload ==
  \E p \in FewPorts, layer \in {"raw", "l2", "l3", "l4"}, v \in Vals, inRange \in BOOLEAN :
    /\ parse_offsets(1, 16, inRange)
    /\ Tables(p, [table[p] EXCEPT !.payloads = fdir_set_flex_payload(@, layer, v),
                                  !.need = TRUE])
    /\ UNCHANGED wanted

\* start_port configures the device when need_reconfig is set, stop_port.
start_stop_port ==
  \E p \in FewPorts :
    /\ table' = [table EXCEPT ![p].started = ~@, ![p].need = @ /\ table[p].started]
    /\ device' = IF ~table[p].started /\ table[p].need
                   THEN [device EXCEPT ![p] = [mask |-> table[p].mask,
                                               masks |-> table[p].masks,
                                               payloads |-> table[p].payloads]]
                   ELSE device
    /\ dropped' = IF ~table[p].started /\ table[p].need THEN dropped \ {p} ELSE dropped
    /\ UNCHANGED <<filt, wanted>>

\* dev_conf.fdir_conf as it was at launch, or zeroed: no entries in its tables.
Emptied(t) == [t EXCEPT !.mask = ZeroMask, !.masks = <<>>, !.payloads = <<>>]

\* init_port_config, run by "port config all ..." on stopped ports: the tables of
\* all ports are emptied, and all ports are flagged.
init_port_config_flagged ==
  /\ \A p \in Ports : ~table[p].started
  /\ table' = [p \in Ports |-> [Emptied(table[p]) EXCEPT !.need = TRUE]]
  /\ wanted' = [p \in Ports |-> <<>>]
  /\ UNCHANGED <<filt, device, dropped>>

(* init_port_config, run when a port is attached, a bonded device created, a
   primary slave set, a slave added or removed: the tables of all ports are emptied,
   started ones included, and no port is flagged (but a new one). *)
init_port_config_unflagged ==
  /\ table' = [p \in Ports |-> Emptied(table[p])]
  /\ wanted' = [p \in Ports |-> <<>>]
  /\ dropped' = dropped \union {p \in Ports : ~table[p].need}
  /\ UNCHANGED <<filt, device>>

\* "port config dcb": the whole dev_conf of a stopped port is written anew, and the
\* port is flagged.
init_port_dcb_config_fdir ==
  \E p \in FewPorts :
    /\ Tables(p, [Emptied(table[p]) EXCEPT !.need = TRUE])
    /\ wanted' = [wanted EXCEPT ![p] = <<>>]

FiltInit ==
  /\ filt = [p \in Ports |-> [k \in FilterKinds |-> {}]]
  /\ table = [p \in Ports |-> [mask |-> ZeroMask, masks |-> <<>>, payloads |-> <<>>,
                                   started |-> FALSE, need |-> TRUE]]
  /\ device = [p \in Ports |-> [mask |-> ZeroMask, masks |-> <<>>, payloads |-> <<>>]]
  /\ wanted = [p \in Ports |-> <<>>] /\ dropped = {}

RequestNext == \/ cmd_syn_filter \/ cmd_2tuple_filter \/ cmd_5tuple_filter \/ cmd_flex_filter
               \/ cmd_ethertype_filter \/ cmd_tunnel_filter \/ cmd_tunnel_udp_config
               \/ cmd_global_config \/ cmd_flow_director_filter \/ cmd_flush_flow_director
TableNext == \/ cmd_flow_director_mask \/ cmd_flow_director_flex_mask
             \/ cmd_flow_director_flex_payload \/ start_stop_port
             \/ init_port_config_flagged \/ init_port_config_unflagged
             \/ init_port_dcb_config_fdir
FiltSpec == FiltInit /\ [][RequestNext \/ TableNext]_filtvars

\* A started port has, for every flow type, the flexible mask that was typed
\* last for it since the table was last emptied, and no other: replacing,
\* appending, "none" and "all" (fdir_set_flex_mask) never leave two entries for
\* a type or lose one, and start_port hands the device the current table.
\* Excepted are the devices that keep their masks after init_port_config has
\* emptied the table of a port that is not flagged (every started port is such):
\* they fall into step at the next start that finds the flag.
FlexMasksAsTyped ==
  \A p \in Ports \ dropped : table[p].started =>
    LET s == device[p].masks
    IN /\ Len(s) = Len(table[p].masks) /\ TypesOf(s) = DOMAIN wanted[p]
       /\ \A i, j \in 1 .. Len(s) : s[i][1] = s[j][1] => i = j
       /\ \A i \in 1 .. Len(s) : s[i][2] = wanted[p][s[i][1]]
=============================================================================
