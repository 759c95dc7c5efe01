---------------------------- MODULE PortSettings ----------------------------
(***************************************************************************)
(* The testpmd commands that hand one setting to a device, or keep one in  *)
(* a global: reception modes, addresses, virtual functions, mirror rules,  *)
(* RSS, L2 tunnels, bonding, NIC bypass (test-pmd/cmdline.c, config.c).    *)
(* Devices are external: a call either stores the setting or refuses it    *)
(* and changes nothing, so a refusal is a step that does not happen.       *)
(***************************************************************************)
EXTENDS PmdBase

CONSTANTS LinkSpeed,   \* speed the device reports
          RetaSize,    \* entries of the redirection table
          Group        \* RTE_RETA_GROUP_SIZE

ASSUME RetaAssumption == RetaSize \in Nat /\ Group \in Nat \ {0}

VARIABLES dev,       \* per port: setting -> value
          glob,      \* globals of testpmd: setting -> value
          typed      \* history: per port, hash index -> queue typed last

VfIds == {0, 1}
Queue == 0 .. NbQueues - 1

Set(p, f, v) == dev' = [dev EXCEPT ![p][f] = v] /\ UNCHANGED <<glob, typed>>
SetAll(f, v) == /\ dev' = [p \in Ports |-> [dev[p] EXCEPT ![f] = v]]
                /\ UNCHANGED <<glob, typed>>
SetGlob(f, v) == glob' = [glob EXCEPT ![f] = v] /\ UNCHANGED <<dev, typed>>

\* Reception ---------------------------------------------------------------

cmd_set_promisc_mode == \E p \in Ports, on \in BOOLEAN :
  Set(p, "promisc", on) \/ SetAll("promisc", on)

cmd_set_allmulti_mode == \E p \in Ports, on \in BOOLEAN :
  Set(p, "allmulti", on) \/ SetAll("allmulti", on)

dev_set_link_up(p)   == Set(p, "up", TRUE)
dev_set_link_down(p) == Set(p, "up", FALSE)

cmd_set_link_up   == \E p \in Ports : dev_set_link_up(p)
cmd_set_link_down == \E p \in Ports : dev_set_link_down(p)

port_mtu_set(p, v) == Set(p, "mtu", v)

\* 0 stands for a value below ETHER_MIN_LEN.
cmd_config_mtu == \E p \in Ports, v \in Vals : v # 0 /\ port_mtu_set(p, v)

cmd_mac_addr == \E p \in Ports, a \in Vals, on \in BOOLEAN :
  Set(p, "macs", Flip(dev[p]["macs"], a, on))

cmd_set_uc_hash_filter == \E p \in Ports, a \in Vals, on \in BOOLEAN :
  Set(p, "uta", Flip(dev[p]["uta"], a, on))

cmd_set_uc_all_hash_filter == \E p \in Ports, on \in BOOLEAN : Set(p, "uta_all", on)

ReceiveNext ==
  \/ cmd_set_promisc_mode \/ cmd_set_allmulti_mode \/ cmd_set_link_up \/ cmd_set_link_down
  \/ cmd_config_mtu \/ cmd_mac_addr \/ cmd_set_uc_hash_filter \/ cmd_set_uc_all_hash_filter

\* Virtual functions and mirror rules --------------------------------------

cmd_set_vf_macvlan_filter ==
  \E p \in Ports, vf \in VfIds, on \in BOOLEAN,
     type \in {"exact-mac", "exact-mac-vlan", "hashmac", "hashmac-vlan"} :
    Set(p, "macvlan", Flip(dev[p]["macvlan"], <<vf, type>>, on))

set_vf_traffic(p, dir, vf, on) == Set(p, "traffic", Flip(dev[p]["traffic"], <<dir, vf>>, on))

cmd_set_vf_traffic == \E p \in Ports, dir \in {"rx", "tx"}, vf \in VfIds, on \in BOOLEAN :
  set_vf_traffic(p, dir, vf, on)

\* One mode bit at a time; the device keeps the others.
cmd_set_vf_rxmode ==
  \E p \in Ports, vf \in VfIds, mode \in {"AUPE", "ROPE", "BAM", "MPE"}, on \in BOOLEAN :
    Set(p, "rxmode", Flip(dev[p]["rxmode"], <<vf, mode>>, on))

cmd_vf_mac_addr_filter == \E p \in Ports, vf \in VfIds, a \in Vals :
  Set(p, "vfmacs", dev[p]["vfmacs"] \union {<<vf, a>>})

set_vf_rx_vlan(p, v, mask, on) ==
  /\ ~vlan_id_is_invalid(v)
  /\ Set(p, "vfvlan", IF on THEN dev[p]["vfvlan"] \union {<<v, vf>> : vf \in mask}
                            ELSE dev[p]["vfvlan"] \ {<<v, vf>> : vf \in mask})

cmd_vf_rxvlan_filter == \E p \in Ports, v \in TypedVlans, mask \in SUBSET VfIds, on \in BOOLEAN :
  set_vf_rx_vlan(p, v, mask, on)

set_queue_rate_limit(p, q, rate) ==
  rate <= LinkSpeed /\ Set(p, "qrate", [dev[p]["qrate"] EXCEPT ![q] = rate])

cmd_queue_rate_limit == \E p \in Ports, q \in Queue, rate \in 0 .. LinkSpeed + 1 :
  set_queue_rate_limit(p, q, rate)

set_vf_rate_limit(p, vf, rate, qmask) ==
  /\ qmask # {} /\ rate <= LinkSpeed
  /\ Set(p, "vfrate", [x \in VfIds \X Queue |->
                         IF x[1] = vf /\ x[2] \in qmask THEN rate ELSE dev[p]["vfrate"][x]])

cmd_vf_rate_limit ==
  \E p \in Ports, vf \in VfIds, rate \in 0 .. LinkSpeed + 1, qmask \in SUBSET Queue :
    set_vf_rate_limit(p, vf, rate, qmask)

\* A rule of the device is set ("on") or switched off.
Rule(p, id, rule, on) == Set(p, "mirror", [dev[p]["mirror"] EXCEPT ![id] =
                                             IF on THEN rule ELSE <<"off">>])

cmd_set_mirror_mask ==
  \E p \in Ports, id \in {0, 1}, pool \in Vals, on \in BOOLEAN :
    \/ \E what \in {"pool-mirror-up", "pool-mirror-down"}, m \in Vals :
         Rule(p, id, <<what, pool, m>>, on)
    \/ \E list \in (SUBSET TypedVlans) \ {{}} :
         (\A v \in list : v < NbVlans) /\ Rule(p, id, <<"vlan-mirror", pool, list>>, on)

cmd_set_mirror_link ==
  \E p \in Ports, id \in {0, 1}, pool \in Vals, on \in BOOLEAN,
     what \in {"uplink-mirror", "downlink-mirror"} : Rule(p, id, <<what, pool>>, on)

cmd_reset_mirror_rule == \E p \in Ports, id \in {0, 1} : Rule(p, id, <<"off">>, FALSE)

VfFilterNext == \/ cmd_set_vf_macvlan_filter \/ cmd_set_vf_traffic \/ cmd_vf_mac_addr_filter
VfModeNext   == \/ cmd_set_vf_rxmode \/ cmd_vf_rxvlan_filter
VfRateNext   == \/ cmd_queue_rate_limit \/ cmd_vf_rate_limit
MirrorNext   == \/ cmd_set_mirror_mask \/ cmd_set_mirror_link \/ cmd_reset_mirror_rule

\* RSS ---------------------------------------------------------------------

RssWords == {"all", "ip", "udp", "tcp", "sctp", "ether", "none"}
RssHash(word) == CASE word = "none" -> {}
                   [] word = "all"  -> {"ip", "udp", "tcp", "sctp", "ether"}
                   [] OTHER         -> {word}

\* The loop runs over the identifiers below the number of devices, not over
\* the attached ports; the key is not touched.
cmd_config_rss ==
  \E word \in RssWords :
    /\ dev' = [p \in Ports |->
                 IF p < Cardinality(Ports) THEN [dev[p] EXCEPT !["rss"] = RssHash(word)]
                                              ELSE dev[p]]
    /\ UNCHANGED <<glob, typed>>

\* Two digits a byte, all of them valid, exactly 2 * RSS_HASH_KEY_LENGTH.
parse_key(digits, allHexa) == digits = 80 /\ allHexa

\* The hash types are read back first, so that only the key changes.
port_rss_hash_key_update(p, key) == Set(p, "key", key)

cmd_config_rss_hash_key ==
  \E p \in Ports, key \in Vals, digits \in {79, 80}, allHexa \in BOOLEAN :
    parse_key(digits, allHexa) /\ port_rss_hash_key_update(p, key)

port_is_started(p) == dev[p]["started"]

cmd_config_rxtx_queue ==
  \E p \in Ports, dir \in {"rxq", "txq"}, q \in TypedQueues, on \in BOOLEAN :
    /\ glob["test_done"] /\ port_is_started(p) /\ ~rx_queue_id_is_invalid(q)
    /\ Set(p, "queues", Flip(dev[p]["queues"], <<dir, q>>, on))

\* Mutant: the first of two pairs for one index wins.
parse_reta_config_first(pairs) ==
  LET At(g, s) == {i \in 1 .. Len(pairs) : pairs[i][1] \div Group = g
                                        /\ pairs[i][1] % Group = s}
      FirstOf(I) == pairs[CHOOSE i \in I : \A j \in I : i <= j][2]
  IN [g \in 0 .. RetaSize \div Group - 1 |->
        [mask |-> {s \in 0 .. Group - 1 : At(g, s) # {}},
         reta |-> [s \in 0 .. Group - 1 |-> IF At(g, s) = {} THEN 0 ELSE FirstOf(At(g, s))]]]

(* "(index,queue),..." fills groups of Group entries: a bit of the group's mask
   and the queue at that place, the later of two pairs for one index winning.
   An index outside the table refuses the whole command. *)
parse_reta_config(pairs) ==
  LET At(g, s) == {i \in 1 .. Len(pairs) : pairs[i][1] \div Group = g
                                        /\ pairs[i][1] % Group = s}
      LastOf(I) == pairs[CHOOSE i \in I : \A j \in I : j <= i][2]
  IN [g \in 0 .. RetaSize \div Group - 1 |->
        [mask |-> {s \in 0 .. Group - 1 : At(g, s) # {}},
         reta |-> [s \in 0 .. Group - 1 |-> IF At(g, s) = {} THEN 0 ELSE LastOf(At(g, s))]]]

\* External: the device stores the entries whose mask bit is set.
rte_eth_dev_rss_reta_update(table, conf) ==
  [i \in 0 .. RetaSize - 1 |->
     IF i % Group \in conf[i \div Group].mask THEN conf[i \div Group].reta[i % Group]
                                              ELSE table[i]]

StoreReta(p, x, y) ==
  /\ dev' = [dev EXCEPT ![p]["reta"] =
               rte_eth_dev_rss_reta_update(@, parse_reta_config(<<x, y>>))]
  /\ typed' = [typed EXCEPT ![p] = [[@ EXCEPT ![x[1]] = x[2]] EXCEPT ![y[1]] = y[2]]]
  /\ UNCHANGED glob

cmd_config_rss_reta ==
  \E p \in Ports, x, y \in (0 .. RetaSize) \X Queue :
    x[1] < RetaSize /\ y[1] < RetaSize /\ StoreReta(p, x, y)

\* One mask per group must be typed; without a whole group none can be.
showport_parse_reta_config(masks) == Len(masks) = RetaSize \div Group /\ masks # <<>>

\* The pairs "show port reta" prints for the masks typed.
port_rss_reta_info(table, masks) ==
  {<<i, table[i]>> : i \in {j \in 0 .. RetaSize - 1 : j % Group \in masks[j \div Group + 1]}}

cmd_set_sym_hash_ena_per_port == \E p \in Ports, on \in BOOLEAN : Set(p, "symhash", on)

\* One flow type's bit is valid in the request: the others keep their setting.
cmd_set_hash_global_config ==
  \E p \in Ports, func \in {"toeplitz", "simple_xor", "default"},
     flow \in {"ipv4-udp", "ipv6-udp"}, on \in BOOLEAN :
    Set(p, "hash", [func |-> func, sym |-> Flip(dev[p]["hash"].sym, flow, on)])

str2inset(word) == IF word \in {"ethertype", "src-ipv4", "none"} THEN word ELSE "unknown"

\* "select" replaces the input set of a flow type, "add" extends it.
InputSet(S, word, op) == CASE op = "select" -> {str2inset(word)}
                           [] op = "add"    -> S \union {str2inset(word)}

cmd_set_hash_input_set ==
  \E p \in Ports, word \in {"ethertype", "src-ipv4"}, op \in {"select", "add"} :
    Set(p, "inset", InputSet(dev[p]["inset"], word, op))

cmd_set_fdir_input_set ==
  \E p \in Ports, word \in {"ethertype", "src-ipv4"}, op \in {"select", "add"} :
    Set(p, "fdir_inset", InputSet(dev[p]["fdir_inset"], word, op))

\* Starting and stopping a port and the forwarding, as far as the above asks.
StartStop == \/ \E p \in Ports : Set(p, "started", ~dev[p]["started"])
             \/ SetGlob("test_done", ~glob["test_done"])

RssNext  == \/ StartStop \/ cmd_config_rss \/ cmd_config_rss_hash_key \/ cmd_config_rxtx_queue
RetaNext == cmd_config_rss_reta
HashNext == \/ cmd_set_sym_hash_ena_per_port \/ cmd_set_hash_global_config
            \/ cmd_set_hash_input_set \/ cmd_set_fdir_input_set

\* L2 tunnels (E-tag) ------------------------------------------------------

cmd_config_l2_tunnel_eth_type == \E p \in Ports, v \in Vals :
  Set(p, "l2type", v) \/ SetAll("l2type", v)

cmd_config_l2_tunnel_en_dis == \E p \in Ports, on \in BOOLEAN :
  Set(p, "l2on", on) \/ SetAll("l2on", on)

\* Insertion is kept per virtual function; switching it off names no tag.
cmd_config_e_tag_insertion_en == \E p \in Ports, vf \in VfIds, tag \in Vals :
  Set(p, "insert", [dev[p]["insert"] EXCEPT ![vf] = <<tag>>])

cmd_config_e_tag_insertion_dis == \E p \in Ports, vf \in VfIds :
  Set(p, "insert", [dev[p]["insert"] EXCEPT ![vf] = <<>>])

cmd_config_e_tag_stripping_en_dis  == \E p \in Ports, on \in BOOLEAN : Set(p, "strip", on)
cmd_config_e_tag_forwarding_en_dis == \E p \in Ports, on \in BOOLEAN : Set(p, "fwd", on)

\* Tags above 0x3fff are refused; the device deletes by tag alone.
TagOk(tag) == tag < NbVlans

cmd_config_e_tag_filter_add == \E p \in Ports, tag \in TypedVlans, pool \in Vals :
  TagOk(tag) /\ Set(p, "etags", dev[p]["etags"] \union {<<tag, pool>>})

cmd_config_e_tag_filter_del == \E p \in Ports, tag \in TypedVlans :
  TagOk(tag) /\ Set(p, "etags", {f \in dev[p]["etags"] : f[1] # tag})

TunnelNext ==
  \/ cmd_config_l2_tunnel_eth_type \/ cmd_config_l2_tunnel_en_dis
  \/ cmd_config_e_tag_insertion_en \/ cmd_config_e_tag_insertion_dis
  \/ cmd_config_e_tag_stripping_en_dis \/ cmd_config_e_tag_forwarding_en_dis
  \/ cmd_config_e_tag_filter_add \/ cmd_config_e_tag_filter_del

\* Bonding and bypass ------------------------------------------------------

cmd_set_bonding_mode == \E p \in Ports, v \in Vals : Set(p, "mode", v)
cmd_set_balance_xmit_policy == \E p \in Ports, v \in {"l2", "l23", "l34"} : Set(p, "policy", v)
cmd_set_bond_mac_addr == \E p \in Ports, v \in Vals : Set(p, "bond_mac", v)
cmd_set_bond_mon_period == \E p \in Ports, v \in Vals :
  p < Cardinality(Ports) /\ Set(p, "period", v)

\* Bypass is a feature of one device; here of port identifiers above zero.
bypass_is_supported(p) == p > 0

BypassModes == {"normal", "bypass", "isolate"}
Timeouts == {"off", "1.5", "2"}

cmd_set_bypass_mode == \E p \in Ports, m \in BypassModes :
  bypass_is_supported(p) /\ Set(p, "bypass", m)

cmd_set_bypass_timeout == \E t \in Timeouts : SetGlob("bypass_timeout", t)

\* A timeout event first stores the watchdog time; a refusal of that is only
\* printed, and the event is stored all the same.
cmd_set_bypass_event ==
  \E p \in Ports, e \in {"none", "timeout", "os_on"}, m \in BypassModes, stored \in BOOLEAN :
    /\ bypass_is_supported(p)
    /\ dev' = [dev EXCEPT ![p]["event"] = [@ EXCEPT ![e] = m],
                          ![p]["watchdog"] = IF e = "timeout" /\ stored
                                               THEN glob["bypass_timeout"] ELSE @]
    /\ UNCHANGED <<glob, typed>>

BondNext   == \/ cmd_set_bonding_mode \/ cmd_set_balance_xmit_policy
              \/ cmd_set_bond_mac_addr \/ cmd_set_bond_mon_period
BypassNext == \/ cmd_set_bypass_mode \/ cmd_set_bypass_timeout \/ cmd_set_bypass_event

\* Globals -----------------------------------------------------------------

cmd_set_burst_tx_retry == \E t, n \in Vals :
  glob' = [glob EXCEPT !["delay"] = t, !["retry"] = n] /\ UNCHANGED <<dev, typed>>

cmd_set_flush_rx   == \E on \in BOOLEAN : SetGlob("no_flush_rx", ~on)
cmd_set_link_check == \E on \in BOOLEAN : SetGlob("no_link_check", ~on)

GlobalNext == cmd_set_burst_tx_retry \/ cmd_set_flush_rx \/ cmd_set_link_check

Numeric   == {"mtu", "key", "l2type", "mode", "bond_mac", "period"}
Switched  == {"promisc", "allmulti", "up", "uta_all", "symhash", "l2on", "strip", "fwd"}
SetValued == {"macs", "uta", "macvlan", "traffic", "rxmode", "vfmacs", "vfvlan", "queues",
              "rss", "inset", "fdir_inset", "etags"}

SettingsInit ==
  /\ dev = [p \in Ports |->
       [f \in Numeric \union Switched \union SetValued \union
              {"started", "qrate", "vfrate", "mirror", "reta", "hash", "insert", "policy",
               "bypass", "event", "watchdog"} |->
          CASE f \in Numeric -> 0 [] f \in SetValued -> {} [] f \in Switched -> FALSE
            [] f = "started" -> TRUE
            [] f = "qrate"  -> [q \in Queue |-> 0]
            [] f = "vfrate" -> [x \in VfIds \X Queue |-> 0]
            [] f = "mirror" -> [i \in {0, 1} |-> <<"off">>]
            [] f = "reta"   -> [i \in 0 .. RetaSize - 1 |-> 0]
            [] f = "hash"   -> [func |-> "default", sym |-> {}]
            [] f = "insert" -> [vf \in VfIds |-> <<>>]
            [] f = "event"  -> [e \in {"none", "timeout", "os_on"} |-> "normal"]
            [] f \in {"policy", "bypass", "watchdog"} -> "default"]]
  /\ glob = [test_done |-> TRUE, bypass_timeout |-> "off", delay |-> 0, retry |-> 0,
             no_flush_rx |-> FALSE, no_link_check |-> FALSE]
  /\ typed = [p \in Ports |-> [i \in 0 .. RetaSize - 1 |-> 0]]

AnySetting ==
  \/ ReceiveNext \/ VfFilterNext \/ VfModeNext \/ VfRateNext \/ MirrorNext \/ RssNext \/ RetaNext
  \/ HashNext \/ TunnelNext \/ BondNext \/ BypassNext \/ GlobalNext

SettingsSpec == SettingsInit /\ [][AnySetting]_<<dev, glob, typed>>

\* "show port reta", with any masks it accepts, prints exactly the entries of the
\* masks, each with the queue typed last for it: the division of the table into
\* groups (parse_reta_config, port_rss_reta_info) neither mixes up two indices
\* nor changes an entry the commands did not name.
RetaAsTyped ==
  \A p \in Ports, m \in [1 .. RetaSize \div Group -> SUBSET (0 .. Group - 1)] :
    showport_parse_reta_config(m) =>
      port_rss_reta_info(dev[p]["reta"], m) =
        {<<(x[1] - 1) * Group + x[2], typed[p][(x[1] - 1) * Group + x[2]]>> :
           x \in {y \in (DOMAIN m) \X (0 .. Group - 1) : y[2] \in m[y[1]]}}
=============================================================================
