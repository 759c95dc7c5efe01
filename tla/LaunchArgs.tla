----------------------------- MODULE LaunchArgs -----------------------------
(***************************************************************************)
(* launch_args_parse (test-pmd/parameters.c): the options are taken in the *)
(* order of the command line, each checked against what the earlier ones   *)
(* left; an invalid value ends the program (rte_exit).                     *)
(***************************************************************************)
EXTENDS PortTables

CONSTANTS NbPorts,     \* ports 0 .. NbPorts-1 are there at launch
          MaxPorts,    \* RTE_MAX_ETHPORTS
          LaunchCores, \* enabled lcores other than the master, 1 .. LaunchCores
          MaxSocket,   \* max_socket
          MaxQueueId,  \* MAX_QUEUE_ID
          MaxBurst,    \* MAX_PKT_BURST
          SByte,       \* 2^8: the range of an int8_t threshold
          MaxArgs      \* options of one command line (bound)

ASSUME LaunchAssumption ==
  NbPorts \in Nat /\ MaxPorts \in Nat /\ NbPorts <= MaxPorts /\ LaunchCores \in Nat \ {0}

VARIABLES cfg,     \* globals of testpmd: name -> value
          args,    \* number of options taken
          raised,  \* history: --nb-ports or --nb-cores went past a mask given before
          beyond,  \* history: a mask of ports named none below RTE_MAX_ETHPORTS
          parse    \* "more", "exit", "done"

launchvars == <<cfg, args, raised, beyond, parse>>

PortId == 0 .. NbPorts - 1
UNSET == -1             \* RTE_PMD_PARAM_UNSET

\* The C conversion of a non-negative int to int8_t.
Int8(n) == LET m == n % SByte IN IF m >= SByte \div 2 THEN m - SByte ELSE m

Exit == /\ parse' = "exit" /\ UNCHANGED <<cfg, args, raised, beyond>>

\* One option: it is refused (and the program ends) or it changes the globals.
Take(ok, new) == /\ parse = "more" /\ args < MaxArgs
                 /\ IF ok THEN /\ cfg' = new /\ args' = args + 1
                               /\ UNCHANGED <<raised, beyond, parse>>
                    ELSE Exit

Put(f, v) == [cfg EXCEPT ![f] = v]

\* Ports and cores ---------------------------------------------------------

\* The members of a mask in the order of its bits.
SortedSeq(S) == [i \in 1 .. Cardinality(S) |->
                   CHOOSE id \in S : Cardinality({other \in S : other <= id}) = i]

\* The list replaces the head of the array; entries after it stay.
Overwrite(array, list) ==
  [i \in 1 .. Len(array) |-> IF i <= Len(list) THEN list[i] ELSE array[i]]

\* The bits of a mask of ports that are looked at.
Considered(mask) == mask \intersect (0 .. MaxPorts - 1)

\* Mutant: the number of forwarding ports is left as it was.
set_fwd_ports_mask_count(mask) ==
  LET list == Considered(mask)
  IN IF mask = {} \/ ~(list \subseteq PortId) THEN cfg
     ELSE [cfg EXCEPT !["ports"] = Overwrite(@, SortedSeq(list)),
                      !["nb_cfg_ports"] = Cardinality(list)]

\* An empty mask, or one with an unknown port, is ignored, unlike a core mask.  Bits
\* past the maximum are dropped, and a mask of such bits alone records no port.
set_fwd_ports_mask(mask) ==
  LET list == Considered(mask)
  IN IF mask = {} \/ ~(list \subseteq PortId) THEN cfg
     ELSE [cfg EXCEPT !["ports"] = Overwrite(@, SortedSeq(list)),
                      !["nb_cfg_ports"] = Cardinality(list),
                      !["nb_fwd_ports"] = Cardinality(list)]

set_fwd_lcores_mask(mask) ==
  [cfg EXCEPT !["cores"] = Overwrite(@, SortedSeq(mask)),
              !["nb_cfg_lcores"] = Cardinality(mask), !["nb_fwd_lcores"] = Cardinality(mask)]

parse_fwd_portmask ==
  \E mask \in SUBSET (0 .. MaxPorts) :
    /\ parse = "more" /\ args < MaxArgs
    /\ cfg' = set_fwd_ports_mask(mask) /\ args' = args + 1
    /\ beyond' = (beyond \/ (mask # {} /\ Considered(mask) = {}))
    /\ UNCHANGED <<raised, parse>>

\* Lcore 0 is the master, LaunchCores + 1 is not enabled.
parse_fwd_coremask ==
  \E mask \in SUBSET (0 .. LaunchCores + 1) :
    Take(mask # {} /\ mask \subseteq 1 .. LaunchCores, set_fwd_lcores_mask(mask))

\* --nb-ports and --nb-cores look at the number of ports (cores), not at the
\* number configured by a mask.
NbOption(fwd, cnf, max) ==
  \E n \in 0 .. max + 1 :
    /\ parse = "more" /\ args < MaxArgs
    /\ IF n > 0 /\ n <= max
         THEN /\ cfg' = Put(fwd, n) /\ args' = args + 1
              /\ raised' = (raised \/ n > cfg[cnf]) /\ UNCHANGED <<beyond, parse>>
         ELSE Exit

nb_ports_option == NbOption("nb_fwd_ports", "nb_cfg_ports", NbPorts)
nb_cores_option == NbOption("nb_fwd_lcores", "nb_cfg_lcores", LaunchCores)

CountOptions == parse_fwd_portmask \/ parse_fwd_coremask \/ nb_ports_option \/ nb_cores_option

\* NUMA --------------------------------------------------------------------

NONE == -1              \* NUMA_NO_CONFIG

\* --numa forgets what earlier options said about ports and rings.
numa_option ==
  Take(TRUE, [cfg EXCEPT !["numa"] = TRUE, !["port_numa"] = [p \in PortId |-> NONE],
                         !["rx_numa"] = [p \in PortId |-> NONE],
                         !["tx_numa"] = [p \in PortId |-> NONE]])

SocketOk(p, sock) == p \in PortId /\ sock < MaxSocket

parse_portnuma_config ==
  \E p \in 0 .. NbPorts, sock \in 0 .. MaxSocket :
    Take(SocketOk(p, sock), IF SocketOk(p, sock) THEN [cfg EXCEPT !["port_numa"][p] = sock] ELSE cfg)

\* The flag names the rings: 1 receive, 2 transmit, 3 both.
parse_ringnuma_config ==
  \E p \in 0 .. NbPorts, flag \in 0 .. 4, sock \in 0 .. MaxSocket :
    LET ok == SocketOk(p, sock) /\ flag \in 1 .. 3
    IN Take(ok, IF ok THEN [cfg EXCEPT !["rx_numa"][p] = IF flag \in {1, 3} THEN sock ELSE @,
                                       !["tx_numa"][p] = IF flag \in {2, 3} THEN sock ELSE @]
                ELSE cfg)

\* The number is cut to eight bits before it is compared.
socket_num_option == \E n \in {0, 1, MaxSocket, SByte} :
  Take(n % SByte < MaxSocket, Put("socket_num", n % SByte))

NumaOptions == numa_option \/ parse_portnuma_config \/ parse_ringnuma_config \/ socket_num_option

\* Numbers -----------------------------------------------------------------

\* Options that store a number of a range; scaled ranges keep both ends.
Ranges == [rxq |-> 1 .. MaxQueueId, txq |-> 1 .. MaxQueueId, burst |-> 1 .. MaxBurst,
           mbcache |-> 0 .. MaxBurst, mbuf_size |-> 1 .. MbufSize + 1]

\* n runs over the ends of all ranges and the numbers next to them.
range_option == \E f \in DOMAIN Ranges, n \in -1 .. MbufSize + 2 :
  Take(n \in Ranges[f], Put(f, n))

\* 1 stands for a number above 1024.
total_num_mbufs_option == \E n \in {0, 1} : Take(n = 1, Put("total_mbufs", n))

\* Any positive number, cut to sixteen bits.
txd_option == \E n \in {0, 1, 2, LenMod} : Take(n > 0, Put("txd", n % LenMod))

\* Thresholds are stored in a signed byte: typed 255 they read as UNSET.
Thresholds == {"txpt", "txht", "txwt", "rxpt", "rxht", "rxwt"}
thresh_option == \E f \in Thresholds, n \in {-1, 0, SByte \div 2, SByte - 1} :
  Take(n >= 0, Put(f, Int8(n)))

\* txfreet, txrst and rxfreet are sixteen bits wide, txqflags thirty-two, the
\* drop queue eight.
freet_option == \E f \in {"txfreet", "txrst", "rxfreet", "txqflags", "drop_queue"},
                   n \in {-1, 0, 1, 2} : Take(n >= 0, Put(f, n))

\* rxd is compared with the threshold of the options before it; the threshold
\* itself is compared with nothing.
rxd_option == \E n \in {0, 1, 2, LenMod} :
  Take(n > 0 /\ cfg["rxfreet"] < n, Put("rxd", n % LenMod))

\* 0 is below ETHER_MIN_LEN, 2 above ETHER_MAX_LEN; jumbo_frame is never cleared.
max_pkt_len_option == \E n \in 0 .. 2 :
  Take(n > 0, [cfg EXCEPT !["max_pkt_len"] = n, !["jumbo_frame"] = @ \/ n = 2])

\* A list that cannot be parsed ends the program, one whose lengths do not fit
\* the present mbuf size and descriptors is ignored.
txpkts_option == \E n, k \in {Blank, Junk, 1, MbufSize + 1} :
  LET lens == parse_item_list(<<n, k>>, MaxSegs, FALSE)
      fits == /\ Len(lens) < cfg["txd"] /\ SegTotal(lens) >= MinLen
              /\ \A i \in 1 .. Len(lens) : lens[i] <= cfg["mbuf_size"]
  IN Take(lens # <<>>, IF fits THEN Put("segs", lens) ELSE cfg)

NumberOptions == \/ range_option \/ total_num_mbufs_option \/ txd_option \/ thresh_option
                 \/ freet_option \/ rxd_option \/ max_pkt_len_option \/ txpkts_option

\* Words and switches ------------------------------------------------------

Words == [pkt_filter_mode |-> {"signature", "perfect", "perfect-mac-vlan", "perfect-tunnel", "none"},
          pkt_filter_report_hash |-> {"none", "match", "always"},
          pkt_filter_size |-> {"64K", "128K", "256K"},
          port_topology |-> {"paired", "chained", "loop"}]

word_option == \E f \in DOMAIN Words : \E w \in Words[f] \union {"bad"} :
  Take(w \in Words[f], Put(f, w))

\* An unknown engine is only reported (set_pkt_forwarding_mode).
forward_mode_option == \E w \in {"io", "mac", "bad"} :
  Take(TRUE, IF w = "bad" THEN cfg ELSE Put("forward_mode", w))

SwitchedOn == {"interactive", "auto_start", "mp_anon", "hw_strip_crc", "hw_ip_checksum",
               "rx_drop_en", "no_flush_rx", "no_link_check"}
SwitchedOff == {"hw_vlan_filter", "hw_vlan_strip", "hw_vlan_extend"}

flag_option == \/ \E f \in SwitchedOn : Take(TRUE, Put(f, TRUE))
               \/ \E f \in SwitchedOff : Take(TRUE, Put(f, FALSE))
               \/ Take(TRUE, [f \in DOMAIN cfg |-> IF f \in SwitchedOff THEN FALSE ELSE cfg[f]])

\* --disable-rss, --rss-ip and --rss-udp: the last one counts.
rss_option == \E hf \in {{}, {"ip"}, {"udp"}} : Take(TRUE, Put("rss_hf", hf))

\* --eth-peer stores an address and counts it, a repeated port included; the
\* file of --eth-peers-configfile sets the count.
eth_peer_option == \E n \in 0 .. NbPorts :
  Take(n \in PortId, IF n \in PortId THEN [cfg EXCEPT !["peers"] = @ \union {n}, !["nb_peers"] = @ + 1]
                     ELSE cfg)

init_peer_eth_addrs == \E lines \in 0 .. NbPorts, ok \in BOOLEAN :
  Take(ok, [cfg EXCEPT !["peers"] = @ \union 0 .. lines - 1, !["nb_peers"] = lines])

WordOptions == \/ word_option \/ forward_mode_option \/ flag_option \/ rss_option
               \/ eth_peer_option \/ init_peer_eth_addrs

\* --help and unknown options, which also end the program, and the last option.
LastOption == /\ parse = "more"
              /\ \/ Exit
                 \/ parse' = "done" /\ UNCHANGED <<cfg, args, raised, beyond>>

\* The first group of globals with the second.
Merge(g, h) ==
  [f \in (DOMAIN g) \union (DOMAIN h) |-> IF f \in DOMAIN g THEN g[f] ELSE h[f]]

\* The globals as initialised in testpmd.c and by set_def_fwd_config.
Globals ==
  LET none == [p \in PortId |-> NONE]
  IN [ports |-> [i \in 1 .. NbPorts |-> i - 1], nb_cfg_ports |-> NbPorts,
      nb_fwd_ports |-> NbPorts, cores |-> [i \in 1 .. LaunchCores |-> i],
      nb_cfg_lcores |-> LaunchCores, nb_fwd_lcores |-> 1, numa |-> FALSE,
      port_numa |-> none, rx_numa |-> none, tx_numa |-> none, rxq |-> 1, txq |-> 1,
      burst |-> 1, mbcache |-> 0, mbuf_size |-> MbufSize, txd |-> 2, rxd |-> 1,
      max_pkt_len |-> 1, jumbo_frame |-> FALSE, segs |-> <<MinLen>>,
      forward_mode |-> "io", rss_hf |-> {"ip"}, peers |-> {}, nb_peers |-> 0,
      drop_queue |-> 0, total_mbufs |-> 0, hw_vlan_filter |-> TRUE,
      hw_vlan_strip |-> TRUE, hw_vlan_extend |-> FALSE, pkt_filter_mode |-> "none",
      pkt_filter_report_hash |-> "match", pkt_filter_size |-> "64K",
      port_topology |-> "paired"]

SwitchGlobals ==
  [f \in Thresholds \union {"txfreet", "txrst", "rxfreet", "txqflags", "socket_num"}
         \union SwitchedOn |-> IF f \in SwitchedOn THEN FALSE ELSE UNSET]

LaunchInit ==
  /\ cfg = Merge(Globals, SwitchGlobals)
  /\ args = 0 /\ raised = FALSE /\ beyond = FALSE /\ parse = "more"

AnyOption == CountOptions \/ NumaOptions \/ NumberOptions \/ WordOptions \/ LastOption
LaunchSpec == LaunchInit /\ [][AnyOption]_launchvars

\* Whatever the order of the options, the program goes on with no more forwarding
\* ports and cores than there are; unless --nb-ports or --nb-cores went past an
\* earlier mask, they are distinct and no more than configured; and there is at
\* least one core and one port, except after a mask of ports past RTE_MAX_ETHPORTS,
\* which records that there is none.
LaunchCounts ==
  LET Fwd(ids, nb) == SubSeq(cfg[ids], 1, cfg[nb])
  IN parse # "exit" =>
       /\ cfg["nb_fwd_ports"] \in 0 .. NbPorts /\ cfg["nb_fwd_lcores"] \in 1 .. LaunchCores
       /\ cfg["nb_fwd_ports"] = 0 => cfg["nb_cfg_ports"] = 0
       /\ cfg["nb_cfg_ports"] = 0 => beyond
       /\ ~raised => /\ IsInjective(Fwd("ports", "nb_fwd_ports"))
                     /\ IsInjective(Fwd("cores", "nb_fwd_lcores"))
                     /\ cfg["nb_fwd_ports"] <= cfg["nb_cfg_ports"]
                     /\ cfg["nb_fwd_lcores"] <= cfg["nb_cfg_lcores"]

\* The comment on the forwarding globals (testpmd.c): the number of forwarding
\* ports and cores never exceeds the number configured, and that never the
\* number present.
FwdWithinConfigured ==
  /\ cfg["nb_fwd_lcores"] <= cfg["nb_cfg_lcores"] /\ cfg["nb_cfg_lcores"] <= LaunchCores
  /\ cfg["nb_fwd_ports"] <= cfg["nb_cfg_ports"] /\ cfg["nb_cfg_ports"] <= NbPorts
=============================================================================
