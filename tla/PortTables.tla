----------------------------- MODULE PortTables -----------------------------
(***************************************************************************)
(* Tables that testpmd keeps and pushes to a device: the pool of multicast *)
(* addresses of a port, the queue-to-counter mappings and the segment      *)
(* lengths of generated packets (test-pmd/config.c, testpmd.c, cmdline.c,  *)
(* parameters.c).                                                          *)
(***************************************************************************)
EXTENDS PmdBase, FiniteSetsExt

CONSTANTS McAddrs,         \* addresses typed; 0 is not a multicast address
          MCAST_POOL_INC,  \* entries a pool grows by
          NbCounters,      \* RTE_ETHDEV_QUEUE_STAT_CNTRS
          MaxMappings,     \* MAX_TX_QUEUE_STATS_MAPPINGS, for both directions
          MaxSegs,         \* RTE_MAX_SEGS_PER_PKT
          NbTxd,           \* nb_txd
          MbufSize,        \* mbuf_data_size
          LenMod,          \* 2^16, the range of tx_pkt_length
          MinLen           \* length of an empty UDP/IP packet

ASSUME PoolAssumption == MCAST_POOL_INC \in Nat \ {0}

VARIABLES mc_pool,   \* per port: addrs (the valid entries), cap (entries allocated)
          mclist,    \* per port: the list of the device, or that it refused the last one
          mcwant,    \* history: per port, addresses added and not removed
          qmap,      \* per direction: the array of <<port, queue, counter>>
          qreg,      \* per direction, port and queue: counter register of the device
          qwant,     \* history: per direction, <<port, queue>> -> counter typed last
          qmode,     \* "launch", "idle" or "running"
          qfwd,      \* ports of the forwarding configuration that runs
          txpkts     \* tx_pkt_seg_lengths, tx_pkt_nb_segs, tx_pkt_length, tx_pkt_split

mcvars == <<mc_pool, mclist, mcwant>>
qmapvars == <<qmap, qreg, qwant, qmode, qfwd>>

\* Multicast addresses -----------------------------------------------------

\* Mutant: the pool grows only when it is empty.
mcast_addr_pool_extend_once(p) == IF mc_pool[p].addrs # <<>> THEN mc_pool[p].cap ELSE MCAST_POOL_INC

(* Room for one more entry, by reallocation when the count is a multiple of
   the increment: the entries allocated afterwards. *)
mcast_addr_pool_extend(p) ==
  LET nb == Len(mc_pool[p].addrs)
  IN IF nb % MCAST_POOL_INC # 0 THEN mc_pool[p].cap ELSE nb + MCAST_POOL_INC

mcast_addr_pool_remove(p, i) ==
  LET s == mc_pool[p].addrs
      left == SubSeq(s, 1, i - 1) \o SubSeq(s, i + 1, Len(s))
  IN [addrs |-> left, cap |-> IF left = <<>> THEN 0 ELSE mc_pool[p].cap]

\* A device that refuses keeps its previous list; the pool is not rolled back.
eth_port_multicast_addr_list_set(p, addrs) ==
  \E accepted \in BOOLEAN :
    mclist' = [mclist EXCEPT ![p] = [list |-> IF accepted THEN addrs ELSE @.list,
                                     accepted |-> accepted]]

\* A failed reallocation returns with the pool as it was: no step.
mcast_addr_add(p, a) ==
  /\ \A i \in 1 .. Len(mc_pool[p].addrs) : mc_pool[p].addrs[i] # a
  /\ mc_pool' = [mc_pool EXCEPT ![p] = [addrs |-> Append(@.addrs, a),
                                        cap |-> mcast_addr_pool_extend(p)]]
  /\ eth_port_multicast_addr_list_set(p, mc_pool'[p].addrs)
  /\ mcwant' = [mcwant EXCEPT ![p] = @ \union {a}]

mcast_addr_remove(p, a) ==
  /\ \E i \in 1 .. Len(mc_pool[p].addrs) :
       /\ mc_pool[p].addrs[i] = a
       /\ mc_pool' = [mc_pool EXCEPT ![p] = mcast_addr_pool_remove(p, i)]
  /\ eth_port_multicast_addr_list_set(p, mc_pool'[p].addrs)
  /\ mcwant' = [mcwant EXCEPT ![p] = @ \ {a}]

cmd_mcast_addr == \E p \in FewPorts, a \in McAddrs :
  a # 0 /\ (mcast_addr_add(p, a) \/ mcast_addr_remove(p, a))

McInit == /\ mc_pool = [p \in Ports |-> [addrs |-> <<>>, cap |-> 0]]
          /\ mclist = [p \in Ports |-> [list |-> <<>>, accepted |-> TRUE]]
          /\ mcwant = [p \in Ports |-> {}]

McSpec == McInit /\ [][cmd_mcast_addr]_mcvars

\* The pool holds exactly the addresses added and not removed, once each, inside
\* the memory allocated for it, and so does the device unless it refused the
\* last list (mcast_addr_add, mcast_addr_remove: the compaction loses nothing,
\* and the reallocation at multiples of the increment always comes in time).
McastMirrors ==
  \A p \in Ports :
    LET s == mc_pool[p].addrs
    IN /\ Range(s) = mcwant[p] /\ IsInjective(s) /\ Len(s) <= mc_pool[p].cap
       /\ mclist[p].accepted => mclist[p].list = s

\* Queue statistics mappings ------------------------------------------------

Dirs == {"tx", "rx"}

KeyOf(e) == <<e[1], e[2]>>
EntriesOf(list, k) == {i \in 1 .. Len(list) : KeyOf(list[i]) = k}
LastFor(list, k) == list[Max(EntriesOf(list, k))][3]
Assign(f, k, v) == [x \in DOMAIN f \union {k} |-> IF x = k THEN v ELSE f[x]]

(* The option resets the count, then appends every triple up to the size of the
   array, repeated queues included; a triple out of range ends the program. *)
parse_queue_stats_mapping_config ==
  \E dir \in Dirs, n \in 0 .. 2 :
    \E list \in [1 .. n -> FewPorts \X TypedQueues \X (0 .. NbCounters)] :
      /\ qmode = "launch" /\ n <= MaxMappings
      /\ \A i \in 1 .. n : list[i][3] < NbCounters
      /\ qmap' = [qmap EXCEPT ![dir] = list]
      /\ qwant' = [qwant EXCEPT ![dir] =
                     [k \in {KeyOf(list[i]) : i \in 1 .. n} |-> LastFor(list, k)]]
      /\ UNCHANGED <<qreg, qmode, qfwd>>

\* Mutant: the search for a mapping looks at the port only.
set_qmap_port(p, dir, q, v) ==
  LET at == {i \in 1 .. Len(qmap[dir]) : qmap[dir][i][1] = p}
  IN /\ (IF dir = "rx" THEN ~rx_queue_id_is_invalid(q) ELSE ~tx_queue_id_is_invalid(q))
     /\ v < NbCounters
     /\ qmap' = [qmap EXCEPT ![dir] = IF at = {} THEN Append(@, <<p, q, v>>)
                                                 ELSE [@ EXCEPT ![Min(at)] = <<p, q, v>>]]
     /\ qwant' = [qwant EXCEPT ![dir] = Assign(@, <<p, q>>, v)]

\* The first mapping of the queue is changed, or a new one is appended; the
\* size of the array is not looked at.
set_qmap(p, dir, q, v) ==
  LET at == EntriesOf(qmap[dir], <<p, q>>)
  IN /\ (IF dir = "rx" THEN ~rx_queue_id_is_invalid(q) ELSE ~tx_queue_id_is_invalid(q))
     /\ v < NbCounters
     /\ qmap' = [qmap EXCEPT ![dir] = IF at = {} THEN Append(@, <<p, q, v>>)
                                                 ELSE [@ EXCEPT ![Min(at)] = <<p, q, v>>]]
     /\ qwant' = [qwant EXCEPT ![dir] = Assign(@, <<p, q>>, v)]

cmd_set_qmap ==
  \E p \in FewPorts, dir \in Dirs, q \in TypedQueues, v \in 0 .. NbCounters :
    qmode \in {"idle", "running"} /\ set_qmap(p, dir, q, v)
    /\ UNCHANGED <<qreg, qmode, qfwd>>

\* set_tx_queue_stats_mapping_registers and its twin: entry after entry, those
\* of the port and of an existing queue, so that the last one of a queue stays.
SetRegisters(dir, p) ==
  [q \in 0 .. NbQueues - 1 |-> IF EntriesOf(qmap[dir], <<p, q>>) = {} THEN qreg[dir][p][q]
                               ELSE LastFor(qmap[dir], <<p, q>>)]

\* For the ports of S, if they support mappings (the others refuse the first call).
map_port_queue_stats_mapping_registers(S) ==
  qreg' = [dir \in Dirs |-> [p \in Ports |-> IF p \in S THEN SetRegisters(dir, p)
                                                         ELSE qreg[dir][p]]]

\* init_port_config maps every port: at launch, and later whenever the settings of
\* the ports are written anew (other values, attached ports, bonding); a DCB command
\* maps its own port (init_port_dcb_config).
init_port_config_qmap ==
  /\ \E S \in {Ports} \union {{p} : p \in Ports} :
       (qmode = "launch" => S = Ports) /\ map_port_queue_stats_mapping_registers(S)
  /\ qmode' = IF qmode = "launch" THEN "idle" ELSE qmode
  /\ UNCHANGED <<qmap, qwant, qfwd>>

\* start_packet_forwarding maps the ports it is going to use; stop.
start_stop ==
  \/ /\ qmode = "idle" /\ qmode' = "running" /\ qfwd' \in SUBSET Ports
     /\ map_port_queue_stats_mapping_registers(qfwd') /\ UNCHANGED <<qmap, qwant>>
  \/ qmode = "running" /\ qmode' = "idle" /\ qfwd' = {} /\ UNCHANGED <<qmap, qreg, qwant>>

QmapInit == /\ qmap = [dir \in Dirs |-> <<>>] /\ qwant = [dir \in Dirs |-> <<>>]
            /\ qreg = [dir \in Dirs |-> [p \in Ports |-> [q \in 0 .. NbQueues - 1 |-> 0]]]
            /\ qmode = "launch" /\ qfwd = {}

QmapNext == \/ parse_queue_stats_mapping_config \/ cmd_set_qmap \/ init_port_config_qmap
            \/ start_stop
QmapSpec == QmapInit /\ [][QmapNext]_qmapvars

Repeated(dir) == \E i, j \in 1 .. Len(qmap[dir]) : i < j /\ KeyOf(qmap[dir][i]) = KeyOf(qmap[dir][j])

\* When forwarding starts, every queue of the ports that take part counts in the
\* register typed last for it, whenever it was typed (set_qmap, then
\* map_port_queue_stats_mapping_registers), provided the launch option named no
\* queue twice: then set_qmap changes the first of two entries and the second one
\* still wins.
QmapInForce ==
  [][qmode = "idle" /\ qmode' = "running" =>
       \A dir \in Dirs : ~Repeated(dir) =>
         \A k \in DOMAIN qwant[dir] :
           k[1] \in qfwd' /\ k[2] < NbQueues => qreg'[dir][k[1]][k[2]] = qwant[dir][k]]_qmapvars

\* Segments of generated packets ---------------------------------------------

Junk == -1      \* a field of a list that is not a decimal number
Blank == -2     \* nothing between two commas, or at an end

(* The fields of "a,b,..": junk and blanks are refused, except that a blank
   last field is taken as zero. *)
parse_item_list(fields, max, unique) ==
  LET vals == [i \in 1 .. Len(fields) |-> IF fields[i] = Blank THEN 0 ELSE fields[i]]
  IN IF \/ \E i \in 1 .. Len(fields) : fields[i] = Junk
        \/ \E i \in 1 .. Len(fields) - 1 : fields[i] = Blank
        \/ Len(fields) > max
        \/ unique /\ ~IsInjective(vals)
     THEN <<>> ELSE vals

\* The total is summed in sixteen bits.
SegTotal(lens) == FoldFunction(LAMBDA n, sum : (sum + n) % LenMod, 0, lens)

set_tx_pkt_segments(lens) ==
  /\ Len(lens) < NbTxd
  /\ \A i \in 1 .. Len(lens) : lens[i] <= MbufSize
  /\ SegTotal(lens) >= MinLen
  /\ txpkts' = [txpkts EXCEPT !.lens = [i \in 1 .. MaxSegs |-> IF i <= Len(lens) THEN lens[i] ELSE @[i]],
                              !.nb = Len(lens), !.length = SegTotal(lens)]

Lists == UNION {[1 .. n -> {Blank, Junk} \union (0 .. MbufSize + 1)] : n \in 1 .. MaxSegs + 1}

cmd_set_txpkts ==
  \E fields \in Lists :
    LET lens == parse_item_list(fields, MaxSegs, FALSE)
    IN lens # <<>> /\ set_tx_pkt_segments(lens)

set_tx_pkt_split(name) == name \in {"off", "on", "rand"} /\ txpkts' = [txpkts EXCEPT !.split = name]

cmd_set_txsplit == \E name \in {"off", "on", "rand", "other"} : set_tx_pkt_split(name)

TxInit == txpkts = [lens |-> [i \in 1 .. MaxSegs |-> IF i = 1 THEN MinLen ELSE 0],
                    nb |-> 1, length |-> MinLen, split |-> "off"]

TxNext == cmd_set_txpkts \/ cmd_set_txsplit
=============================================================================
