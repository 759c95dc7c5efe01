----------------------------- MODULE FwdConfig -----------------------------
(***************************************************************************)
(* How testpmd (test-pmd/config.c) turns the forwarding configuration into *)
(* streams and hands the streams to logical cores.  A configuration is a   *)
(* record with the global variables the functions of the source read:      *)
(*   nbport  nb_fwd_ports             ids    fwd_ports_ids (whole array)   *)
(*   rxq     nb_rxq                   txq    nb_txq                        *)
(*   nblc    nb_fwd_lcores            topo   port_topology                 *)
(*   icmp    the icmpecho engine is selected                               *)
(*   dcb     dcb_config               tcs    traffic classes of a device   *)
(*   step    distance of two receiving ports (1 without NUMA support)      *)
(* A result is a record: the numbers kept in cur_fwd_config (lcores, ports,*)
(* streams), the streams written (fs), the share of each core (fc) and the *)
(* number of cores that got their share from this setup (dealt).           *)
(***************************************************************************)
EXTENDS Integers

Topologies == {"paired", "chained", "loop"}

MinOf(a, b) == IF a < b THEN a ELSE b

\* The contiguous share of the streams that each core polls: the remainder
\* goes to the last cores.
setup_fwd_config_of_each_lcore(nb_fs, nb_fc) ==
  LET few      == nb_fs <= nb_fc
      per      == IF few THEN 1 ELSE nb_fs \div nb_fc
      nb_extra == IF few THEN 0 ELSE nb_fs % nb_fc
      nb_lc    == nb_fc - nb_extra
  IN  [lc \in 0 .. nb_fc - 1 |->
         IF lc < nb_lc
         THEN [idx |-> lc * per, nb |-> per]
         ELSE [idx |-> nb_lc * per + (lc - nb_lc) * (per + 1), nb |-> per + 1]]

Stream(rxp, rxq, txp, txq) == [rx |-> <<rxp, rxq>>, tx |-> <<txp, txq>>]

Even(n) == n % 2 = 0

\* The index of the port that the port of index i sends to when there is one
\* queue.  In the paired topology the loop of the source writes streams i and
\* i+1 together; with an odd number of ports its last turn pairs the last port
\* with port 0 and overwrites stream 0.
PeerOf(i, n, topo) ==
  CASE topo = "loop"    -> i
    [] topo = "chained" -> (i + 1) % n
    [] topo = "paired"  -> IF ~Even(n) /\ i = 0 THEN n - 1
                           ELSE IF Even(i) THEN (i + 1) % n ELSE i - 1

simple_fwd_config_setup(c) ==
  LET n  == c.nbport
      nl == MinOf(c.nblc, n)
  IN  [lcores |-> nl, ports |-> n, streams |-> n, dealt |-> nl,
       fc |-> setup_fwd_config_of_each_lcore(n, nl),
       fs |-> [i \in 0 .. n - 1 |->
                 Stream(c.ids[i], 0, c.ids[PeerOf(i, n, c.topo)], 0)]]

\* The neighbour with which a port exchanges packets when there are several
\* queues: it may lie past the configured ports.
Neighbour(rxp) == IF Even(rxp) THEN rxp + 1 ELSE rxp - 1

\* Mutant: every stream of a port receives from its first queue.
rss_fwd_config_setup_first(c) ==
  LET nb_q == MinOf(c.rxq, c.txq)
      n    == MinOf(nb_q * c.nbport, c.nblc)
      rxp(lc) == (lc \div nb_q) * c.step
      txp(lc) == IF c.topo = "loop" THEN rxp(lc) ELSE (IF Even(rxp(lc)) THEN rxp(lc) + 1 ELSE rxp(lc) - 1)
  IN  [lcores |-> n, ports |-> c.nbport, streams |-> n, dealt |-> n,
       fc |-> setup_fwd_config_of_each_lcore(n, n),
       fs |-> [lc \in 0 .. n - 1 |-> Stream(c.ids[rxp(lc)], 0, c.ids[txp(lc)], lc % nb_q)]]

rss_fwd_config_setup(c) ==
  LET nb_q == MinOf(c.rxq, c.txq)
      n    == MinOf(nb_q * c.nbport, c.nblc)
      rxp(lc) == (lc \div nb_q) * c.step
      txp(lc) == IF c.topo = "loop" THEN rxp(lc) ELSE Neighbour(rxp(lc))
  IN  [lcores |-> n, ports |-> c.nbport, streams |-> n, dealt |-> n,
       fc |-> setup_fwd_config_of_each_lcore(n, n),
       fs |-> [lc \in 0 .. n - 1 |->
                 Stream(c.ids[rxp(lc)], lc % nb_q, c.ids[txp(lc)], lc % nb_q)]]

\* Core lc serves traffic class lc % tcs of the port of index lc \div tcs.
\* A device gives each class the same number of queues (rte_eth_dev_get_dcb_info,
\* outside this repository).  Cores past the last class keep the share they had.
dcb_fwd_config_setup(c, old) ==
  LET per     == c.rxq \div c.tcs
      rxports == IF c.nbport = 0 THEN 1 ELSE (c.nbport - 1) \div c.step + 1
      used    == MinOf(c.nblc, c.tcs * rxports)
      rxp(lc) == (lc \div c.tcs) * c.step
      lcOf(s) == s \div per
      rxq(s)  == (lcOf(s) % c.tcs) * per + (s % per)
  IN  [lcores |-> c.nblc, ports |-> c.nbport, streams |-> c.rxq * c.nbport, dealt |-> used,
       fc |-> [lc \in 0 .. c.nblc - 1 |->
                 IF lc < used THEN [idx |-> lc * per, nb |-> per] ELSE old[lc]],
       fs |-> [s \in 0 .. used * per - 1 |->
                 Stream(c.ids[rxp(lcOf(s))], rxq(s),
                        c.ids[Neighbour(rxp(lcOf(s)))], rxq(s))]]

icmp_echo_config_setup(c) ==
  LET ns == c.rxq * c.nbport
      nl == MinOf(MinOf(c.txq * c.nbport, c.nblc), ns)
      port(s) == c.ids[s \div c.rxq]
  IN  [lcores |-> nl, ports |-> c.nbport, streams |-> ns, dealt |-> nl,
       fc |-> setup_fwd_config_of_each_lcore(ns, nl),
       fs |-> [s \in 0 .. ns - 1 |->
                 Stream(port(s), s % c.rxq, port(s), s % c.rxq)]]

fwd_config_setup(c, old) ==
  CASE c.icmp -> icmp_echo_config_setup(c)
    [] ~c.icmp /\ c.rxq > 1 /\ c.txq > 1 /\ c.dcb  -> dcb_fwd_config_setup(c, old)
    [] ~c.icmp /\ c.rxq > 1 /\ c.txq > 1 /\ ~c.dcb -> rss_fwd_config_setup(c)
    [] OTHER -> simple_fwd_config_setup(c)
=============================================================================
