------------------------------ MODULE Engines ------------------------------
(***************************************************************************)
(* The forwarding engines of testpmd, as far as they own packet buffers:   *)
(* pkt_burst_io_forward, ..mac_forward, ..mac_retry_forward, ..mac_swap,   *)
(* ..flow_gen, ..receive, ..transmit, ..checksum_forward,                  *)
(* reply_to_icmp_echo_rqsts and ieee1588_packet_fwd.  Lcores poll one      *)
(* stream each and share one mempool; a device accepts any number of the   *)
(* packets it is offered and frees them later.                             *)
(***************************************************************************)
EXTENDS Integers, Sequences, FiniteSets

CONSTANTS EngineNames,  \* engines a run chooses from
          Streams,      \* lcores, one stream each
          NbMbufs,      \* mbufs of the mempool
          Burst,        \* nb_pkt_per_burst
          NbSegs,       \* tx_pkt_nb_segs
          Retries,      \* burst_tx_retry_num
          NbFlows,      \* cfg_n_flows
          MaxRx,        \* packets a stream receives (bound)
          MaxMade       \* a stream that made so many makes no more (bound)

\* The engines of fwd_engines[]; flowgen has at least one flow.
AllEngines == {"io", "mac", "mac_retry", "macswap", "flowgen", "rxonly", "txonly",
               "csum", "icmpecho", "ieee1588"}

\* The values of the uint8_t index with which icmpecho walks its burst.
IndexValues == 256

\* A burst may have up to 512 packets (MAX_PKT_BURST), but the loop of icmpecho ends
\* only when its index can reach nb_rx: from 256 packets on it starts over at
\* the first for ever, freeing and answering again what it has freed or kept.
ASSUME EnginesAssumption ==
  /\ EngineNames \subseteq AllEngines /\ Streams # {}
  /\ NbMbufs \in Nat /\ Retries \in Nat
  /\ Burst \in Nat \ {0} /\ NbFlows \in Nat \ {0}
  /\ "icmpecho" \in EngineNames => Burst < IndexValues

VARIABLES eng,        \* cur_fwd_eng
          mempool,       \* mbuf -> how many times it is in the mempool
          st,         \* stream -> pc and locals of the engine
          nic,        \* stream -> mbufs its transmit queue holds
          stats,      \* stream -> rx_packets, tx_packets, fwd_dropped, and histories:
                      \* made (generated), gone (consumed), given (accepted by the device)
          next_flow,  \* flowgen's static counter
          last_flow   \* history: flow of the last packet accepted

evars == <<eng, mempool, st, nic, stats, next_flow, last_flow>>

Mbufs == 1 .. NbMbufs
Free == {m \in Mbufs : mempool[m] > 0}

(* What each engine does with buffers in one call, phase by phase: receive a
   burst, discard it, sift it, copy it into segments, allocate packets, transmit,
   free what was not accepted. *)
io_fwd_engine        == <<"rx", "tx", "free">>
mac_fwd_engine       == <<"rx", "tx", "free">>
mac_retry_fwd_engine == <<"rx", "tx", "free">>
mac_swap_engine      == <<"rx", "tx", "free">>
flow_gen_engine      == <<"rx", "discard", "alloc", "tx", "free">>
rx_only_engine       == <<"rx", "discard">>
tx_only_engine       == <<"alloc", "tx", "free">>
csum_fwd_engine      == <<"rx", "copy", "tx", "free">>
icmp_echo_engine     == <<"rx", "sift", "tx", "free">>
ieee1588_fwd_engine  == <<"rx", "sift", "tx", "free">>

Phases ==
  CASE eng = "io" -> io_fwd_engine           [] eng = "mac" -> mac_fwd_engine
    [] eng = "mac_retry" -> mac_retry_fwd_engine
    [] eng = "macswap" -> mac_swap_engine    [] eng = "flowgen" -> flow_gen_engine
    [] eng = "rxonly" -> rx_only_engine      [] eng = "txonly" -> tx_only_engine
    [] eng = "csum" -> csum_fwd_engine       [] eng = "icmpecho" -> icmp_echo_engine
    [] eng = "ieee1588" -> ieee1588_fwd_engine

\* The phase after ph; the call returns after the last one.
After(ph) ==
  LET i == CHOOSE i \in DOMAIN Phases : Phases[i] = ph
  IN IF i = Len(Phases) THEN "idle" ELSE Phases[i + 1]

Idle == [pc |-> "idle", pkts |-> <<>>, part |-> {}, left |-> 0]
Bump(c, f, n) == [stats EXCEPT ![c][f] = @ + n]
Give(P, S) == [m \in Mbufs |-> P[m] + (IF m \in S THEN 1 ELSE 0)]
Taken(P, S) == [m \in Mbufs |-> P[m] - (IF m \in S THEN 1 ELSE 0)]
MbufsOf(pkts) == UNION {pkts[i].mb : i \in 1 .. Len(pkts)}
Goto(c, pc) == st' = [st EXCEPT ![c].pc = pc]

\* The i-th lowest of a set of numbers.  Mbufs are interchangeable: the lowest free
\* ones are taken.
Ranked(K, i) == CHOOSE k \in K : Cardinality({j \in K : j <= k}) = i

(* rte_eth_rx_burst returns up to a burst of packets, in mbufs its driver took
   from the mempool.  Nothing received ends the call, except in flowgen. *)
rx_burst(c) ==
  /\ st[c].pc = "idle" /\ Head(Phases) = "rx"
  /\ \E n \in 0 .. (IF eng = "ieee1588" THEN 1 ELSE Burst) :
       /\ n <= Cardinality(Free) /\ stats[c].rx + n <= MaxRx /\ (n = 0 => eng = "flowgen")
       /\ stats[c].made < MaxMade
       /\ mempool' = Taken(mempool, {Ranked(Free, i) : i \in 1 .. n})
       /\ st' = [st EXCEPT ![c] = [Idle EXCEPT
                   !.pkts = [i \in 1 .. n |-> [mb |-> {Ranked(Free, i)}, flow |-> 0]],
                   !.left = IF eng = "mac_retry" THEN Retries ELSE 0,
                   !.pc = After("rx")]]
       /\ stats' = Bump(c, "rx", n)
  /\ UNCHANGED <<eng, nic, next_flow, last_flow>>

\* rte_pktmbuf_free of what rxonly and flowgen received, packet by packet.
discard(c) ==
  /\ st[c].pc = "discard"
  /\ IF st[c].pkts # <<>>
       THEN /\ mempool' = Give(mempool, Head(st[c].pkts).mb)
            /\ st' = [st EXCEPT ![c].pkts = Tail(@)] /\ stats' = Bump(c, "gone", 1)
       ELSE /\ Goto(c, After("discard"))
            /\ UNCHANGED <<mempool, stats>>
  /\ UNCHANGED <<eng, nic, next_flow, last_flow>>

\* icmpecho keeps the requests it answers, at the head of its array, ieee1588 a
\* SYNC message that was filtered and timestamped; the others are freed.  icmpecho's
\* loop visits each packet once, by EnginesAssumption.
sift(c) ==
  /\ st[c].pc = "sift"
  /\ \E keep \in SUBSET (1 .. Len(st[c].pkts)) :
       LET kept == [i \in 1 .. Cardinality(keep) |-> st[c].pkts[Ranked(keep, i)]]
       IN /\ mempool' = Give(mempool, MbufsOf(st[c].pkts) \ MbufsOf(kept))
          /\ st' = [st EXCEPT ![c].pkts = kept, ![c].pc = IF keep = {} THEN "idle" ELSE After("sift")]
          /\ stats' = Bump(c, "gone", Len(st[c].pkts) - Len(kept))
  /\ UNCHANGED <<eng, nic, next_flow, last_flow>>

(* flowgen and txonly make packets until the burst is full or the mempool is
   empty; a packet of txonly is a chain of at most NbSegs segments (fewer when the
   split is random), freed when one is missing. *)
start_making(c) ==
  /\ st[c].pc = "idle" /\ Head(Phases) = "alloc" /\ stats[c].made < MaxMade
  /\ Goto(c, "alloc")
  /\ UNCHANGED <<eng, mempool, nic, stats, next_flow, last_flow>>

alloc(c) ==
  /\ st[c].pc = "alloc" /\ Len(st[c].pkts) < Burst /\ Free # {}
  /\ LET m == Ranked(Free, 1)
         chain == st[c].part \cup {m}
     IN \E whole \in {TRUE} \cup (IF eng = "flowgen" THEN {} ELSE {Cardinality(chain) = NbSegs}) :
          /\ mempool' = Taken(mempool, {m})
          /\ st' = [st EXCEPT ![c].part = IF whole THEN {} ELSE chain,
                              ![c].pkts = IF whole THEN Append(@, [mb |-> chain, flow |-> next_flow]) ELSE @]
          /\ stats' = IF whole THEN Bump(c, "made", 1) ELSE stats
  /\ next_flow' = IF eng = "flowgen" THEN (next_flow + 1) % NbFlows ELSE next_flow
  /\ UNCHANGED <<eng, nic, last_flow>>

\* Mutant: the segments of an unfinished packet are forgotten.
stop_making_leak(c) ==
  /\ st[c].pc = "alloc" /\ (Len(st[c].pkts) = Burst \/ Free = {})
  /\ st' = [st EXCEPT ![c].part = {},
              ![c].pc = IF eng = "txonly" /\ st[c].pkts = <<>> THEN "idle" ELSE After("alloc")]
  /\ UNCHANGED <<eng, mempool, nic, stats, next_flow, last_flow>>

stop_making(c) ==
  /\ st[c].pc = "alloc" /\ (Len(st[c].pkts) = Burst \/ Free = {})
  /\ mempool' = Give(mempool, st[c].part)
  /\ st' = [st EXCEPT ![c].part = {},
              ![c].pc = IF eng = "txonly" /\ st[c].pkts = <<>> THEN "idle" ELSE After("alloc")]
  /\ UNCHANGED <<eng, nic, stats, next_flow, last_flow>>

(* The checksum engine may replace each packet by a copy in up to NbSegs other
   segments (pkt_copy_split), as many as its length needs.  The mbufs are allocated
   one by one, the first segment last.  When an mbuf is missing, or one but the
   last allocated is too small, or the copy fails, those taken are freed and the
   original is kept; else the original is freed.  A first segment that is too
   small is reported but copied into like the others: the index is zero
   already, which is what the code asks before it copies. *)
keep_packet(c) ==
  /\ st[c].pc = "copy" /\ st[c].part = {} /\ st[c].left < Len(st[c].pkts)
  /\ st' = [st EXCEPT ![c].left = @ + 1]
  /\ UNCHANGED <<eng, mempool, nic, stats, next_flow, last_flow>>

pkt_copy_split(c) ==
  /\ st[c].pc = "copy" /\ st[c].left < Len(st[c].pkts)
  /\ LET i == st[c].left + 1
         m == Ranked(Free, 1)
         md == st[c].part \cup {m}
     IN \* another segment; the last one and the copy; a failure
        \/ /\ Free # {} /\ Cardinality(md) < NbSegs
           /\ mempool' = Taken(mempool, {m}) /\ st' = [st EXCEPT ![c].part = md]
        \/ /\ Free # {}
           /\ mempool' = Give(Taken(mempool, {m}), st[c].pkts[i].mb)
           /\ st' = [st EXCEPT ![c].part = {}, ![c].left = i, ![c].pkts[i].mb = md]
        \/ /\ mempool' = Give(mempool, st[c].part)
           /\ st' = [st EXCEPT ![c].part = {}, ![c].left = i]
  /\ UNCHANGED <<eng, nic, stats, next_flow, last_flow>>

all_copied(c) ==
  /\ st[c].pc = "copy" /\ st[c].left = Len(st[c].pkts)
  /\ Goto(c, After("copy"))
  /\ UNCHANGED <<eng, mempool, nic, stats, next_flow, last_flow>>

\* Mutants: packets that are offered again count as dropped; the flows that were
\* not sent are skipped.
Dropped_always(n, again) == IF eng = "flowgen" THEN 0 ELSE n
FlowAfter_skip(n) == next_flow

\* What a call counts as dropped, and where flowgen's counter goes back to, when
\* n packets were not accepted.
Dropped(n, again) == IF again \/ eng = "flowgen" THEN 0 ELSE n
FlowAfter(n) == IF eng = "flowgen" THEN (next_flow - n) % NbFlows ELSE next_flow

(* rte_eth_tx_burst accepts the first k of the packets; mac_retry offers the rest
   again, a bounded number of times; flowgen takes back the flows not sent. *)
tx_burst(c) ==
  /\ st[c].pc = "tx"
  /\ \E k \in 0 .. Len(st[c].pkts) :
       LET pkts == st[c].pkts
           rest == SubSeq(pkts, k + 1, Len(pkts))
           again == eng = "mac_retry" /\ rest # <<>> /\ st[c].left > 0
       IN /\ nic' = [nic EXCEPT ![c] = @ \cup MbufsOf(SubSeq(pkts, 1, k))]
          /\ st' = [st EXCEPT ![c].pkts = rest, ![c].left = IF again THEN @ - 1 ELSE @,
                              ![c].pc = IF again THEN "tx" ELSE After("tx")]
          /\ stats' = [stats EXCEPT ![c].given = @ + k,
                         ![c].tx = @ + (IF eng = "ieee1588" THEN Len(pkts) ELSE k),
                         ![c].dropped = @ + Dropped(Len(rest), again)]
          /\ next_flow' = FlowAfter(Len(rest))
          /\ last_flow' = IF k > 0 THEN pkts[k].flow ELSE last_flow
  /\ UNCHANGED <<eng, mempool>>

\* The packets that were not accepted are freed one by one; then the call returns.
free_unsent(c) ==
  /\ st[c].pc = "free"
  /\ IF st[c].pkts # <<>>
       THEN /\ mempool' = Give(mempool, Head(st[c].pkts).mb)
            /\ st' = [st EXCEPT ![c].pkts = Tail(@)]
       ELSE st' = [st EXCEPT ![c] = Idle] /\ UNCHANGED mempool
  /\ UNCHANGED <<eng, nic, stats, next_flow, last_flow>>

\* External: the driver frees the mbufs of a queue once they are sent.
tx_done(c) ==
  /\ nic[c] # {}
  /\ mempool' = Give(mempool, nic[c]) /\ nic' = [nic EXCEPT ![c] = {}]
  /\ UNCHANGED <<eng, st, stats, next_flow, last_flow>>

EngInit ==
  /\ eng \in EngineNames
  /\ mempool = [m \in Mbufs |-> 1]
  /\ st = [c \in Streams |-> Idle]
  /\ nic = [c \in Streams |-> {}]
  /\ stats = [c \in Streams |-> [rx |-> 0, tx |-> 0, dropped |-> 0, made |-> 0, gone |-> 0, given |-> 0]]
  /\ next_flow = 0 /\ last_flow = NbFlows - 1

packet_fwd(c) ==
  \/ discard(c) \/ sift(c) \/ alloc(c) \/ stop_making(c)
  \/ keep_packet(c) \/ pkt_copy_split(c) \/ all_copied(c) \/ tx_burst(c) \/ free_unsent(c)

\* flowgen's next_flow is an unsynchronised static: only one stream runs it here.
Running == IF eng = "flowgen" THEN {CHOOSE c \in Streams : TRUE} ELSE Streams
EngNext == \E c \in Running : rx_burst(c) \/ start_making(c) \/ packet_fwd(c) \/ tx_done(c)

EngSpec == EngInit /\ [][EngNext]_evars

-----------------------------------------------------------------------------
(* Every mbuf is in exactly one place: once in the mempool, or in the array or
   the unfinished chain of one engine, or in one transmit queue.  No engine frees
   a packet it handed over, sends one it freed, or forgets one, whatever the
   device accepts and wherever the mempool runs dry. *)
MbufsOnce ==
  \A m \in Mbufs :
    mempool[m] + Cardinality({c \in Streams : m \in nic[c]})
               + Cardinality({c \in Streams : m \in st[c].part})
               + Cardinality({ci \in Streams \X (1 .. Burst) :
                   ci[2] \in DOMAIN st[ci[1]].pkts /\ m \in st[ci[1]].pkts[ci[2]].mb}) = 1

(* The counters of a stream add up whenever its engine has returned: what a
   forwarding engine received it sent or counted as dropped; txonly's packets are
   sent or dropped; tx_packets is what the device accepted, except that ieee1588
   counts before it offers the packet.  flowgen frees the packets it made and the
   device refused without counting them: of those only the sent ones are counted. *)
StatsAddUp ==
  \A c \in Streams : st[c].pc = "idle" =>
    LET s == stats[c]
    IN CASE eng = "ieee1588" -> s.rx = s.tx + s.gone /\ s.tx = s.given + s.dropped
         [] eng = "flowgen" -> s.rx = s.gone /\ s.tx = s.given /\ s.dropped = 0
         [] OTHER -> s.rx + s.made = s.tx + s.dropped + s.gone /\ s.tx = s.given

(* flowgen sends the flows in order, without a gap, also when the device accepts
   only a part of a burst and next_flow is moved back. *)
FlowsConsecutive ==
  \A c \in Running :
    /\ (eng = "flowgen" /\ st[c].pc \in {"alloc", "tx"}) =>
         \A i \in DOMAIN st[c].pkts : st[c].pkts[i].flow = (last_flow + i) % NbFlows
    /\ (eng = "flowgen" /\ st[c].pc = "idle") => next_flow = (last_flow + 1) % NbFlows
=============================================================================
