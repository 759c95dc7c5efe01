--------------------------- MODULE EngineProofs ----------------------------
(***************************************************************************)
(* Proofs about the forwarding engines of testpmd, for any number of       *)
(* streams and mbufs and any size of a burst: their counters add up, no    *)
(* mbuf is lost, shared or freed twice, and flowgen sends consecutive      *)
(* flows.  BurstInv says what a call holds in each phase and which of its  *)
(* packets the counters do not count yet; FlowInv and MbufInv build on it. *)
(***************************************************************************)
EXTENDS Engines, FiniteSetTheorems, TLAPS

\* Ranks list a finite set of numbers: every element, each once.
LEMMA Ranking ==
  ASSUME NEW K \in SUBSET Nat, IsFiniteSet(K)
  PROVE  /\ \A i \in 1 .. Cardinality(K) : Ranked(K, i) \in K
         /\ \A i, j \in 1 .. Cardinality(K) : Ranked(K, i) = Ranked(K, j) => i = j
         /\ \A k \in K : \E i \in 1 .. Cardinality(K) : Ranked(K, i) = k
<1> DEFINE n == Cardinality(K)
           UpTo(k) == {j \in K : j <= k}
           rank == [k \in K |-> Cardinality(UpTo(k))]
<1>1. n \in Nat
  BY FS_CardinalityType
<1>2. ASSUME NEW k \in K
      PROVE  IsFiniteSet(UpTo(k)) /\ Cardinality(UpTo(k)) \in 1 .. n
  <2>1. UpTo(k) \in SUBSET K /\ k \in UpTo(k)
    OBVIOUS
  <2> HIDE DEF UpTo
  <2>2. IsFiniteSet(UpTo(k)) /\ Cardinality(UpTo(k)) <= n
    BY <2>1, FS_Subset
  <2>3. Cardinality(UpTo(k)) \in Nat /\ Cardinality(UpTo(k)) # 0
    BY <2>1, <2>2, FS_CardinalityType, FS_EmptySet
  <2> QED
    BY <1>1, <2>2, <2>3
<1>3. ASSUME NEW k \in K, NEW l \in K, k < l
      PROVE  Cardinality(UpTo(k)) # Cardinality(UpTo(l))
  <2>1. UpTo(k) \in SUBSET UpTo(l) /\ l \in UpTo(l) /\ l \notin UpTo(k)
    <3>1. k \in Nat /\ l \in Nat /\ l <= l /\ ~(l <= k) /\ \A j \in K : j <= k => j <= l
      BY <1>3
    <3> QED
      BY <3>1, Zenon, ZenonT(40)
  <2> HIDE DEF UpTo
  <2> QED
    BY <1>2, <2>1, FS_Subset
<1>4. \A k, l \in K : rank[k] = rank[l] => k = l
  <2> SUFFICES ASSUME NEW k \in K, NEW l \in K, k # l
               PROVE  rank[k] # rank[l]
    OBVIOUS
  <2>1. k < l \/ l < k
    OBVIOUS
  <2>2. rank[k] = Cardinality(UpTo(k)) /\ rank[l] = Cardinality(UpTo(l))
    OBVIOUS
  <2> HIDE DEF UpTo, rank
  <2> QED
    BY <1>3, <2>1, <2>2
<1>5. rank \in [K -> 1 .. n]
  <2> HIDE DEF UpTo, n
  <2> QED
    BY <1>2
<1>6. rank \in Surjection(K, 1 .. n)
  <2> HIDE DEF rank
  <2>1. rank \in Injection(K, 1 .. n)
    BY <1>4, <1>5 DEF Injection, IsInjective
  <2>2. IsFiniteSet(1 .. n) /\ Cardinality(1 .. n) = n
    BY <1>1, FS_Interval
  <2> QED
    BY <2>1, <2>2, FS_Injection
<1>7. ASSUME NEW i \in 1 .. n
      PROVE  Ranked(K, i) \in K /\ Cardinality(UpTo(Ranked(K, i))) = i
  <2>1. PICK k \in K : rank[k] = i
    <3> HIDE DEF rank, n
    <3> QED
      BY <1>6 DEF Surjection
  <2>2. Cardinality(UpTo(k)) = i
    BY <2>1
  <2> QED
    BY <2>2, Zenon, ZenonT(40) DEF Ranked
<1>8. ASSUME NEW k \in K
      PROVE  \E i \in 1 .. n : Ranked(K, i) = k
  <2>1. PICK i \in 1 .. n : i = Cardinality(UpTo(k))
    BY <1>2
  <2>2. Ranked(K, i) \in K /\ Cardinality(UpTo(Ranked(K, i))) = Cardinality(UpTo(k))
    BY <1>7, <2>1
  <2>3. rank[Ranked(K, i)] = rank[k]
    BY <2>2
  <2> HIDE DEF rank, UpTo
  <2> QED
    BY <1>4, <2>2, <2>3, Zenon, ZenonT(40)
<1>9. \A i, j \in 1 .. n : Ranked(K, i) = Ranked(K, j) => i = j
  <2> HIDE DEF n, UpTo
  <2> QED
    BY <1>7
<1> QED
  BY <1>7, <1>8, <1>9, Zenon, ZenonT(40)

-----------------------------------------------------------------------------
(* What holds between the steps of a call *)

Pcs == {"idle", "rx", "discard", "sift", "alloc", "copy", "tx", "free"}
Frame == [mb : SUBSET Mbufs, flow : Int]
Stream == [pc : Pcs, pkts : Seq(Frame), part : SUBSET Mbufs, left : Int]
Counters == [rx : Int, tx : Int, dropped : Int, made : Int, gone : Int, given : Int]

\* The types of the variables.
EngTypes ==
  /\ eng \in AllEngines
  /\ mempool \in [Mbufs -> Int]
  /\ st \in [Streams -> Stream]
  /\ nic \in [Streams -> SUBSET Mbufs]
  /\ stats \in [Streams -> Counters]
  /\ next_flow \in Int /\ last_flow \in Int

\* Where each engine goes after each of its phases.
NextPhase(ph) ==
  CASE ph = "rx" -> IF eng \in {"flowgen", "rxonly"} THEN "discard"
                    ELSE IF eng \in {"icmpecho", "ieee1588"} THEN "sift"
                    ELSE IF eng = "csum" THEN "copy" ELSE "tx"
    [] ph = "discard" -> IF eng = "flowgen" THEN "alloc" ELSE "idle"
    [] ph = "tx" -> "free"
    [] OTHER -> "tx"

\* What an engine holds in each phase: an array and an unfinished chain.
PhaseOK(pc, pkts, part, left) ==
  /\ pc = "discard" => eng \in {"flowgen", "rxonly"}
  /\ pc = "alloc" => eng \in {"flowgen", "txonly"}
  /\ pc = "sift" => eng \in {"icmpecho", "ieee1588"}
  /\ pc = "copy" => eng = "csum" /\ left \in 0 .. Len(pkts)
  /\ pc = "tx" => eng # "rxonly"
  /\ pc # "rx"
  /\ pc = "idle" => pkts = <<>>
  /\ Len(pkts) <= Burst
  /\ part # {} => pc = "alloc" \/ (pc = "copy" /\ left < Len(pkts))

\* The counters of a stream and the packets of a call they do not count yet: what
\* is left to be freed after the transmission counts as dropped already.
StatsOK(pc, n, s) ==
  LET pending == IF pc = "free" THEN 0 ELSE n
  IN /\ eng = "ieee1588" => s.rx = s.tx + s.gone + pending /\ s.tx = s.given + s.dropped
     /\ eng = "flowgen" => /\ s.rx = s.gone + (IF pc = "discard" THEN n ELSE 0)
                           /\ s.tx = s.given /\ s.dropped = 0
     /\ eng \notin {"ieee1588", "flowgen"} =>
          s.rx + s.made = s.tx + s.dropped + s.gone + pending /\ s.tx = s.given

\* Every stream is in a phase of its engine, and its counters fit.
InPhase == \A c \in Streams : PhaseOK(st[c].pc, st[c].pkts, st[c].part, st[c].left)
StatsInv == \A c \in Streams : StatsOK(st[c].pc, Len(st[c].pkts), stats[c])
BurstInv == EngTypes /\ InPhase /\ StatsInv

\* The order of phases of each engine, as its entry of fwd_engines[] runs them.
LEMMA PhaseOrder ==
  ASSUME eng \in AllEngines
  PROVE  /\ Head(Phases) = IF eng = "txonly" THEN "alloc" ELSE "rx"
         /\ eng # "txonly" => After("rx") = NextPhase("rx")
         /\ eng \in {"flowgen", "rxonly"} => After("discard") = NextPhase("discard")
         /\ eng \in {"flowgen", "txonly"} => After("alloc") = "tx"
         /\ eng \in {"icmpecho", "ieee1588"} => After("sift") = "tx"
         /\ eng = "csum" => After("copy") = "tx"
         /\ eng # "rxonly" => After("tx") = "free"
<1>1. CASE eng \in {"io", "mac", "mac_retry", "macswap"}
  <2>1. Phases = <<"rx", "tx", "free">>
    BY <1>1 DEF Phases, io_fwd_engine, mac_fwd_engine, mac_retry_fwd_engine, mac_swap_engine
  <2> QED
    BY <1>1, <2>1 DEF After, NextPhase
<1>2. CASE eng = "flowgen"
  <2>1. Phases = <<"rx", "discard", "alloc", "tx", "free">>
    BY <1>2 DEF Phases, flow_gen_engine
  <2> QED
    BY <1>2, <2>1 DEF After, NextPhase
<1>3. CASE eng = "rxonly"
  <2>1. Phases = <<"rx", "discard">>
    BY <1>3 DEF Phases, rx_only_engine
  <2> QED
    BY <1>3, <2>1 DEF After, NextPhase
<1>4. CASE eng = "txonly"
  <2>1. Phases = <<"alloc", "tx", "free">>
    BY <1>4 DEF Phases, tx_only_engine
  <2> QED
    BY <1>4, <2>1 DEF After, NextPhase
<1>5. CASE eng = "csum"
  <2>1. Phases = <<"rx", "copy", "tx", "free">>
    BY <1>5 DEF Phases, csum_fwd_engine
  <2> QED
    BY <1>5, <2>1 DEF After, NextPhase
<1>6. CASE eng \in {"icmpecho", "ieee1588"}
  <2>1. Phases = <<"rx", "sift", "tx", "free">>
    BY <1>6 DEF Phases, icmp_echo_engine, ieee1588_fwd_engine
  <2> QED
    BY <1>6, <2>1 DEF After, NextPhase
<1> QED
  BY <1>1, <1>2, <1>3, <1>4, <1>5, <1>6 DEF AllEngines
-----------------------------------------------------------------------------
\* A step changes at most the record and the counters of its own stream.
OnlyStream(c) == /\ st' = [st EXCEPT ![c] = st'[c]] /\ st'[c] \in Stream
                 /\ stats' = [stats EXCEPT ![c] = stats'[c]] /\ stats'[c] \in Counters

\* Counters are numbers.
Integral(s) == /\ s.rx \in Int /\ s.tx \in Int /\ s.dropped \in Int
               /\ s.made \in Int /\ s.gone \in Int /\ s.given \in Int

\* What a step adds to the counters.
Adds(s, t, rx, tx, dropped, made, gone, given) ==
  /\ t.rx = s.rx + rx /\ t.tx = s.tx + tx /\ t.dropped = s.dropped + dropped
  /\ t.made = s.made + made /\ t.gone = s.gone + gone /\ t.given = s.given + given

\* Counting n packets on one counter of one stream.
LEMMA Bumped ==
  ASSUME EngTypes, NEW c \in Streams, NEW n \in Int,
         NEW f \in {"rx", "made", "gone"}, stats' = Bump(c, f, n)
  PROVE  /\ stats' = [stats EXCEPT ![c] = stats'[c]] /\ stats'[c] \in Counters
         /\ Integral(stats'[c])
         /\ f = "rx" => Adds(stats[c], stats'[c], n, 0, 0, 0, 0, 0)
         /\ f = "made" => Adds(stats[c], stats'[c], 0, 0, 0, n, 0, 0)
         /\ f = "gone" => Adds(stats[c], stats'[c], 0, 0, 0, 0, n, 0)
<1> DEFINE s == stats[c]
           t == [s EXCEPT ![f] = s[f] + n]
<1>1. s \in Counters /\ stats \in [Streams -> Counters]
  BY DEF EngTypes
<1>2. Integral(s)
  BY <1>1 DEF Counters, Integral
<1>3. stats' = [stats EXCEPT ![c] = t]
  BY DEF Bump
<1>4. stats'[c] = t
  BY <1>1, <1>3
<1>5. /\ t \in Counters
      /\ f = "rx" => Adds(s, t, n, 0, 0, 0, 0, 0)
      /\ f = "made" => Adds(s, t, 0, 0, 0, n, 0, 0)
      /\ f = "gone" => Adds(s, t, 0, 0, 0, 0, n, 0)
  <2>1. CASE f = "rx"
    <3>1. t = [s EXCEPT !.rx = s.rx + n] /\ s.rx + n \in Int
      BY <1>2, <2>1 DEF Integral
    <3> HIDE DEF t
    <3> QED
      BY <1>1, <1>2, <2>1, <3>1 DEF Counters, Adds, Integral
  <2>2. CASE f = "made"
    <3>1. t = [s EXCEPT !.made = s.made + n] /\ s.made + n \in Int
      BY <1>2, <2>2 DEF Integral
    <3> HIDE DEF t
    <3> QED
      BY <1>1, <1>2, <2>2, <3>1 DEF Counters, Adds, Integral
  <2>3. CASE f = "gone"
    <3>1. t = [s EXCEPT !.gone = s.gone + n] /\ s.gone + n \in Int
      BY <1>2, <2>3 DEF Integral
    <3> HIDE DEF t
    <3> QED
      BY <1>1, <1>2, <2>3, <3>1 DEF Counters, Adds, Integral
  <2> QED
    BY <2>1, <2>2, <2>3
<1> HIDE DEF s, t
<1>6. Integral(t)
  BY <1>5 DEF Counters, Integral
<1> QED
  BY <1>3, <1>4, <1>5, <1>6, Zenon, ZenonT(40) DEF s

\* A stream's record, its types and what its phase says of it.
LEMMA StreamFacts ==
  ASSUME BurstInv, NEW c \in Streams
  PROVE  /\ EngTypes
         /\ eng \in AllEngines /\ mempool \in [Mbufs -> Int] /\ nic \in [Streams -> SUBSET Mbufs]
         /\ next_flow \in Int /\ last_flow \in Int
         /\ st[c] \in Stream /\ st[c].pc \in Pcs /\ st[c].pkts \in Seq(Frame)
         /\ Len(st[c].pkts) \in Nat
         /\ st[c].part \in SUBSET Mbufs /\ st[c].left \in Int
         /\ stats[c] \in Counters /\ Integral(stats[c])
         /\ PhaseOK(st[c].pc, st[c].pkts, st[c].part, st[c].left)
         /\ StatsOK(st[c].pc, Len(st[c].pkts), stats[c])
<1>1. EngTypes /\ st[c] \in Stream /\ stats[c] \in Counters
  BY DEF BurstInv, EngTypes
<1>2. st[c].pc \in Pcs /\ st[c].pkts \in Seq(Frame) /\ st[c].part \in SUBSET Mbufs /\ st[c].left \in Int
  BY <1>1 DEF Stream
<1>3. Integral(stats[c])
  BY <1>1 DEF Counters, Integral
<1> QED
  BY <1>1, <1>2, <1>3 DEF BurstInv, EngTypes, InPhase, StatsInv

\* The counters when packets are consumed.
LEMMA GoneAddsUp ==
  ASSUME NEW s, NEW u, Integral(s), Integral(u), NEW n \in Int, NEW k \in Int,
         NEW pc \in Pcs \ {"free"}, NEW pc2 \in Pcs \ {"free"}, StatsOK(pc, n, s),
         eng = "flowgen" => pc = "discard" /\ pc2 = "discard",
         Adds(s, u, 0, 0, 0, 0, k, 0)
  PROVE  StatsOK(pc2, n - k, u)
  BY DEF StatsOK, Adds, Integral

\* A step of a stream leaves the other streams alone.
LEMMA StreamStep ==
  ASSUME BurstInv, NEW c \in Streams, OnlyStream(c), eng' = eng,
         PhaseOK(st'[c].pc, st'[c].pkts, st'[c].part, st'[c].left),
         StatsOK(st'[c].pc, Len(st'[c].pkts), stats'[c]),
         mempool' \in [Mbufs -> Int], nic' \in [Streams -> SUBSET Mbufs],
         next_flow' \in Int, last_flow' \in Int
  PROVE  BurstInv'
<1>1. EngTypes /\ InPhase /\ StatsInv
  BY DEF BurstInv
<1>2. st' \in [Streams -> Stream] /\ stats' \in [Streams -> Counters]
  BY <1>1, Zenon, ZenonT(40) DEF EngTypes, OnlyStream
<1>3. EngTypes'
  BY <1>1, <1>2 DEF EngTypes
<1>4. \A d \in Streams : d # c => st'[d] = st[d] /\ stats'[d] = stats[d]
  BY <1>1 DEF EngTypes, OnlyStream
<1>5. InPhase'
  <2> SUFFICES ASSUME NEW d \in Streams
               PROVE  PhaseOK(st[d].pc, st[d].pkts, st[d].part, st[d].left)'
    BY DEF InPhase
  <2>1. CASE d = c
    BY <2>1 DEF PhaseOK
  <2>2. CASE d # c
    BY <1>1, <1>4, <2>2 DEF InPhase, PhaseOK
  <2> QED
    BY <2>1, <2>2
<1>6. StatsInv'
  <2> SUFFICES ASSUME NEW d \in Streams
               PROVE  StatsOK(st[d].pc, Len(st[d].pkts), stats[d])'
    BY DEF StatsInv
  <2>1. CASE d = c
    BY <2>1 DEF StatsOK
  <2>2. CASE d # c
    BY <1>1, <1>4, <2>2 DEF StatsInv, StatsOK
  <2> QED
    BY <2>1, <2>2
<1> QED
  BY <1>3, <1>5, <1>6 DEF BurstInv

\* Taking mbufs from the mempool and giving them back.
LEMMA PoolTypes ==
  ASSUME NEW P \in [Mbufs -> Int], NEW S
  PROVE  Give(P, S) \in [Mbufs -> Int] /\ Taken(P, S) \in [Mbufs -> Int]
  BY DEF Give, Taken
-----------------------------------------------------------------------------
(* The steps of an engine: what they do to their stream, and that the invariant
   survives them. *)
LEMMA DiscardStep ==
  ASSUME BurstInv, NEW c \in Streams, discard(c)
  PROVE  /\ BurstInv' /\ st[c].pc = "discard"
         /\ UNCHANGED <<eng, nic, next_flow, last_flow>> /\ OnlyStream(c)
         /\ st'[c].part = st[c].part
         /\ \/ /\ st[c].pkts # <<>> /\ mempool' = Give(mempool, Head(st[c].pkts).mb)
               /\ st'[c].pc = "discard" /\ st'[c].pkts = Tail(st[c].pkts)
            \/ /\ st[c].pkts = <<>> /\ mempool' = mempool
               /\ st'[c].pc \in {"alloc", "idle"} /\ st'[c].pkts = <<>>
<1>1. st[c].pc = "discard" /\ UNCHANGED <<eng, nic, next_flow, last_flow>>
  BY DEF discard
<1> USE StreamFacts
<1>2. CASE st[c].pkts # <<>>
  <2> DEFINE t == Tail(st[c].pkts)
             r == [st[c] EXCEPT !.pkts = t]
  <2>1. /\ mempool' = Give(mempool, Head(st[c].pkts).mb)
        /\ st' = [st EXCEPT ![c].pkts = Tail(@)] /\ stats' = Bump(c, "gone", 1)
    BY <1>2 DEF discard
  <2>2. t \in Seq(Frame) /\ Len(t) = Len(st[c].pkts) - 1
    BY <1>2
  <2> HIDE DEF t
  <2>3. r \in Stream /\ r.pc = "discard" /\ r.pkts = t /\ r.part = st[c].part
    BY <1>1, <2>2, Zenon, ZenonT(40) DEF Stream
  <2>4. st' = [st EXCEPT ![c] = r] /\ st'[c] = r
    BY <2>1, Zenon, ZenonT(40) DEF EngTypes, t
  <2>5. /\ stats' = [stats EXCEPT ![c] = stats'[c]] /\ stats'[c] \in Counters
        /\ Integral(stats'[c]) /\ Adds(stats[c], stats'[c], 0, 0, 0, 0, 1, 0)
    BY <2>1, Bumped
  <2> HIDE DEF r
  <2>6. OnlyStream(c)
    BY <2>3, <2>4, <2>5, Zenon, ZenonT(40) DEF OnlyStream
  <2>7. PhaseOK(st'[c].pc, st'[c].pkts, st'[c].part, st'[c].left)
    BY <1>1, <2>2, <2>3, <2>4, EnginesAssumption DEF PhaseOK
  <2>8. StatsOK(st'[c].pc, Len(st'[c].pkts), stats'[c])
    <3>1. st'[c].pc = "discard" /\ Len(st'[c].pkts) = Len(st[c].pkts) - 1
      BY <2>2, <2>3, <2>4
    <3>2. StatsOK("discard", Len(st[c].pkts), stats[c]) /\ Integral(stats[c])
      BY <1>1
    <3>3. StatsOK("discard", Len(st[c].pkts) - 1, stats'[c])
      BY <2>5, <3>2, GoneAddsUp DEF Pcs
    <3> QED
      BY <3>1, <3>3
  <2>9. mempool' \in [Mbufs -> Int]
    BY <2>1, PoolTypes
  <2> QED
    BY <1>1, <1>2, <2>1, <2>3, <2>4, <2>6, <2>7, <2>8, <2>9, StreamStep, Zenon, ZenonT(40) DEF t
<1>3. CASE st[c].pkts = <<>>
  <2> DEFINE r == [st[c] EXCEPT !.pc = After("discard")]
  <2>1. st' = [st EXCEPT ![c].pc = After("discard")] /\ mempool' = mempool /\ stats' = stats
    BY <1>3 DEF discard, Goto
  <2>2. After("discard") = IF eng = "flowgen" THEN "alloc" ELSE "idle"
    BY <1>1, PhaseOrder DEF PhaseOK, NextPhase
  <2>3. r \in Stream /\ r.pc = After("discard") /\ r.pkts = <<>> /\ r.part = st[c].part
    BY <1>3, <2>2, SMTT(30), SMTT(60) DEF Stream, Pcs
  <2>4. st' = [st EXCEPT ![c] = r] /\ st'[c] = r
    BY <2>1 DEF EngTypes
  <2> HIDE DEF r
  <2>5. OnlyStream(c)
    BY <2>1, <2>3, <2>4, Zenon, ZenonT(40) DEF OnlyStream, EngTypes
  <2>6. PhaseOK(st'[c].pc, st'[c].pkts, st'[c].part, st'[c].left)
    BY <1>1, <1>3, <2>2, <2>3, <2>4 DEF PhaseOK
  <2>7. StatsOK(st'[c].pc, Len(st'[c].pkts), stats'[c])
    BY <1>1, <1>3, <2>1, <2>2, <2>3, <2>4, SMTT(30), SMTT(60) DEF StatsOK, Integral
  <2> QED
    BY <1>1, <1>3, <2>1, <2>2, <2>3, <2>4, <2>5, <2>6, <2>7, StreamStep
<1> QED
  BY <1>2, <1>3

\* The mempool is finite.
LEMMA FreeFinite == IsFiniteSet(Free) /\ Free \in SUBSET Nat /\ Free \in SUBSET Mbufs
<1>1. IsFiniteSet(Mbufs) /\ Mbufs \in SUBSET Nat
  BY EnginesAssumption, FS_Interval DEF Mbufs
<1>2. Free \in SUBSET Mbufs
  BY DEF Free
<1> QED
  BY <1>1, <1>2, FS_Subset, Zenon, ZenonT(40)

\* The mbufs an engine is given are free, and distinct.
LEMMA RankedFree ==
  ASSUME NEW n \in Nat, n <= Cardinality(Free)
  PROVE  /\ \A i \in 1 .. n : Ranked(Free, i) \in Free
         /\ \A i, j \in 1 .. n : Ranked(Free, i) = Ranked(Free, j) => i = j
<1>1. Cardinality(Free) \in Nat
  BY FreeFinite, FS_CardinalityType
<1>2. \A i \in 1 .. n : i \in 1 .. Cardinality(Free)
  BY <1>1
<1> QED
  BY <1>2, FreeFinite, Ranking

\* The mbuf that is allocated next.
LowestFree == Ranked(Free, 1)

\* The mbuf rte_mbuf_raw_alloc returns is a free one.
LEMMA LowestIsFree ==
  ASSUME Free # {}
  PROVE  LowestFree \in Free /\ LowestFree \in Mbufs
<1>1. Cardinality(Free) \in Nat /\ Cardinality(Free) # 0
  BY FreeFinite, FS_CardinalityType, FS_EmptySet
<1>2. 1 \in 1 .. Cardinality(Free)
  BY <1>1
<1> QED
  BY <1>2, FreeFinite, Ranking, Zenon, ZenonT(40) DEF LowestFree

\* The counters when packets are received.
LEMMA ReceivedAddsUp ==
  ASSUME NEW s, NEW u, Integral(s), Integral(u), NEW n \in Int, eng # "txonly",
         StatsOK("idle", 0, s), Adds(s, u, n, 0, 0, 0, 0, 0), eng \in AllEngines
  PROVE  StatsOK(NextPhase("rx"), n, u)
<1>1. NextPhase("rx") # "free" /\ (eng = "flowgen" => NextPhase("rx") = "discard")
  BY DEF NextPhase
<1> QED
  BY <1>1 DEF StatsOK, Adds, Integral

\* The counters when k packets are made.
LEMMA MadeAddsUp ==
  ASSUME NEW s, NEW u, Integral(s), Integral(u), NEW n \in Int, NEW k \in Int,
         eng \in {"flowgen", "txonly"}, NEW pc \in {"alloc", "tx"}, NEW pc2 \in {"alloc", "tx"},
         StatsOK(pc, n, s), Adds(s, u, 0, 0, 0, k, 0, 0)
  PROVE  StatsOK(pc2, n + k, u)
  BY SMTT(30), SMTT(60) DEF StatsOK, Adds, Integral

\* rx_burst: a burst is received.
LEMMA RxStep ==
  ASSUME BurstInv, NEW c \in Streams, rx_burst(c)
  PROVE  /\ BurstInv' /\ st[c].pc = "idle" /\ eng # "txonly"
         /\ UNCHANGED <<eng, nic, next_flow, last_flow>> /\ OnlyStream(c)
         /\ st'[c].pc = NextPhase("rx") /\ st'[c].part = {}
         /\ \E n \in Nat :
              /\ n <= Cardinality(Free) /\ mempool' = Taken(mempool, {Ranked(Free, i) : i \in 1 .. n})
              /\ st'[c].pkts = [i \in 1 .. n |-> [mb |-> {Ranked(Free, i)}, flow |-> 0]]
<1> USE StreamFacts
<1>1. /\ st[c].pc = "idle" /\ Head(Phases) = "rx" /\ UNCHANGED <<eng, nic, next_flow, last_flow>>
  BY DEF rx_burst
<1>2. eng # "txonly" /\ After("rx") = NextPhase("rx")
  BY <1>1, PhaseOrder
<1>3. PICK n \in 0 .. (IF eng = "ieee1588" THEN 1 ELSE Burst) :
        /\ n <= Cardinality(Free) /\ (n = 0 => eng = "flowgen")
        /\ mempool' = Taken(mempool, {Ranked(Free, i) : i \in 1 .. n})
        /\ st' = [st EXCEPT ![c] = [Idle EXCEPT
                    !.pkts = [i \in 1 .. n |-> [mb |-> {Ranked(Free, i)}, flow |-> 0]],
                    !.left = IF eng = "mac_retry" THEN Retries ELSE 0,
                    !.pc = After("rx")]]
        /\ stats' = Bump(c, "rx", n)
  BY Zenon, ZenonT(40) DEF rx_burst
<1> DEFINE pkts == [i \in 1 .. n |-> [mb |-> {Ranked(Free, i)}, flow |-> 0]]
           left == IF eng = "mac_retry" THEN Retries ELSE 0
           r == [Idle EXCEPT !.pkts = pkts, !.left = left, !.pc = After("rx")]
<1>4. n \in Nat /\ n <= Burst
  BY <1>3, EnginesAssumption
<1>5. \A i \in 1 .. n : Ranked(Free, i) \in Mbufs
  BY <1>3, <1>4, RankedFree, FreeFinite
<1>7. pkts \in Seq(Frame) /\ Len(pkts) = n
  <2>1. ASSUME NEW i \in 1 .. n PROVE [mb |-> {Ranked(Free, i)}, flow |-> 0] \in Frame
    BY <1>5 DEF Frame
  <2>2. pkts \in [1 .. n -> Frame]
    BY <2>1
  <2> QED
    BY <1>4, <2>2
<1>8. /\ r \in Stream
      /\ r.pc = NextPhase("rx") /\ r.pkts = pkts /\ r.part = {} /\ r.left = left
  <2>1. After("rx") \in Pcs /\ left \in Int
    BY <1>2, EnginesAssumption DEF NextPhase, Pcs
  <2>2. Idle \in Stream /\ Idle.part = {}
    BY DEF Idle, Stream, Pcs
  <2> HIDE DEF pkts, left
  <2> QED
    BY <1>2, <1>7, <2>1, <2>2, Zenon, ZenonT(40) DEF Stream
<1>9. st' = [st EXCEPT ![c] = r] /\ st'[c] = r
  BY <1>3 DEF EngTypes
<1>10. /\ stats' = [stats EXCEPT ![c] = stats'[c]] /\ stats'[c] \in Counters
       /\ Integral(stats'[c]) /\ Adds(stats[c], stats'[c], n, 0, 0, 0, 0, 0)
  BY <1>3, <1>4, Bumped
<1>12. OnlyStream(c)
  <2> HIDE DEF r
  <2> QED
    BY <1>8, <1>9, <1>10, Zenon, ZenonT(40) DEF OnlyStream
<1>13. PhaseOK(st'[c].pc, st'[c].pkts, st'[c].part, st'[c].left)
  <2>1. eng = "csum" => left = 0
    OBVIOUS
  <2> HIDE DEF r, pkts, left
  <2> QED
    BY <1>2, <1>4, <1>7, <1>8, <1>9, <2>1 DEF PhaseOK, NextPhase
<1>14. StatsOK(st'[c].pc, Len(st'[c].pkts), stats'[c])
  <2> HIDE DEF r, pkts, left
  <2>1. StatsOK("idle", 0, stats[c]) /\ Integral(stats[c])
    BY <1>1 DEF PhaseOK
  <2>2. StatsOK(NextPhase("rx"), n, stats'[c])
    BY <1>2, <1>4, <1>10, <2>1, ReceivedAddsUp
  <2> QED
    BY <1>7, <1>8, <1>9, <2>2, SMTT(30), SMTT(60)
<1>15. mempool' \in [Mbufs -> Int]
  BY <1>3, PoolTypes
<1> HIDE DEF r, left
<1>16. BurstInv'
  BY <1>1, <1>12, <1>13, <1>14, <1>15, StreamStep
<1> QED
  BY <1>1, <1>2, <1>3, <1>4, <1>5, <1>8, <1>9, <1>12, <1>16, Zenon, ZenonT(40)

\* start_making: txonly begins a call.
LEMMA StartStep ==
  ASSUME BurstInv, NEW c \in Streams, start_making(c)
  PROVE  /\ BurstInv' /\ st[c].pc = "idle" /\ eng = "txonly"
         /\ UNCHANGED <<eng, mempool, nic, next_flow, last_flow>> /\ OnlyStream(c)
         /\ st'[c].part = st[c].part /\ st'[c].pkts = st[c].pkts /\ st'[c].pc = "alloc"
<1> USE StreamFacts
<1>1. /\ st[c].pc = "idle" /\ Head(Phases) = "alloc"
      /\ st' = [st EXCEPT ![c].pc = "alloc"]
      /\ UNCHANGED <<eng, mempool, nic, stats, next_flow, last_flow>>
  BY DEF start_making, Goto
<1>2. eng = "txonly"
  BY <1>1, PhaseOrder
<1> DEFINE r == [st[c] EXCEPT !.pc = "alloc"]
<1>3. /\ r \in Stream /\ r.pc = "alloc" /\ r.pkts = st[c].pkts /\ r.part = st[c].part
      /\ r.left = st[c].left
  BY Zenon, ZenonT(40) DEF Stream, Pcs
<1>4. st' = [st EXCEPT ![c] = r] /\ st'[c] = r
  BY <1>1 DEF EngTypes
<1> HIDE DEF r
<1>5. OnlyStream(c)
  BY <1>1, <1>3, <1>4, Zenon, ZenonT(40) DEF OnlyStream, EngTypes
<1>6. PhaseOK(st'[c].pc, st'[c].pkts, st'[c].part, st'[c].left)
  BY <1>1, <1>2, <1>3, <1>4 DEF PhaseOK
<1>7. StatsOK(st'[c].pc, Len(st'[c].pkts), stats'[c])
  BY <1>1, <1>2, <1>3, <1>4 DEF StatsOK
<1> QED
  BY <1>1, <1>2, <1>3, <1>4, <1>5, <1>6, <1>7, StreamStep

\* What the division algorithm gives for a positive modulus.
LEMMA Division ==
  ASSUME NEW a \in Int, NEW n \in Nat \ {0}
  PROVE  a % n \in 0 .. n - 1 /\ a \div n \in Int /\ a = n * (a \div n) + (a % n)
  BY SMTT(30), SMTT(60)

\* alloc: a segment joins the chain, or completes a packet.
LEMMA AllocStep ==
  ASSUME BurstInv, NEW c \in Streams, alloc(c)
  PROVE  /\ BurstInv' /\ st[c].pc = "alloc" /\ st'[c].pc = "alloc"
         /\ UNCHANGED <<eng, nic, last_flow>> /\ OnlyStream(c)
         /\ next_flow' = IF eng = "flowgen" THEN (next_flow + 1) % NbFlows ELSE next_flow
         /\ \E m \in Free :
              /\ m \in Mbufs /\ mempool' = Taken(mempool, {m})
              /\ \/ /\ st'[c].part = {}
                    /\ st'[c].pkts = Append(st[c].pkts, [mb |-> st[c].part \cup {m}, flow |-> next_flow])
                 \/ /\ eng # "flowgen" /\ st'[c].part = st[c].part \cup {m}
                    /\ st'[c].pkts = st[c].pkts
<1> USE StreamFacts
<1> DEFINE m == LowestFree
           chain == st[c].part \cup {m}
           f == [mb |-> chain, flow |-> next_flow]
<1>1. /\ st[c].pc = "alloc" /\ Len(st[c].pkts) < Burst /\ Free # {}
      /\ next_flow' = IF eng = "flowgen" THEN (next_flow + 1) % NbFlows ELSE next_flow
      /\ UNCHANGED <<eng, nic, last_flow>>
  BY DEF alloc
<1>2. PICK whole \in {TRUE} \cup (IF eng = "flowgen" THEN {} ELSE {Cardinality(chain) = NbSegs}) :
        /\ mempool' = Taken(mempool, {m})
        /\ st' = [st EXCEPT ![c].part = IF whole THEN {} ELSE chain,
                            ![c].pkts = IF whole THEN Append(@, f) ELSE @]
        /\ stats' = IF whole THEN Bump(c, "made", 1) ELSE stats
  BY Zenon, ZenonT(40) DEF alloc, LowestFree
<1>3. m \in Free /\ m \in Mbufs
  BY <1>1, LowestIsFree
<1>4. eng \in {"flowgen", "txonly"} /\ next_flow' \in Int
  <2>1. eng \in {"flowgen", "txonly"}
    BY <1>1 DEF PhaseOK
  <2>2. next_flow + 1 \in Int /\ NbFlows \in Nat \ {0}
    BY EnginesAssumption
  <2>3. (next_flow + 1) % NbFlows \in Int
    BY <2>2, Division
  <2> QED
    BY <1>1, <2>1, <2>3
<1>5. mempool' \in [Mbufs -> Int]
  BY <1>2, PoolTypes
<1> HIDE DEF m
<1>6. CASE whole
  <2> DEFINE q == Append(st[c].pkts, f)
             r == [st[c] EXCEPT !.part = {}, !.pkts = q]
  <2>1. f \in Frame
    BY <1>3 DEF Frame
  <2>2. q \in Seq(Frame) /\ Len(q) = Len(st[c].pkts) + 1
    BY <2>1
  <2>3. st' = [st EXCEPT ![c] = r] /\ st'[c] = r /\ stats' = Bump(c, "made", 1)
    BY <1>2, <1>6, Zenon, ZenonT(40) DEF EngTypes
  <2> HIDE DEF f, q
  <2>4. r \in Stream /\ r.pc = "alloc" /\ r.part = {} /\ r.pkts = q /\ r.left = st[c].left
    BY <1>1, <2>2, Zenon, ZenonT(40) DEF Stream
  <2> HIDE DEF r
  <2>5. /\ stats' = [stats EXCEPT ![c] = stats'[c]] /\ stats'[c] \in Counters
        /\ Integral(stats'[c]) /\ Adds(stats[c], stats'[c], 0, 0, 0, 1, 0, 0)
    BY <2>3, Bumped
  <2>6. OnlyStream(c)
    BY <2>3, <2>4, <2>5, Zenon, ZenonT(40) DEF OnlyStream
  <2>7. PhaseOK(st'[c].pc, st'[c].pkts, st'[c].part, st'[c].left)
    BY <1>1, <1>4, <2>2, <2>3, <2>4, EnginesAssumption, SMTT(30), SMTT(60) DEF PhaseOK
  <2>8. StatsOK(st'[c].pc, Len(st'[c].pkts), stats'[c])
    <3>1. StatsOK("alloc", Len(st[c].pkts), stats[c]) /\ Integral(stats[c])
      BY <1>1, SMTT(30), SMTT(60)
    <3>2. StatsOK("alloc", Len(st[c].pkts) + 1, stats'[c])
      BY <1>4, <2>5, <3>1, MadeAddsUp, SMTT(30), SMTT(60)
    <3> QED
      BY <2>2, <2>3, <2>4, <3>2, SMTT(30), SMTT(60)
  <2>9. BurstInv'
    BY <1>1, <1>4, <1>5, <2>6, <2>7, <2>8, StreamStep, SMTT(30), SMTT(60)
  <2>10. st'[c].pc = "alloc" /\ st'[c].part = {} /\ st'[c].pkts = q
    BY <2>3, <2>4
  <2> QED
    BY <1>1, <1>2, <1>3, <2>6, <2>9, <2>10, Zenon, ZenonT(40) DEF q, f
<1>7. CASE ~whole
  <2> DEFINE r == [st[c] EXCEPT !.part = chain]
  <2>1. eng # "flowgen"
    BY <1>2, <1>7, Zenon, ZenonT(40)
  <2>2. st' = [st EXCEPT ![c] = r] /\ st'[c] = r /\ stats' = stats
    BY <1>2, <1>7, Zenon, ZenonT(40) DEF EngTypes
  <2>3. chain \in SUBSET Mbufs
    BY <1>3
  <2> HIDE DEF chain
  <2>4. r \in Stream /\ r.pc = "alloc" /\ r.part = chain /\ r.pkts = st[c].pkts /\ r.left = st[c].left
    BY <1>1, <2>3, SMTT(30), SMTT(60) DEF Stream
  <2> HIDE DEF r
  <2>5. OnlyStream(c)
    BY <2>2, <2>4, Zenon, ZenonT(40) DEF OnlyStream, EngTypes
  <2>6. PhaseOK(st'[c].pc, st'[c].pkts, st'[c].part, st'[c].left)
    BY <1>1, <1>4, <2>2, <2>4, SMTT(30), SMTT(60) DEF PhaseOK
  <2>7. StatsOK(st'[c].pc, Len(st'[c].pkts), stats'[c])
    BY <1>1, <2>2, <2>4, SMTT(30), SMTT(60)
  <2>8. BurstInv'
    BY <1>1, <1>4, <1>5, <2>5, <2>6, <2>7, StreamStep, SMTT(30), SMTT(60)
  <2>9. st'[c].pc = "alloc" /\ st'[c].part = chain /\ st'[c].pkts = st[c].pkts
    BY <2>2, <2>4
  <2> QED
    BY <1>1, <1>2, <1>3, <2>1, <2>5, <2>8, <2>9, Zenon, ZenonT(40) DEF chain
<1> QED
  BY <1>6, <1>7, Zenon, ZenonT(40)

\* stop_making: the burst is full or the mempool is empty.
LEMMA StopStep ==
  ASSUME BurstInv, NEW c \in Streams, stop_making(c)
  PROVE  /\ BurstInv' /\ st[c].pc = "alloc"
         /\ st'[c].pc = IF eng = "txonly" /\ st[c].pkts = <<>> THEN "idle" ELSE "tx"
         /\ UNCHANGED <<eng, nic, next_flow, last_flow>> /\ OnlyStream(c)
         /\ mempool' = Give(mempool, st[c].part)
         /\ st'[c].part = {} /\ st'[c].pkts = st[c].pkts
<1> USE StreamFacts
<1> DEFINE pc == IF eng = "txonly" /\ st[c].pkts = <<>> THEN "idle" ELSE "tx"
           r == [st[c] EXCEPT !.part = {}, !.pc = pc]
<1>1. /\ st[c].pc = "alloc" /\ mempool' = Give(mempool, st[c].part)
      /\ st' = [st EXCEPT ![c].part = {},
                  ![c].pc = IF eng = "txonly" /\ st[c].pkts = <<>> THEN "idle" ELSE After("alloc")]
      /\ UNCHANGED <<eng, nic, stats, next_flow, last_flow>>
  BY DEF stop_making
<1>2. eng \in {"flowgen", "txonly"} /\ After("alloc") = "tx"
  BY <1>1, PhaseOrder DEF PhaseOK
<1>3. st' = [st EXCEPT ![c] = r] /\ st'[c] = r
  BY <1>1, <1>2, Zenon, ZenonT(40) DEF EngTypes
<1>4. pc \in {"idle", "tx"} /\ (pc = "idle" => eng = "txonly" /\ st[c].pkts = <<>>)
  OBVIOUS
<1> HIDE DEF pc
<1>5. r \in Stream /\ r.pc = pc /\ r.part = {} /\ r.pkts = st[c].pkts /\ r.left = st[c].left
  BY <1>4, Zenon, ZenonT(40) DEF Stream, Pcs
<1> HIDE DEF r
<1>6. OnlyStream(c)
  BY <1>1, <1>3, <1>5, Zenon, ZenonT(40) DEF OnlyStream, EngTypes
<1>7. PhaseOK(st'[c].pc, st'[c].pkts, st'[c].part, st'[c].left)
  BY <1>1, <1>2, <1>3, <1>4, <1>5, Zenon, ZenonT(40) DEF PhaseOK
<1>8. StatsOK(st'[c].pc, Len(st'[c].pkts), stats'[c])
  <2>1. StatsOK("alloc", Len(st[c].pkts), stats[c])
    BY <1>1, SMTT(30), SMTT(60)
  <2>2. StatsOK(pc, Len(st[c].pkts), stats[c])
    BY <1>2, <1>4, <2>1 DEF StatsOK
  <2> QED
    BY <1>1, <1>3, <1>5, <2>2, Zenon, ZenonT(40)
<1>9. mempool' \in [Mbufs -> Int]
  BY <1>1, PoolTypes, SMTT(30), SMTT(60)
<1>10. BurstInv'
  BY <1>1, <1>6, <1>7, <1>8, <1>9, StreamStep, Zenon, ZenonT(40)
<1> QED
  BY <1>1, <1>3, <1>5, <1>6, <1>10, Zenon, ZenonT(40) DEF pc

\* keep_packet: the checksum engine sends the packet it received.
LEMMA KeepStep ==
  ASSUME BurstInv, NEW c \in Streams, keep_packet(c)
  PROVE  /\ BurstInv' /\ st[c].pc = "copy" /\ st'[c].pc = "copy" /\ eng = "csum"
         /\ UNCHANGED <<eng, mempool, nic, next_flow, last_flow>> /\ OnlyStream(c)
         /\ st'[c].part = st[c].part /\ st'[c].pkts = st[c].pkts
<1> USE StreamFacts
<1> DEFINE r == [st[c] EXCEPT !.left = st[c].left + 1]
<1>1. /\ st[c].pc = "copy" /\ st[c].part = {} /\ st[c].left < Len(st[c].pkts)
      /\ st' = [st EXCEPT ![c].left = @ + 1]
      /\ UNCHANGED <<eng, mempool, nic, stats, next_flow, last_flow>>
  BY DEF keep_packet
<1>2. eng = "csum" /\ st[c].left \in 0 .. Len(st[c].pkts)
  BY <1>1 DEF PhaseOK
<1>3. st' = [st EXCEPT ![c] = r] /\ st'[c] = r
  BY <1>1 DEF EngTypes
<1>4. /\ r \in Stream /\ r.pc = "copy" /\ r.part = {} /\ r.pkts = st[c].pkts
      /\ r.left = st[c].left + 1
  <2>1. st[c].left + 1 \in Int
    OBVIOUS
  <2> QED
    BY <1>1, <2>1, Zenon, ZenonT(40) DEF Stream
<1> HIDE DEF r
<1>5. OnlyStream(c)
  BY <1>1, <1>3, <1>4, Zenon, ZenonT(40) DEF OnlyStream, EngTypes
<1>6. PhaseOK(st'[c].pc, st'[c].pkts, st'[c].part, st'[c].left)
  BY <1>1, <1>2, <1>3, <1>4 DEF PhaseOK
<1>7. StatsOK(st'[c].pc, Len(st'[c].pkts), stats'[c])
  BY <1>1, <1>3, <1>4
<1>8. BurstInv'
  BY <1>1, <1>5, <1>6, <1>7, StreamStep
<1> QED
  BY <1>1, <1>2, <1>3, <1>4, <1>5, <1>8

\* all_copied: the checksum engine goes on to transmit.
LEMMA CopiedStep ==
  ASSUME BurstInv, NEW c \in Streams, all_copied(c)
  PROVE  /\ BurstInv' /\ st[c].pc = "copy" /\ st'[c].pc = "tx" /\ eng = "csum"
         /\ UNCHANGED <<eng, mempool, nic, next_flow, last_flow>> /\ OnlyStream(c)
         /\ st'[c].part = st[c].part /\ st'[c].pkts = st[c].pkts
<1> USE StreamFacts
<1> DEFINE r == [st[c] EXCEPT !.pc = "tx"]
<1>1. /\ st[c].pc = "copy" /\ st[c].left = Len(st[c].pkts)
      /\ st' = [st EXCEPT ![c].pc = After("copy")]
      /\ UNCHANGED <<eng, mempool, nic, stats, next_flow, last_flow>>
  BY DEF all_copied, Goto
<1>2. eng = "csum" /\ After("copy") = "tx"
  BY <1>1, PhaseOrder DEF PhaseOK
<1>3. st' = [st EXCEPT ![c] = r] /\ st'[c] = r
  BY <1>1, <1>2, Zenon, ZenonT(40) DEF EngTypes
<1>4. /\ r \in Stream /\ r.pc = "tx" /\ r.part = st[c].part /\ r.pkts = st[c].pkts
      /\ r.left = st[c].left
  BY Zenon, ZenonT(40) DEF Stream, Pcs
<1> HIDE DEF r
<1>5. OnlyStream(c)
  BY <1>1, <1>3, <1>4, Zenon, ZenonT(40) DEF OnlyStream, EngTypes
<1>6. PhaseOK(st'[c].pc, st'[c].pkts, st'[c].part, st'[c].left)
  BY <1>1, <1>2, <1>3, <1>4 DEF PhaseOK
<1>7. StatsOK(st'[c].pc, Len(st'[c].pkts), stats'[c])
  BY <1>1, <1>2, <1>3, <1>4 DEF StatsOK
<1>8. BurstInv'
  BY <1>1, <1>5, <1>6, <1>7, StreamStep
<1> QED
  BY <1>1, <1>2, <1>3, <1>4, <1>5, <1>8

\* pkt_copy_split: a segment is allocated, a copy is complete, or it is given up.
LEMMA CopyStep ==
  ASSUME BurstInv, NEW c \in Streams, pkt_copy_split(c)
  PROVE  /\ BurstInv' /\ st[c].pc = "copy" /\ st'[c].pc = "copy" /\ eng = "csum"
         /\ UNCHANGED <<eng, nic, next_flow, last_flow>> /\ OnlyStream(c)
         /\ \/ \E m \in Free : /\ m \in Mbufs /\ mempool' = Taken(mempool, {m})
                               /\ st'[c].part = st[c].part \cup {m} /\ st'[c].pkts = st[c].pkts
            \/ \E m \in Free, i \in 1 .. Len(st[c].pkts) :
                 /\ m \in Mbufs /\ mempool' = Give(Taken(mempool, {m}), st[c].pkts[i].mb)
                 /\ st'[c].part = {}
                 /\ st'[c].pkts = [st[c].pkts EXCEPT
                                     ![i] = [st[c].pkts[i] EXCEPT !.mb = st[c].part \cup {m}]]
            \/ /\ mempool' = Give(mempool, st[c].part)
               /\ st'[c].part = {} /\ st'[c].pkts = st[c].pkts
<1> USE StreamFacts
<1> DEFINE i == st[c].left + 1
           m == LowestFree
           md == st[c].part \cup {m}
<1>1. /\ st[c].pc = "copy" /\ st[c].left < Len(st[c].pkts)
      /\ UNCHANGED <<eng, nic, stats, next_flow, last_flow>>
  BY DEF pkt_copy_split
<1>2. \/ /\ Free # {} /\ mempool' = Taken(mempool, {m}) /\ st' = [st EXCEPT ![c].part = md]
      \/ /\ Free # {}
         /\ mempool' = Give(Taken(mempool, {m}), st[c].pkts[i].mb)
         /\ st' = [st EXCEPT ![c].part = {}, ![c].left = i, ![c].pkts[i].mb = md]
      \/ /\ mempool' = Give(mempool, st[c].part)
         /\ st' = [st EXCEPT ![c].part = {}, ![c].left = i]
  BY Zenon, ZenonT(40) DEF pkt_copy_split, LowestFree
<1>3. eng = "csum" /\ st[c].left \in 0 .. Len(st[c].pkts) /\ i \in 1 .. Len(st[c].pkts)
  BY <1>1, SMTT(30), SMTT(60) DEF PhaseOK
<1>4. Free # {} => m \in Free /\ m \in Mbufs /\ md \in SUBSET Mbufs
  BY LowestIsFree
<1>5. mempool' \in [Mbufs -> Int]
  <2>1. Taken(mempool, {m}) \in [Mbufs -> Int]
    BY PoolTypes
  <2>2. /\ Give(Taken(mempool, {m}), st[c].pkts[i].mb) \in [Mbufs -> Int]
        /\ Give(mempool, st[c].part) \in [Mbufs -> Int]
    BY <2>1, PoolTypes, Zenon, ZenonT(40)
  <2> QED
    BY <1>2, <2>1, <2>2, Zenon, ZenonT(40)
<1> HIDE DEF m, i
<1>10. i \in Int /\ i \in 0 .. Len(st[c].pkts)
  BY <1>3, SMTT(30), SMTT(60)
\* What every outcome leaves to show.
<1>6. ASSUME NEW r \in Stream, st' = [st EXCEPT ![c] = r], r.pc = "copy",
             r.left \in 0 .. Len(r.pkts), Len(r.pkts) = Len(st[c].pkts),
             r.part # {} => r.left < Len(r.pkts)
      PROVE  BurstInv' /\ OnlyStream(c) /\ st'[c] = r
  <2>1. st'[c] = r
    BY <1>6 DEF EngTypes
  <2>2. OnlyStream(c)
    BY <1>1, <1>6, <2>1, Zenon, ZenonT(40) DEF OnlyStream, EngTypes
  <2>3. PhaseOK(st'[c].pc, st'[c].pkts, st'[c].part, st'[c].left)
    BY <1>1, <1>3, <1>6, <2>1, SMTT(30), SMTT(60) DEF PhaseOK
  <2>4. StatsOK(st'[c].pc, Len(st'[c].pkts), stats'[c])
    BY <1>1, <1>6, <2>1
  <2> QED
    BY <1>1, <1>5, <2>1, <2>2, <2>3, <2>4, StreamStep, SMTT(30), SMTT(60)
<1>7. CASE Free # {} /\ mempool' = Taken(mempool, {m}) /\ st' = [st EXCEPT ![c].part = md]
  <2> DEFINE r == [st[c] EXCEPT !.part = md]
  <2>1. st' = [st EXCEPT ![c] = r]
    BY <1>7 DEF EngTypes
  <2> HIDE DEF md
  <2>2. r \in Stream /\ r.pc = "copy" /\ r.part = md /\ r.pkts = st[c].pkts /\ r.left = st[c].left
    BY <1>1, <1>4, <1>7, SMTT(30), SMTT(60) DEF Stream
  <2> HIDE DEF r
  <2>3. BurstInv' /\ OnlyStream(c) /\ st'[c] = r
    BY <1>1, <1>3, <1>6, <2>1, <2>2, Zenon, ZenonT(40)
  <2> QED
    BY <1>1, <1>3, <1>4, <1>7, <2>2, <2>3, Zenon, ZenonT(40) DEF md
<1>8. CASE /\ Free # {}
           /\ mempool' = Give(Taken(mempool, {m}), st[c].pkts[i].mb)
           /\ st' = [st EXCEPT ![c].part = {}, ![c].left = i, ![c].pkts[i].mb = md]
  <2> DEFINE f == [st[c].pkts[i] EXCEPT !.mb = md]
             q == [st[c].pkts EXCEPT ![i] = f]
             r == [st[c] EXCEPT !.part = {}, !.left = i, !.pkts = q]
  <2>1. st' = [st EXCEPT ![c] = r]
    BY <1>8, Zenon, ZenonT(40) DEF EngTypes
  <2> HIDE DEF md
  <2>2. st[c].pkts[i] \in Frame
    BY <1>3
  <2>3. f \in Frame
    BY <1>4, <1>8, <2>2, Zenon, ZenonT(40) DEF Frame
  <2> HIDE DEF f
  <2>4. q \in Seq(Frame) /\ Len(q) = Len(st[c].pkts)
    BY <1>3, <2>3
  <2> HIDE DEF q
  <2>5. r \in Stream /\ r.pc = "copy" /\ r.part = {} /\ r.pkts = q /\ r.left = i
    BY <1>1, <1>10, <2>4, Zenon, ZenonT(40) DEF Stream
  <2> HIDE DEF r
  <2>6. BurstInv' /\ OnlyStream(c) /\ st'[c] = r
    BY <1>6, <1>10, <2>1, <2>4, <2>5, Zenon, ZenonT(40)
  <2> QED
    BY <1>1, <1>3, <1>4, <1>8, <2>5, <2>6, ZenonT(40), ZenonT(60) DEF md, f, q
<1>9. CASE mempool' = Give(mempool, st[c].part) /\ st' = [st EXCEPT ![c].part = {}, ![c].left = i]
  <2> DEFINE r == [st[c] EXCEPT !.part = {}, !.left = i]
  <2>1. st' = [st EXCEPT ![c] = r]
    BY <1>9, Zenon, ZenonT(40) DEF EngTypes
  <2>2. r \in Stream /\ r.pc = "copy" /\ r.part = {} /\ r.pkts = st[c].pkts /\ r.left = i
    BY <1>1, <1>10, Zenon, ZenonT(40) DEF Stream
  <2> HIDE DEF r
  <2>3. BurstInv' /\ OnlyStream(c) /\ st'[c] = r
    BY <1>6, <1>10, <2>1, <2>2, ZenonT(40), ZenonT(60)
  <2> QED
    BY <1>1, <1>3, <1>9, <2>2, <2>3, Zenon, ZenonT(40)
<1> QED
  BY <1>2, <1>7, <1>8, <1>9, ZenonT(40), ZenonT(60)

\* free_unsent: what the device did not accept is freed.
LEMMA FreeStep ==
  ASSUME BurstInv, NEW c \in Streams, free_unsent(c)
  PROVE  /\ BurstInv' /\ st[c].pc = "free"
         /\ UNCHANGED <<eng, nic, next_flow, last_flow>> /\ OnlyStream(c)
         /\ st'[c].part = st[c].part /\ st'[c].pc \in {"free", "idle"}
         /\ \/ /\ st[c].pkts # <<>> /\ mempool' = Give(mempool, Head(st[c].pkts).mb)
               /\ st'[c].pkts = Tail(st[c].pkts)
            \/ st[c].pkts = <<>> /\ mempool' = mempool /\ st'[c].pkts = <<>>
<1>1. st[c].pc = "free" /\ UNCHANGED <<eng, nic, stats, next_flow, last_flow>>
  BY SMTT(30), SMTT(60) DEF free_unsent
<1> USE StreamFacts
<1>2. CASE st[c].pkts # <<>>
  <2> DEFINE t == Tail(st[c].pkts)
             r == [st[c] EXCEPT !.pkts = t]
  <2>1. mempool' = Give(mempool, Head(st[c].pkts).mb) /\ st' = [st EXCEPT ![c].pkts = Tail(@)]
    BY <1>2 DEF free_unsent
  <2>2. t \in Seq(Frame) /\ Len(t) = Len(st[c].pkts) - 1
    BY <1>2
  <2> HIDE DEF t
  <2>3. r \in Stream /\ r.pc = "free" /\ r.pkts = t /\ r.part = st[c].part
    BY <1>1, <2>2, SMTT(30), SMTT(60) DEF Stream
  <2>4. st' = [st EXCEPT ![c] = r] /\ st'[c] = r
    BY <2>1, Zenon, ZenonT(40) DEF EngTypes, t
  <2> HIDE DEF r
  <2>5. OnlyStream(c)
    BY <1>1, <2>3, <2>4, ZenonT(40), ZenonT(60) DEF OnlyStream, EngTypes
  <2>6. PhaseOK(st'[c].pc, st'[c].pkts, st'[c].part, st'[c].left)
    BY <1>1, <2>2, <2>3, <2>4, EnginesAssumption, SMTT(30), SMTT(60) DEF PhaseOK
  <2>7. StatsOK(st'[c].pc, Len(st'[c].pkts), stats'[c])
    <3>1. StatsOK("free", Len(st[c].pkts), stats[c]) /\ stats'[c] = stats[c] /\ st'[c].pc = "free"
      BY <1>1, <2>3, <2>4
    <3> QED
      BY <3>1, SMTT(30), SMTT(60) DEF StatsOK
  <2>8. mempool' \in [Mbufs -> Int]
    BY <2>1, PoolTypes, SMTT(30), SMTT(60)
  <2> QED
    BY <1>1, <1>2, <2>1, <2>3, <2>4, <2>5, <2>6, <2>7, <2>8, StreamStep, SMTT(30), SMTT(60) DEF t
<1>3. CASE st[c].pkts = <<>>
  <2>1. st' = [st EXCEPT ![c] = Idle] /\ mempool' = mempool
    BY <1>3 DEF free_unsent
  <2>2. Idle \in Stream /\ Idle.pc = "idle" /\ Idle.pkts = <<>> /\ Idle.part = {}
    BY DEF Idle, Stream, Pcs
  <2>3. st'[c] = Idle
    BY <2>1 DEF EngTypes
  <2>4. OnlyStream(c)
    BY <1>1, <2>1, <2>2, <2>3, Zenon, ZenonT(40) DEF OnlyStream, EngTypes
  <2>5. PhaseOK(st'[c].pc, st'[c].pkts, st'[c].part, st'[c].left)
    BY <1>3, <2>2, <2>3, EnginesAssumption, SMTT(30), SMTT(60) DEF PhaseOK
  <2>6. StatsOK(st'[c].pc, Len(st'[c].pkts), stats'[c])
    <3>1. StatsOK("free", 0, stats[c]) /\ stats'[c] = stats[c] /\ Integral(stats[c])
      BY <1>1, <1>3, SMTT(30), SMTT(60)
    <3>2. StatsOK("idle", 0, stats[c])
      BY <3>1, SMTT(30), SMTT(60) DEF StatsOK
    <3> QED
      BY <2>2, <2>3, <3>1, <3>2, SMTT(30), SMTT(60)
  <2>7. st[c].part = {}
    BY <1>1 DEF PhaseOK
  <2> QED
    BY <1>1, <1>3, <2>1, <2>2, <2>3, <2>4, <2>5, <2>6, <2>7, StreamStep, SMTT(30), SMTT(60)
<1> QED
  BY <1>2, <1>3

\* The counters when the device takes k of n packets.
LEMMA SentAddsUp ==
  ASSUME NEW s, NEW u, Integral(s), Integral(u), NEW n \in Int, NEW k \in Int,
         NEW again \in BOOLEAN, again => eng = "mac_retry",
         NEW tx \in Int, tx = IF eng = "ieee1588" THEN n ELSE k,
         NEW dropped \in Int, dropped = Dropped(n - k, again),
         StatsOK("tx", n, s), Adds(s, u, 0, tx, dropped, 0, 0, k)
  PROVE  StatsOK(IF again THEN "tx" ELSE "free", n - k, u)
<1>1. CASE again
  <2>1. eng = "mac_retry" /\ tx = k /\ dropped = 0
    BY <1>1 DEF Dropped
  <2>2. StatsOK("tx", n - k, u)
    BY <2>1 DEF StatsOK, Adds, Integral
  <2> QED
    BY <1>1, <2>2
<1>2. CASE ~again
  <2>1. dropped = IF eng = "flowgen" THEN 0 ELSE n - k
    BY <1>2 DEF Dropped
  <2>2. StatsOK("free", n - k, u)
    <3>1. CASE eng = "ieee1588"
      <4>1. tx = n /\ dropped = n - k
        BY <2>1, <3>1
      <4>2. s.rx = s.tx + s.gone + n /\ s.tx = s.given + s.dropped
        BY <3>1 DEF StatsOK
      <4>3. u.rx = u.tx + u.gone /\ u.gone = u.gone + 0 /\ u.tx = u.given + u.dropped
        BY <4>1, <4>2, SMTT(30), SMTT(60) DEF Adds, Integral
      <4> QED
        BY <3>1, <4>3 DEF StatsOK, Integral
    <3>2. CASE eng = "flowgen"
      BY <2>1, <3>2 DEF StatsOK, Adds, Integral
    <3>3. CASE eng \notin {"ieee1588", "flowgen"}
      <4>1. tx = k /\ dropped = n - k
        BY <2>1, <3>3, Zenon, ZenonT(40)
      <4>2. s.rx + s.made = s.tx + s.dropped + s.gone + n /\ s.tx = s.given
        BY <3>3 DEF StatsOK
      <4>3. u.rx + u.made = u.tx + u.dropped + u.gone /\ u.tx = u.given
        BY <4>1, <4>2 DEF Adds, Integral
      <4> QED
        BY <3>3, <4>3 DEF StatsOK, Integral
    <3> QED
      BY <3>1, <3>2, <3>3
  <2> QED
    BY <1>2, <2>2
<1> QED
  BY <1>1, <1>2

\* The two parts of a sequence.
LEMMA Parts ==
  ASSUME NEW T, NEW p \in Seq(T), NEW k \in 0 .. Len(p)
  PROVE  /\ SubSeq(p, 1, k) \in Seq(T) /\ Len(SubSeq(p, 1, k)) = k
         /\ \A i \in 1 .. k : SubSeq(p, 1, k)[i] = p[i]
         /\ SubSeq(p, k + 1, Len(p)) \in Seq(T) /\ Len(SubSeq(p, k + 1, Len(p))) = Len(p) - k
         /\ \A i \in 1 .. Len(p) - k : SubSeq(p, k + 1, Len(p))[i] = p[k + i]
<1>1. Len(p) \in Nat /\ k \in Nat /\ k <= Len(p)
  OBVIOUS
<1>2. SubSeq(p, 1, k) \in Seq(T) /\ Len(SubSeq(p, 1, k)) = k
  BY <1>1
<1>3. \A i \in 1 .. k : SubSeq(p, 1, k)[i] = p[i]
  BY <1>1
<1>4. SubSeq(p, k + 1, Len(p)) \in Seq(T) /\ Len(SubSeq(p, k + 1, Len(p))) = Len(p) - k
  BY <1>1
<1>5. \A i \in 1 .. Len(p) - k : SubSeq(p, k + 1, Len(p))[i] = p[k + i]
  BY <1>1
<1> QED
  BY <1>2, <1>3, <1>4, <1>5

\* tx_burst: the device accepts some of the packets.
LEMMA TxStep ==
  ASSUME BurstInv, NEW c \in Streams, tx_burst(c)
  PROVE  /\ BurstInv' /\ st[c].pc = "tx" /\ st[c].part = {}
         /\ UNCHANGED <<eng, mempool>> /\ OnlyStream(c) /\ st'[c].part = {}
         /\ eng = "flowgen" => st'[c].pc = "free"
         /\ \E k \in 0 .. Len(st[c].pkts) :
              /\ nic' = [nic EXCEPT ![c] = nic[c] \cup MbufsOf(SubSeq(st[c].pkts, 1, k))]
              /\ st'[c].pkts = SubSeq(st[c].pkts, k + 1, Len(st[c].pkts))
              /\ next_flow' = FlowAfter(Len(st[c].pkts) - k)
              /\ last_flow' = IF k > 0 THEN st[c].pkts[k].flow ELSE last_flow
<1> USE StreamFacts
<1> DEFINE p == st[c].pkts
           n == Len(p)
<1>1. st[c].pc = "tx" /\ UNCHANGED <<eng, mempool>>
  BY Zenon, ZenonT(40) DEF tx_burst
<1>2. PICK k \in 0 .. n :
        LET rest == SubSeq(p, k + 1, n)
            again == eng = "mac_retry" /\ rest # <<>> /\ st[c].left > 0
        IN /\ nic' = [nic EXCEPT ![c] = @ \cup MbufsOf(SubSeq(p, 1, k))]
           /\ st' = [st EXCEPT ![c].pkts = rest, ![c].left = IF again THEN @ - 1 ELSE @,
                               ![c].pc = IF again THEN "tx" ELSE After("tx")]
           /\ stats' = [stats EXCEPT ![c].given = @ + k,
                          ![c].tx = @ + (IF eng = "ieee1588" THEN n ELSE k),
                          ![c].dropped = @ + Dropped(Len(rest), again)]
           /\ next_flow' = FlowAfter(Len(rest))
           /\ last_flow' = IF k > 0 THEN p[k].flow ELSE last_flow
  BY Zenon, ZenonT(40) DEF tx_burst
<1> DEFINE rest == SubSeq(p, k + 1, n)
           again == eng = "mac_retry" /\ rest # <<>> /\ st[c].left > 0
           left == IF again THEN st[c].left - 1 ELSE st[c].left
           pc == IF again THEN "tx" ELSE "free"
           tx == IF eng = "ieee1588" THEN n ELSE k
           dropped == Dropped(n - k, again)
           s == stats[c]
           r == [st[c] EXCEPT !.pkts = rest, !.left = left, !.pc = pc]
           u == [s EXCEPT !.given = s.given + k, !.tx = s.tx + tx, !.dropped = s.dropped + dropped]
<1>3. k \in Int /\ n \in Int /\ rest \in Seq(Frame) /\ Len(rest) = n - k
  <2>1. p \in Seq(Frame) /\ n \in Nat
    BY SMTT(30), SMTT(60)
  <2> HIDE DEF p
  <2> QED
    BY <2>1, Parts, SMTT(30), SMTT(60)
<1>4. eng # "rxonly" /\ After("tx") = "free" /\ st[c].part = {} /\ n <= Burst
  BY <1>1, PhaseOrder, SMTT(30), SMTT(60) DEF PhaseOK
<1>5. st' = [st EXCEPT ![c] = r] /\ st'[c] = r
  <2>1. st' = [st EXCEPT ![c] = r]
    BY <1>2, <1>4, Zenon, ZenonT(40)
  <2> HIDE DEF r
  <2> QED
    BY <2>1 DEF EngTypes
<1>6. stats' = [stats EXCEPT ![c] = u] /\ stats'[c] = u
  <2>1. stats' = [stats EXCEPT ![c] = u]
    BY <1>2, <1>3, Zenon, ZenonT(40)
  <2> HIDE DEF u
  <2> QED
    BY <2>1 DEF EngTypes
<1>7. /\ nic' = [nic EXCEPT ![c] = nic[c] \cup MbufsOf(SubSeq(p, 1, k))]
      /\ next_flow' = FlowAfter(n - k)
      /\ last_flow' = IF k > 0 THEN p[k].flow ELSE last_flow
  BY <1>2, <1>3, Zenon, ZenonT(40)
<1>8. /\ again \in BOOLEAN /\ left \in Int /\ pc \in {"tx", "free"} /\ tx \in Int
      /\ (again => eng = "mac_retry") /\ tx = (IF eng = "ieee1588" THEN n ELSE k)
      /\ pc = (IF again THEN "tx" ELSE "free")
  BY <1>3, SMTT(30), SMTT(60)
<1>9. dropped \in Int
  BY <1>3, <1>8 DEF Dropped
<1> HIDE DEF again, left, pc, tx, rest
<1>10. r \in Stream /\ r.pc = pc /\ r.pkts = rest /\ r.part = {} /\ r.left = left
  BY <1>3, <1>4, <1>8, Zenon, ZenonT(40) DEF Stream, Pcs
<1>11. u \in Counters /\ Adds(s, u, 0, tx, dropped, 0, 0, k)
  <2> HIDE DEF dropped
  <2>1. s.given + k \in Int /\ s.tx + tx \in Int /\ s.dropped + dropped \in Int
    BY <1>3, <1>8, <1>9, SMTT(30), SMTT(60) DEF Integral
  <2>2. u \in Counters
    BY <2>1, Zenon, ZenonT(40) DEF Counters
  <2>3. /\ u.given = s.given + k /\ u.tx = s.tx + tx /\ u.dropped = s.dropped + dropped
        /\ u.rx = s.rx /\ u.made = s.made /\ u.gone = s.gone
    BY DEF Counters
  <2> HIDE DEF u
  <2>4. s.rx = s.rx + 0 /\ s.made = s.made + 0 /\ s.gone = s.gone + 0
    BY SMTT(30), SMTT(60) DEF Integral
  <2> QED
    BY <2>2, <2>3, <2>4, SMTT(30), SMTT(60) DEF Adds
<1> HIDE DEF r, u
<1>12. OnlyStream(c)
  BY <1>5, <1>6, <1>10, <1>11, ZenonT(40), ZenonT(60) DEF OnlyStream
<1>13. PhaseOK(st'[c].pc, st'[c].pkts, st'[c].part, st'[c].left)
  BY <1>3, <1>4, <1>5, <1>8, <1>10, EnginesAssumption, SMTT(30), SMTT(60) DEF PhaseOK
<1>14. StatsOK(st'[c].pc, Len(st'[c].pkts), stats'[c])
  <2>1. Integral(s) /\ Integral(u) /\ StatsOK("tx", n, s)
    BY <1>1, <1>11, Zenon, ZenonT(40) DEF Counters, Integral
  <2>2. dropped = Dropped(n - k, again)
    BY Zenon, ZenonT(40)
  <2> HIDE DEF dropped, s, n
  <2>3. StatsOK(IF again THEN "tx" ELSE "free", n - k, u)
    BY <1>3, <1>8, <1>9, <1>11, <2>1, <2>2, SentAddsUp, ZenonT(40), ZenonT(60)
  <2> QED
    BY <1>3, <1>5, <1>6, <1>8, <1>10, <2>3, Zenon, ZenonT(40)
<1>15. nic' \in [Streams -> SUBSET Mbufs]
  <2>1. MbufsOf(SubSeq(p, 1, k)) \in SUBSET Mbufs
    <3> DEFINE q == SubSeq(p, 1, k)
    <3>1. q \in Seq(Frame)
      <4>1. p \in Seq(Frame) /\ n \in Nat
        OBVIOUS
      <4> HIDE DEF p
      <4> QED
        BY <4>1, SMTT(30), SMTT(60)
    <3> HIDE DEF q
    <3>2. \A i \in 1 .. Len(q) : q[i].mb \in SUBSET Mbufs
      <4>1. \A i \in 1 .. Len(q) : q[i] \in Frame
        BY <3>1, SMTT(30), SMTT(60)
      <4> QED
        BY <4>1, SMTT(30), SMTT(60) DEF Frame
    <3> QED
      BY <3>2, SMTT(30), SMTT(60) DEF MbufsOf, q
  <2> QED
    BY <1>7, <2>1, SMTT(30), SMTT(60)
<1>16. next_flow' \in Int /\ last_flow' \in Int
  <2>1. (next_flow - (n - k)) % NbFlows \in Int
    <3>1. next_flow - (n - k) \in Int /\ NbFlows \in Nat \ {0}
      BY <1>3, EnginesAssumption, SMTT(30), SMTT(60)
    <3>2. (next_flow - (n - k)) % NbFlows \in 0 .. NbFlows - 1
      BY <3>1, Division, Zenon, ZenonT(40)
    <3> QED
      BY <3>1, <3>2, SMTT(30), SMTT(60)
  <2>2. k > 0 => p[k] \in Frame
    BY <1>3, SMTT(30), SMTT(60)
  <2>3. k > 0 => p[k].flow \in Int
    BY <2>2, SMTT(30), SMTT(60) DEF Frame
  <2> QED
    BY <1>7, <2>1, <2>3, SMTT(30), SMTT(60) DEF FlowAfter
<1>17. BurstInv'
  BY <1>1, <1>12, <1>13, <1>14, <1>15, <1>16, StreamStep, Zenon, ZenonT(40)
<1>18. eng = "flowgen" => pc = "free"
  BY <1>8, Zenon, ZenonT(40)
<1> QED
  BY <1>1, <1>4, <1>5, <1>7, <1>10, <1>12, <1>17, <1>18, Zenon, ZenonT(40) DEF rest

\* The packets sift keeps: those of a set of positions, in their order.
Kept(p, K) == [i \in 1 .. Cardinality(K) |-> p[Ranked(K, i)]]

\* What sift keeps is a sequence of packets, not longer than the burst.
LEMMA KeptIs ==
  ASSUME NEW p \in Seq(Frame), NEW K \in SUBSET (1 .. Len(p))
  PROVE  /\ IsFiniteSet(K) /\ K \in SUBSET Nat /\ Cardinality(K) \in 0 .. Len(p)
         /\ Kept(p, K) \in Seq(Frame) /\ Len(Kept(p, K)) = Cardinality(K)
<1>1. Len(p) \in Nat
  OBVIOUS
<1>2. IsFiniteSet(1 .. Len(p)) /\ Cardinality(1 .. Len(p)) = Len(p)
  <2> DEFINE n == Len(p)
  <2>1. n \in Nat
    BY <1>1
  <2> HIDE DEF n
  <2>2. IsFiniteSet(1 .. n) /\ Cardinality(1 .. n) = n
    BY <2>1, FS_Interval
  <2> QED
    BY <2>2 DEF n
<1>3. IsFiniteSet(K) /\ K \in SUBSET Nat /\ Cardinality(K) \in 0 .. Len(p)
  <2>1. IsFiniteSet(K) /\ Cardinality(K) <= Len(p)
    BY <1>2, FS_Subset, Zenon, ZenonT(40)
  <2>2. Cardinality(K) \in Nat
    BY <2>1, FS_CardinalityType
  <2> QED
    BY <1>1, <2>1, <2>2
<1>4. \A i \in 1 .. Cardinality(K) : Ranked(K, i) \in 1 .. Len(p)
  BY <1>3, Ranking, Zenon, ZenonT(40)
<1>5. Kept(p, K) \in [1 .. Cardinality(K) -> Frame]
  BY <1>4 DEF Kept
<1> QED
  BY <1>3, <1>5

\* sift: the packets that are not answered are freed.
LEMMA SiftStep ==
  ASSUME BurstInv, NEW c \in Streams, sift(c)
  PROVE  /\ BurstInv' /\ st[c].pc = "sift"
         /\ UNCHANGED <<eng, nic, next_flow, last_flow>> /\ OnlyStream(c)
         /\ st'[c].part = st[c].part
         /\ \E K \in SUBSET (1 .. Len(st[c].pkts)) :
              /\ mempool' = Give(mempool, MbufsOf(st[c].pkts) \ MbufsOf(Kept(st[c].pkts, K)))
              /\ st'[c].pkts = Kept(st[c].pkts, K)
<1> USE StreamFacts
<1> DEFINE p == st[c].pkts
<1>1. st[c].pc = "sift" /\ UNCHANGED <<eng, nic, next_flow, last_flow>>
  BY DEF sift
<1>2. PICK K \in SUBSET (1 .. Len(p)) :
        /\ mempool' = Give(mempool, MbufsOf(p) \ MbufsOf(Kept(p, K)))
        /\ st' = [st EXCEPT ![c].pkts = Kept(p, K), ![c].pc = IF K = {} THEN "idle" ELSE After("sift")]
        /\ stats' = Bump(c, "gone", Len(p) - Len(Kept(p, K)))
  BY Zenon, ZenonT(40) DEF sift, Kept, Ranked
<1> DEFINE q == Kept(p, K)
           pc == IF K = {} THEN "idle" ELSE "tx"
           r == [st[c] EXCEPT !.pkts = q, !.pc = pc]
<1>3. /\ IsFiniteSet(K) /\ Cardinality(K) \in 0 .. Len(p)
      /\ q \in Seq(Frame) /\ Len(q) = Cardinality(K)
  BY <1>2, KeptIs
<1>4. eng \in {"icmpecho", "ieee1588"} /\ After("sift") = "tx" /\ Len(p) <= Burst /\ st[c].part = {}
  BY <1>1, PhaseOrder, Zenon, ZenonT(40) DEF PhaseOK
<1>5. st' = [st EXCEPT ![c] = r] /\ st'[c] = r
  <2>1. st' = [st EXCEPT ![c] = r]
    BY <1>2, <1>4, Zenon, ZenonT(40)
  <2> HIDE DEF r
  <2> QED
    BY <2>1 DEF EngTypes
<1>6. pc \in {"idle", "tx"} /\ (pc = "idle" => K = {})
  OBVIOUS
<1> HIDE DEF pc, q
<1>7. r \in Stream /\ r.pc = pc /\ r.pkts = q /\ r.part = st[c].part /\ r.left = st[c].left
  BY <1>3, <1>6, Zenon, ZenonT(40) DEF Stream, Pcs
<1> HIDE DEF r
<1>8. Len(p) \in Int /\ Len(q) \in Int /\ Len(q) <= Len(p) /\ Len(p) - Len(q) \in Int
  BY <1>3, SMTT(30), SMTT(60)
<1>9. /\ stats' = [stats EXCEPT ![c] = stats'[c]] /\ stats'[c] \in Counters
      /\ Integral(stats'[c]) /\ Adds(stats[c], stats'[c], 0, 0, 0, 0, Len(p) - Len(q), 0)
  <2>1. stats' = Bump(c, "gone", Len(p) - Len(q))
    BY <1>2 DEF q
  <2> QED
    BY <1>8, <2>1, Bumped, Zenon, ZenonT(40)
<1>10. OnlyStream(c)
  BY <1>5, <1>7, <1>9, Zenon, ZenonT(40) DEF OnlyStream
<1>11. PhaseOK(st'[c].pc, st'[c].pkts, st'[c].part, st'[c].left)
  <2>1. pc = "idle" => q = <<>>
    <3>1. K = {} => Len(q) = 0
      BY <1>3, FS_EmptySet, SMTT(30), SMTT(60)
    <3>2. Len(q) = 0 => q = <<>>
      BY <1>3
    <3> QED
      BY <1>6, <3>1, <3>2, SMTT(30), SMTT(60)
  <2>2. Len(q) <= Burst
    BY <1>4, <1>8, EnginesAssumption, SMTT(30), SMTT(60)
  <2> QED
    BY <1>4, <1>5, <1>6, <1>7, <2>1, <2>2, Zenon, ZenonT(40) DEF PhaseOK
<1>12. StatsOK(st'[c].pc, Len(st'[c].pkts), stats'[c])
  <2>1. StatsOK("sift", Len(p), stats[c]) /\ Integral(stats[c])
    BY <1>1
  <2>2. pc \in Pcs \ {"free"} /\ "sift" \in Pcs \ {"free"} /\ eng # "flowgen"
    BY <1>4, <1>6, SMTT(30), SMTT(60) DEF Pcs
  <2>3. StatsOK(pc, Len(p) - (Len(p) - Len(q)), stats'[c])
    BY <1>8, <1>9, <2>1, <2>2, GoneAddsUp, SMTT(30), SMTT(60)
  <2>4. Len(p) - (Len(p) - Len(q)) = Len(q)
    BY <1>8
  <2> QED
    BY <1>5, <1>7, <2>3, <2>4, SMTT(30), SMTT(60)
<1>13. mempool' \in [Mbufs -> Int]
  BY <1>2, PoolTypes
<1>14. BurstInv'
  BY <1>1, <1>10, <1>11, <1>12, <1>13, StreamStep, Zenon, ZenonT(40)
<1> QED
  BY <1>1, <1>2, <1>5, <1>7, <1>10, <1>14, ZenonT(40), ZenonT(60) DEF q

\* tx_done: the device frees what it sent.
LEMMA DoneStep ==
  ASSUME BurstInv, NEW c \in Streams, tx_done(c)
  PROVE  BurstInv'
<1>1. /\ mempool' = Give(mempool, nic[c]) /\ nic' = [nic EXCEPT ![c] = {}]
      /\ UNCHANGED <<eng, st, stats, next_flow, last_flow>>
  BY DEF tx_done
<1>2. EngTypes'
  <2>1. mempool' \in [Mbufs -> Int]
    BY <1>1, PoolTypes, StreamFacts, Zenon, ZenonT(40)
  <2>2. nic' \in [Streams -> SUBSET Mbufs]
    BY <1>1, StreamFacts
  <2> QED
    BY <1>1, <2>1, <2>2 DEF BurstInv, EngTypes
<1>3. InPhase' /\ StatsInv'
  BY <1>1, Zenon, ZenonT(40) DEF BurstInv, InPhase, StatsInv, PhaseOK, StatsOK
<1> QED
  BY <1>2, <1>3 DEF BurstInv

\* Only streams run.
LEMMA RunningStreams == Running \subseteq Streams
  BY EnginesAssumption DEF Running

\* The invariant of a call: it holds when forwarding starts,
LEMMA BurstInvInit == EngInit => BurstInv
<1> SUFFICES ASSUME EngInit PROVE BurstInv
  OBVIOUS
<1>1. Idle \in Stream /\ Idle.pc = "idle" /\ Idle.pkts = <<>> /\ Idle.part = {}
  BY DEF Idle, Stream, Pcs
<1> DEFINE z == [rx |-> 0, tx |-> 0, dropped |-> 0, made |-> 0, gone |-> 0, given |-> 0]
<1>2. z \in Counters
  BY DEF Counters
<1>3. EngTypes
  <2> HIDE DEF z
  <2>1. stats = [c \in Streams |-> z]
    BY DEF EngInit, z
  <2> QED
    BY <1>1, <1>2, <2>1, EnginesAssumption DEF EngInit, EngTypes
<1>4. ASSUME NEW c \in Streams PROVE st[c] = Idle /\ stats[c] = z
  BY DEF EngInit
<1>5. InPhase
  BY <1>1, <1>4, EnginesAssumption DEF InPhase, PhaseOK
<1>6. StatsInv
  BY <1>1, <1>4 DEF StatsInv, StatsOK
<1> QED
  BY <1>3, <1>5, <1>6 DEF BurstInv

\* and every step of every engine keeps it.
LEMMA BurstInvNext == BurstInv /\ [EngNext]_evars => BurstInv'
<1> SUFFICES ASSUME BurstInv, [EngNext]_evars PROVE BurstInv'
  BY SMTT(30), SMTT(60)
<1>1. CASE EngNext
  <2>1. PICK c \in Running : rx_burst(c) \/ start_making(c) \/ packet_fwd(c) \/ tx_done(c)
    BY <1>1 DEF EngNext
  <2>2. c \in Streams
    BY RunningStreams
  <2> QED
    BY SMTT(30), SMTT(60), <2>1, <2>2, RxStep, StartStep, DiscardStep, SiftStep, AllocStep, StopStep, KeepStep, CopyStep,
       CopiedStep, TxStep, FreeStep, DoneStep DEF packet_fwd
<1>2. CASE UNCHANGED evars
  BY <1>2, Zenon, ZenonT(40) DEF evars, BurstInv, EngTypes, InPhase, StatsInv, PhaseOK, StatsOK
<1> QED
  BY <1>1, <1>2

\* Whenever the engine of a stream has returned, rx_packets, tx_packets and
\* fwd_dropped account for every packet, whatever the device accepted.
THEOREM CountersAddUp == EngSpec => []StatsAddUp
<1>1. BurstInv => StatsAddUp
  <2> SUFFICES ASSUME BurstInv, NEW c \in Streams, st[c].pc = "idle"
               PROVE  LET s == stats[c]
                      IN CASE eng = "ieee1588" -> s.rx = s.tx + s.gone /\ s.tx = s.given + s.dropped
                           [] eng = "flowgen" -> s.rx = s.gone /\ s.tx = s.given /\ s.dropped = 0
                           [] OTHER -> s.rx + s.made = s.tx + s.dropped + s.gone /\ s.tx = s.given
    BY DEF StatsAddUp
  <2>1. StatsOK("idle", 0, stats[c]) /\ Integral(stats[c])
    BY StreamFacts DEF PhaseOK
  <2> QED
    BY <2>1 DEF StatsOK, Integral
<1> QED
  BY <1>1, BurstInvInit, BurstInvNext, PTL DEF EngSpec

-----------------------------------------------------------------------------
(* The flows of flowgen *)

(* While a burst is made and offered, its packets carry the flows after the last
   one accepted and next_flow follows them; otherwise next_flow follows the last
   one accepted. *)
FlowInv ==
  eng = "flowgen" =>
    /\ next_flow \in 0 .. NbFlows - 1 /\ last_flow \in 0 .. NbFlows - 1
    /\ \A c \in Running :
         /\ st[c].pc \in {"alloc", "tx"} =>
              /\ \A i \in 1 .. Len(st[c].pkts) : st[c].pkts[i].flow = (last_flow + i) % NbFlows
              /\ next_flow = (last_flow + Len(st[c].pkts) + 1) % NbFlows
         /\ st[c].pc \notin {"alloc", "tx"} => next_flow = (last_flow + 1) % NbFlows

\* A number and its remainder.
LEMMA Residue ==
  ASSUME NEW n \in Nat \ {0}, NEW q \in Int, NEW r \in 0 .. n - 1
  PROVE  (n * q + r) % n = r
  BY SMTT(30), SMTT(60)

\* A remainder may be replaced by its number in a sum.
LEMMA ResidueAdd ==
  ASSUME NEW n \in Nat \ {0}, NEW a \in Int, NEW b \in Int
  PROVE  ((a % n) + b) % n = (a + b) % n
<1> DEFINE r == a % n
           q == a \div n
           s == (r + b) % n
           t == (r + b) \div n
<1>1. r \in 0 .. n - 1 /\ q \in Int /\ a = n * q + r
  BY Division
<1>2. r + b \in Int
  BY <1>1
<1>3. s \in 0 .. n - 1 /\ t \in Int /\ r + b = n * t + s
  BY <1>2, Division, Zenon, ZenonT(40)
<1> HIDE DEF r, q, s, t
<1>4. q + t \in Int /\ n * q \in Int /\ n * t \in Int /\ n * (q + t) = n * q + n * t
  BY <1>1, <1>3
<1>5. a + b = n * (q + t) + s
  BY <1>1, <1>3, <1>4
<1>6. (a + b) % n = s
  BY <1>3, <1>4, <1>5, Residue, Zenon, ZenonT(40)
<1> QED
  BY <1>6 DEF r, s

\* The remainder of the next number.
LEMMA ResidueNext ==
  ASSUME NEW n \in Nat \ {0}, NEW a \in Int
  PROVE  ((a % n) + 1) % n = (a + 1) % n
<1>1. \A b \in Int : ((a % n) + b) % n = (a + b) % n
  BY ResidueAdd, Zenon, ZenonT(40)
<1>2. 1 \in Int
  OBVIOUS
<1> QED
  BY <1>1, <1>2, Zenon, ZenonT(40)

\* The one stream flowgen runs.
LEMMA OneRunning ==
  ASSUME eng = "flowgen", NEW c \in Running, NEW d \in Running
  PROVE  c = d
  BY Zenon, ZenonT(40) DEF Running

\* What FlowInv says of one stream.
FlowsOf(pc, pkts) ==
  /\ pc \in {"alloc", "tx"} =>
       /\ \A i \in 1 .. Len(pkts) : pkts[i].flow = (last_flow + i) % NbFlows
       /\ next_flow = (last_flow + Len(pkts) + 1) % NbFlows
  /\ pc \notin {"alloc", "tx"} => next_flow = (last_flow + 1) % NbFlows

\* The flows of a step that changes one stream only.
LEMMA FlowStep ==
  ASSUME eng = "flowgen", NEW c \in Running, eng' = eng,
         next_flow' \in 0 .. NbFlows - 1, last_flow' \in 0 .. NbFlows - 1,
         FlowsOf(st[c].pc, st[c].pkts)'
  PROVE  FlowInv'
<1>1. Running' = Running
  BY DEF Running
<1> QED
  BY <1>1, OneRunning, SMTT(30), SMTT(60) DEF FlowInv, FlowsOf

\* What the invariant says of the stream flowgen runs.
LEMMA FlowFacts ==
  ASSUME FlowInv, eng = "flowgen", NEW c \in Running
  PROVE  /\ next_flow \in 0 .. NbFlows - 1 /\ last_flow \in 0 .. NbFlows - 1
         /\ FlowsOf(st[c].pc, st[c].pkts)
  BY DEF FlowInv, FlowsOf

\* alloc: the new packet carries the next flow.
LEMMA FlowAlloc ==
  ASSUME BurstInv, FlowInv, eng = "flowgen", NEW c \in Running, alloc(c)
  PROVE  FlowInv'
<1>1. /\ c \in Streams /\ next_flow \in Int /\ last_flow \in Int /\ NbFlows \in Nat \ {0}
      /\ Len(st[c].pkts) \in Nat /\ st[c].pkts \in Seq(Frame)
  BY RunningStreams, StreamFacts, EnginesAssumption, SMTT(30), SMTT(60)
<1> DEFINE n == Len(st[c].pkts)
<1>2. /\ st[c].pc = "alloc" /\ st'[c].pc = "alloc" /\ eng' = eng /\ last_flow' = last_flow
      /\ next_flow' = (next_flow + 1) % NbFlows
  BY <1>1, AllocStep
<1>3. PICK m : st'[c].pkts = Append(st[c].pkts, [mb |-> st[c].part \cup {m}, flow |-> next_flow])
  BY <1>1, AllocStep, Zenon, ZenonT(40)
<1>4. /\ Len(st'[c].pkts) = n + 1 /\ st'[c].pkts[n + 1].flow = next_flow
      /\ \A i \in 1 .. n : st'[c].pkts[i] = st[c].pkts[i]
  BY <1>1, <1>3
<1>5. /\ \A i \in 1 .. n : st[c].pkts[i].flow = (last_flow + i) % NbFlows
      /\ next_flow = (last_flow + n + 1) % NbFlows /\ last_flow \in 0 .. NbFlows - 1
  BY <1>2, FlowFacts DEF FlowsOf
<1> HIDE DEF n
<1>6. n \in Nat
  BY <1>1 DEF n
<1>7. next_flow' = (last_flow + (n + 1) + 1) % NbFlows
  <2>1. last_flow + n + 1 \in Int /\ (last_flow + n + 1) + 1 = last_flow + (n + 1) + 1
    BY <1>1, <1>6
  <2>2. (((last_flow + n + 1) % NbFlows) + 1) % NbFlows = ((last_flow + n + 1) + 1) % NbFlows
    BY <1>1, <2>1, ResidueNext
  <2> QED
    BY <1>2, <1>5, <2>1, <2>2
<1>8. next_flow' \in 0 .. NbFlows - 1
  <2>1. next_flow + 1 \in Int
    BY <1>1
  <2> QED
    BY <1>1, <1>2, <2>1, Division
<1>9. ASSUME NEW i \in 1 .. n + 1
      PROVE  st'[c].pkts[i].flow = (last_flow + i) % NbFlows
  <2>1. CASE i \in 1 .. n
    BY <1>4, <1>5, <2>1
  <2>2. CASE i = n + 1
    <3>1. last_flow + n + 1 = last_flow + (n + 1)
      BY <1>1, <1>6, SMTT(30), SMTT(60)
    <3> QED
      BY <1>4, <1>5, <2>2, <3>1
  <2> QED
    BY <1>6, <2>1, <2>2
<1>10. FlowsOf(st[c].pc, st[c].pkts)'
  BY <1>2, <1>4, <1>7, <1>9, SMTT(30), SMTT(60) DEF FlowsOf
<1> QED
  BY <1>2, <1>5, <1>8, <1>10, FlowStep, SMTT(30), SMTT(60)

\* tx_burst: next_flow moves back to the first flow that was not sent.
LEMMA FlowTx ==
  ASSUME BurstInv, FlowInv, eng = "flowgen", NEW c \in Running, tx_burst(c)
  PROVE  FlowInv'
<1>1. /\ c \in Streams /\ next_flow \in Int /\ last_flow \in Int /\ NbFlows \in Nat \ {0}
      /\ Len(st[c].pkts) \in Nat
  BY RunningStreams, StreamFacts, EnginesAssumption, SMTT(30), SMTT(60)
<1> DEFINE n == Len(st[c].pkts)
<1>2. st[c].pc = "tx" /\ st'[c].pc = "free" /\ eng' = eng
  BY <1>1, TxStep, SMTT(30), SMTT(60)
<1>3. PICK k \in 0 .. n :
        /\ next_flow' = FlowAfter(n - k)
        /\ last_flow' = IF k > 0 THEN st[c].pkts[k].flow ELSE last_flow
  BY <1>1, TxStep
<1>4. /\ \A i \in 1 .. n : st[c].pkts[i].flow = (last_flow + i) % NbFlows
      /\ next_flow = (last_flow + n + 1) % NbFlows /\ last_flow \in 0 .. NbFlows - 1
  BY <1>2, FlowFacts DEF FlowsOf
<1> HIDE DEF n
<1>5. n \in Nat /\ k \in Int /\ k >= 0 /\ k <= n
  BY <1>1 DEF n
<1>6. next_flow' = (next_flow - (n - k)) % NbFlows
  BY <1>3 DEF FlowAfter
<1>7. next_flow' = (last_flow + k + 1) % NbFlows /\ next_flow' \in 0 .. NbFlows - 1
  <2>1. /\ last_flow + n + 1 \in Int /\ 0 - (n - k) \in Int
        /\ next_flow - (n - k) = next_flow + (0 - (n - k))
        /\ (last_flow + n + 1) + (0 - (n - k)) = last_flow + k + 1 /\ last_flow + k + 1 \in Int
    BY <1>1, <1>5
  <2>2. (((last_flow + n + 1) % NbFlows) + (0 - (n - k))) % NbFlows
          = ((last_flow + n + 1) + (0 - (n - k))) % NbFlows
    BY <1>1, <2>1, ResidueAdd, Zenon, ZenonT(40)
  <2>3. (last_flow + k + 1) % NbFlows \in 0 .. NbFlows - 1
    BY <1>1, <2>1, Division
  <2> QED
    BY <1>4, <1>6, <2>1, <2>2, <2>3, SMTT(30), SMTT(60)
<1>8. last_flow' \in 0 .. NbFlows - 1 /\ next_flow' = (last_flow' + 1) % NbFlows
  <2>1. CASE k > 0
    <3>1. k \in 1 .. n /\ last_flow + k \in Int /\ (last_flow + k) + 1 = last_flow + k + 1
      BY <1>1, <1>5, <2>1
    <3>2. last_flow' = (last_flow + k) % NbFlows
      BY <1>3, <1>4, <2>1, <3>1
    <3>3. (((last_flow + k) % NbFlows) + 1) % NbFlows = ((last_flow + k) + 1) % NbFlows
      BY <1>1, <3>1, ResidueNext, Zenon, ZenonT(40)
    <3>4. (last_flow + k) % NbFlows \in 0 .. NbFlows - 1
      BY <1>1, <3>1, Division
    <3> QED
      BY <1>7, <3>1, <3>2, <3>3, <3>4
  <2>2. CASE k = 0
    <3>1. last_flow' = last_flow /\ last_flow + k + 1 = last_flow + 1
      BY <1>1, <1>3, <2>2
    <3> QED
      BY <1>4, <1>7, <3>1
  <2> QED
    BY <1>5, <2>1, <2>2
<1>9. FlowsOf(st[c].pc, st[c].pkts)'
  BY <1>2, <1>8, SMTT(30), SMTT(60) DEF FlowsOf
<1> QED
  BY <1>2, <1>7, <1>8, <1>9, FlowStep, SMTT(30), SMTT(60)

\* The steps that leave the flows alone.
LEMMA FlowSame ==
  ASSUME FlowInv, eng = "flowgen", NEW c \in Running, UNCHANGED <<eng, next_flow, last_flow>>,
         NbFlows \in Nat,
         \/ st[c].pc \notin {"alloc", "tx"} /\ st'[c].pc \notin {"alloc", "tx"}
         \/ st[c].pc \notin {"alloc", "tx"} /\ st'[c].pkts = <<>>
         \/ st[c].pc = "alloc" /\ st'[c].pc = "tx" /\ st'[c].pkts = st[c].pkts
         \/ st'[c] = st[c]
  PROVE  FlowInv'
<1>1. /\ next_flow \in 0 .. NbFlows - 1 /\ last_flow \in 0 .. NbFlows - 1
      /\ FlowsOf(st[c].pc, st[c].pkts)
  BY FlowFacts
<1>2. Len(<<>>) = 0 /\ 1 .. 0 = {} /\ last_flow + 0 + 1 = last_flow + 1
  BY <1>1
<1>3. FlowsOf(st[c].pc, st[c].pkts)'
  <2>1. CASE st[c].pc \notin {"alloc", "tx"} /\ st'[c].pc \notin {"alloc", "tx"}
    BY <1>1, <2>1, Zenon, ZenonT(40) DEF FlowsOf
  <2>2. CASE st[c].pc \notin {"alloc", "tx"} /\ st'[c].pkts = <<>>
    BY <1>1, <1>2, <2>2, SMTT(30), SMTT(60) DEF FlowsOf
  <2>3. CASE st[c].pc = "alloc" /\ st'[c].pc = "tx" /\ st'[c].pkts = st[c].pkts
    BY <1>1, <2>3 DEF FlowsOf
  <2>4. CASE st'[c] = st[c]
    BY <1>1, <2>4, Zenon, ZenonT(40) DEF FlowsOf
  <2> QED
    BY <2>1, <2>2, <2>3, <2>4
<1> QED
  BY <1>1, <1>3, FlowStep, SMTT(30), SMTT(60)

\* The invariant of the flows: it holds when forwarding starts,
LEMMA FlowInvInit == EngInit => FlowInv
<1> SUFFICES ASSUME EngInit, eng = "flowgen" PROVE FlowInv
  BY DEF FlowInv
<1>1. NbFlows \in Nat \ {0} /\ next_flow = 0 /\ last_flow = NbFlows - 1
  BY EnginesAssumption DEF EngInit
<1>2. (last_flow + 1) % NbFlows = 0
  <2>1. last_flow + 1 = NbFlows * 1 + 0 /\ 0 \in 0 .. NbFlows - 1 /\ 1 \in Int
    BY <1>1
  <2> QED
    BY <1>1, <2>1, Residue
<1>3. ASSUME NEW c \in Running PROVE st[c].pc = "idle"
  BY RunningStreams DEF EngInit, Idle
<1>4. next_flow \in 0 .. NbFlows - 1 /\ last_flow \in 0 .. NbFlows - 1
  BY <1>1
<1> QED
  BY <1>1, <1>2, <1>3, <1>4, SMTT(30), SMTT(60) DEF FlowInv

\* and every step keeps it.
LEMMA FlowInvNext == BurstInv /\ FlowInv /\ [EngNext]_evars => FlowInv'
<1> SUFFICES ASSUME BurstInv, FlowInv, [EngNext]_evars PROVE FlowInv'
  BY SMTT(30), SMTT(60)
<1>1. CASE UNCHANGED evars
  BY <1>1 DEF evars, FlowInv, Running
<1>2. ASSUME NEW c \in Running,
             rx_burst(c) \/ start_making(c) \/ packet_fwd(c) \/ tx_done(c)
      PROVE  FlowInv'
  <2>1. c \in Streams /\ NbFlows \in Nat
    BY RunningStreams, EnginesAssumption
  <2>2. eng' = eng
    BY <1>2, ZenonT(40), ZenonT(60) DEF rx_burst, start_making, packet_fwd, tx_done, discard, sift, alloc, stop_making,
      keep_packet, pkt_copy_split, all_copied, tx_burst, free_unsent
  <2>3. CASE eng # "flowgen"
    BY <2>2, <2>3, SMTT(30), SMTT(60) DEF FlowInv
  <2>4. CASE eng = "flowgen"
    <3> USE <2>1, <2>4
    <3>1. CASE rx_burst(c)
      BY <3>1, RxStep, FlowSame DEF NextPhase
    <3>2. CASE start_making(c)
      BY <3>2, StartStep, Zenon, ZenonT(40)
    <3>3. CASE discard(c)
      BY <3>3, DiscardStep, FlowSame, Zenon, ZenonT(40)
    <3>4. CASE sift(c)
      BY <3>4, StreamFacts, SMTT(30), SMTT(60) DEF sift, PhaseOK
    <3>5. CASE stop_making(c)
      BY <3>5, StopStep, FlowSame
    <3>6. CASE keep_packet(c) \/ pkt_copy_split(c) \/ all_copied(c)
      BY <3>6, KeepStep, CopyStep, CopiedStep, SMTT(30), SMTT(60)
    <3>7. CASE free_unsent(c)
      BY <3>7, FreeStep, FlowSame, SMTT(30), SMTT(60)
    <3>8. CASE tx_done(c)
      BY <3>8, FlowSame DEF tx_done
    <3> QED
      BY <1>2, <3>1, <3>2, <3>3, <3>4, <3>5, <3>6, <3>7, <3>8, FlowAlloc, FlowTx, SMTT(30), SMTT(60) DEF packet_fwd
  <2> QED
    BY <2>3, <2>4
<1> QED
  BY <1>1, <1>2 DEF EngNext

\* pkt_burst_flow_gen sends consecutive flows, however few packets of a burst are
\* accepted and however often next_flow moves back.
THEOREM FlowsInOrder == EngSpec => []FlowsConsecutive
<1>1. BurstInv /\ FlowInv => FlowsConsecutive
  <2> SUFFICES ASSUME BurstInv, FlowInv, eng = "flowgen", NEW c \in Running
               PROVE  /\ st[c].pc \in {"alloc", "tx"} =>
                           \A i \in DOMAIN st[c].pkts : st[c].pkts[i].flow = (last_flow + i) % NbFlows
                      /\ st[c].pc = "idle" => next_flow = (last_flow + 1) % NbFlows
    BY DEF FlowsConsecutive
  <2>1. DOMAIN st[c].pkts = 1 .. Len(st[c].pkts)
    BY RunningStreams, StreamFacts, SMTT(30), SMTT(60)
  <2> QED
    BY <2>1, FlowFacts, SMTT(30), SMTT(60) DEF FlowsOf
<1> QED
  BY <1>1, BurstInvInit, BurstInvNext, FlowInvInit, FlowInvNext, PTL DEF EngSpec

-----------------------------------------------------------------------------
(* The mbufs *)

\* The mbufs a stream owns, and that each is in one place of the stream.
Own(c) == nic[c] \cup st[c].part \cup MbufsOf(st[c].pkts)
PairApart(p) == \A i, j \in 1 .. Len(p) : i # j => p[i].mb \cap p[j].mb = {}
Apart(c) ==
  /\ nic[c] \cap st[c].part = {} /\ nic[c] \cap MbufsOf(st[c].pkts) = {}
  /\ st[c].part \cap MbufsOf(st[c].pkts) = {}
  /\ PairApart(st[c].pkts)

(* Every mbuf is in the mempool, once, or in one place of one stream: its transmit
   queue, its unfinished chain or one packet of its array. *)
MbufInv ==
  /\ \A c \in Streams : Apart(c)
  /\ \A c, d \in Streams : c # d => Own(c) \cap Own(d) = {}
  /\ \A m \in Mbufs : mempool[m] = IF \E c \in Streams : m \in Own(c) THEN 0 ELSE 1

\* The mbufs of an array of packets.
LEMMA MbufsAre ==
  ASSUME NEW p, NEW m
  PROVE  m \in MbufsOf(p) <=> \E i \in 1 .. Len(p) : m \in p[i].mb
  BY DEF MbufsOf

\* Freeing the first packet of an array.
LEMMA MbufsTail ==
  ASSUME NEW p \in Seq(Frame), p # <<>>, PairApart(p)
  PROVE  /\ MbufsOf(Tail(p)) = MbufsOf(p) \ Head(p).mb
         /\ Head(p).mb \subseteq MbufsOf(p) /\ PairApart(Tail(p))
<1>1. /\ Len(p) \in Nat /\ Len(p) >= 1 /\ Head(p) = p[1] /\ Len(Tail(p)) = Len(p) - 1
      /\ \A i \in 1 .. Len(p) - 1 : Tail(p)[i] = p[i + 1]
  OBVIOUS
<1>2. ASSUME NEW m \in MbufsOf(Tail(p)) PROVE m \in MbufsOf(p) \ Head(p).mb
  <2>1. PICK i \in 1 .. Len(p) - 1 : m \in p[i + 1].mb
    <3>1. PICK i \in 1 .. Len(Tail(p)) : m \in Tail(p)[i].mb
      BY MbufsAre, Zenon, ZenonT(40)
    <3> QED
      BY <1>1, <3>1
  <2>2. i + 1 \in 1 .. Len(p) /\ i + 1 # 1 /\ 1 \in 1 .. Len(p)
    BY <1>1
  <2> QED
    BY <1>1, <2>1, <2>2, MbufsAre DEF PairApart
<1>3. ASSUME NEW m \in MbufsOf(p) \ Head(p).mb PROVE m \in MbufsOf(Tail(p))
  <2>1. PICK i \in 1 .. Len(p) : m \in p[i].mb
    BY MbufsAre
  <2>2. i - 1 \in 1 .. Len(p) - 1 /\ (i - 1) + 1 = i
    BY <1>1, <2>1
  <2>3. m \in Tail(p)[i - 1].mb
    BY <1>1, <2>1, <2>2
  <2> QED
    BY <1>1, <2>2, <2>3, MbufsAre, Zenon, ZenonT(40)
<1>4. Head(p).mb \subseteq MbufsOf(p)
  BY <1>1, MbufsAre
<1>5. PairApart(Tail(p))
  <2> SUFFICES ASSUME NEW i \in 1 .. Len(p) - 1, NEW j \in 1 .. Len(p) - 1, i # j
               PROVE  Tail(p)[i].mb \cap Tail(p)[j].mb = {}
    BY <1>1 DEF PairApart
  <2>1. i + 1 \in 1 .. Len(p) /\ j + 1 \in 1 .. Len(p) /\ i + 1 # j + 1
    BY <1>1, SMTT(30), SMTT(60)
  <2> QED
    BY <1>1, <2>1, SMTT(30), SMTT(60) DEF PairApart
<1> QED
  BY <1>2, <1>3, <1>4, <1>5, SMTT(30), SMTT(60)

\* A packet that was made joins the array.
LEMMA MbufsAppend ==
  ASSUME NEW p \in Seq(Frame), NEW f \in Frame, PairApart(p), f.mb \cap MbufsOf(p) = {}
  PROVE  MbufsOf(Append(p, f)) = MbufsOf(p) \cup f.mb /\ PairApart(Append(p, f))
<1> DEFINE q == Append(p, f)
<1>1. /\ Len(p) \in Nat /\ Len(q) = Len(p) + 1 /\ q[Len(p) + 1] = f
      /\ \A i \in 1 .. Len(p) : q[i] = p[i]
  OBVIOUS
<1> HIDE DEF q
<1>2. 1 .. Len(q) = (1 .. Len(p)) \cup {Len(p) + 1}
  BY <1>1
<1>3. ASSUME NEW m PROVE m \in MbufsOf(q) <=> m \in MbufsOf(p) \cup f.mb
  <2>1. m \in MbufsOf(q) <=> (\E i \in 1 .. Len(p) : m \in q[i].mb) \/ m \in q[Len(p) + 1].mb
    BY <1>2, MbufsAre, SMTT(30), SMTT(60)
  <2>2. (\E i \in 1 .. Len(p) : m \in q[i].mb) <=> m \in MbufsOf(p)
    BY <1>1, MbufsAre, SMTT(30), SMTT(60)
  <2> QED
    BY <1>1, <2>1, <2>2, SMTT(30), SMTT(60)
<1>4. PairApart(q)
  <2> SUFFICES ASSUME NEW i \in 1 .. Len(q), NEW j \in 1 .. Len(q), i # j, NEW m,
                      m \in q[i].mb, m \in q[j].mb
               PROVE  FALSE
    BY DEF PairApart
  <2>1. CASE i \in 1 .. Len(p) /\ j \in 1 .. Len(p)
    BY <1>1, <2>1 DEF PairApart
  <2>2. CASE i = Len(p) + 1 /\ j \in 1 .. Len(p)
    BY <1>1, <2>2, MbufsAre, SMTT(30), SMTT(60)
  <2>3. CASE i \in 1 .. Len(p) /\ j = Len(p) + 1
    BY <1>1, <2>3, MbufsAre
  <2> QED
    BY <1>2, <2>1, <2>2, <2>3, SMTT(30), SMTT(60)
<1> QED
  BY <1>3, <1>4 DEF q

\* A packet is replaced by its copy.
LEMMA MbufsReplace ==
  ASSUME NEW p \in Seq(Frame), NEW i \in 1 .. Len(p), NEW f \in Frame, PairApart(p),
         f.mb \cap MbufsOf(p) = {}
  PROVE  LET q == [p EXCEPT ![i] = f]
         IN MbufsOf(q) = (MbufsOf(p) \ p[i].mb) \cup f.mb /\ PairApart(q)
<1> DEFINE q == [p EXCEPT ![i] = f]
<1>1. /\ Len(q) = Len(p) /\ q[i] = f /\ \A j \in 1 .. Len(p) : j # i => q[j] = p[j]
  OBVIOUS
<1> HIDE DEF q
<1>2. ASSUME NEW m \in MbufsOf(q) PROVE m \in (MbufsOf(p) \ p[i].mb) \cup f.mb
  <2>1. PICK j \in 1 .. Len(p) : m \in q[j].mb
    BY <1>1, MbufsAre, SMTT(30), SMTT(60)
  <2>2. CASE j = i
    BY <1>1, <2>1, <2>2, SMTT(30), SMTT(60)
  <2>3. CASE j # i
    BY <1>1, <2>1, <2>3, MbufsAre, SMTT(30), SMTT(60) DEF PairApart
  <2> QED
    BY <2>2, <2>3, SMTT(30), SMTT(60)
<1>3. ASSUME NEW m \in (MbufsOf(p) \ p[i].mb) \cup f.mb PROVE m \in MbufsOf(q)
  <2>1. CASE m \in f.mb
    BY <1>1, <2>1, MbufsAre
  <2>2. CASE m \in MbufsOf(p) \ p[i].mb
    <3>1. PICK j \in 1 .. Len(p) : m \in p[j].mb
      BY <2>2, MbufsAre, SMTT(30), SMTT(60)
    <3>2. j # i
      BY <2>2, <3>1
    <3> QED
      BY <1>1, <3>1, <3>2, MbufsAre, SMTT(30), SMTT(60)
  <2> QED
    BY <2>1, <2>2, SMTT(30), SMTT(60)
<1>4. PairApart(q)
  <2> SUFFICES ASSUME NEW j \in 1 .. Len(p), NEW k \in 1 .. Len(p), j # k, NEW m,
                      m \in q[j].mb, m \in q[k].mb
               PROVE  FALSE
    BY <1>1 DEF PairApart
  <2>1. CASE j = i
    BY <1>1, <2>1, MbufsAre, SMTT(30), SMTT(60)
  <2>2. CASE k = i
    BY <1>1, <2>2, MbufsAre, SMTT(30), SMTT(60)
  <2>3. CASE j # i /\ k # i
    BY <1>1, <2>3 DEF PairApart
  <2> QED
    BY <2>1, <2>2, <2>3, SMTT(30), SMTT(60)
<1> QED
  BY <1>2, <1>3, <1>4, Zenon, ZenonT(40) DEF q

\* A device takes the first k packets of an array.
LEMMA MbufsParts ==
  ASSUME NEW p \in Seq(Frame), NEW k \in 0 .. Len(p), PairApart(p)
  PROVE  LET a == SubSeq(p, 1, k)
             b == SubSeq(p, k + 1, Len(p))
         IN /\ MbufsOf(p) = MbufsOf(a) \cup MbufsOf(b) /\ MbufsOf(a) \cap MbufsOf(b) = {}
            /\ PairApart(b)
<1> DEFINE a == SubSeq(p, 1, k)
           b == SubSeq(p, k + 1, Len(p))
<1>1. /\ Len(a) = k /\ \A i \in 1 .. k : a[i] = p[i]
      /\ Len(b) = Len(p) - k /\ \A i \in 1 .. Len(p) - k : b[i] = p[k + i]
  BY Parts
<1>2. Len(p) \in Nat /\ k \in Nat /\ k <= Len(p)
  OBVIOUS
<1> HIDE DEF a, b
<1>3. ASSUME NEW m
      PROVE  m \in MbufsOf(a) <=> \E i \in 1 .. Len(p) : i <= k /\ m \in p[i].mb
  <2>1. m \in MbufsOf(a) <=> \E i \in 1 .. k : m \in p[i].mb
    BY <1>1, MbufsAre
  <2> QED
    BY <1>2, <2>1
<1>4. ASSUME NEW m
      PROVE  m \in MbufsOf(b) <=> \E i \in 1 .. Len(p) : i > k /\ m \in p[i].mb
  <2>1. m \in MbufsOf(b) <=> \E i \in 1 .. Len(p) - k : m \in p[k + i].mb
    BY <1>1, MbufsAre, SMTT(30), SMTT(60)
  <2>2. ASSUME NEW i \in 1 .. Len(p) - k, m \in p[k + i].mb
        PROVE  \E j \in 1 .. Len(p) : j > k /\ m \in p[j].mb
    <3>1. k + i \in 1 .. Len(p) /\ k + i > k
      BY <1>2
    <3> QED
      BY <2>2, <3>1
  <2>3. ASSUME NEW j \in 1 .. Len(p), j > k, m \in p[j].mb
        PROVE  \E i \in 1 .. Len(p) - k : m \in p[k + i].mb
    <3>1. j - k \in 1 .. Len(p) - k /\ k + (j - k) = j
      BY <1>2, <2>3, SMTT(30), SMTT(60)
    <3> QED
      BY <2>3, <3>1, Zenon, ZenonT(40)
  <2> QED
    BY <2>1, <2>2, <2>3, SMTT(30), SMTT(60)
<1>5. MbufsOf(p) = MbufsOf(a) \cup MbufsOf(b)
  <2>1. \A i \in 1 .. Len(p) : i <= k \/ i > k
    BY <1>2
  <2> QED
    BY <1>3, <1>4, <2>1, MbufsAre
<1>6. MbufsOf(a) \cap MbufsOf(b) = {}
  <2> SUFFICES ASSUME NEW m \in MbufsOf(a), m \in MbufsOf(b) PROVE FALSE
    BY SMTT(30), SMTT(60)
  <2>1. PICK i \in 1 .. Len(p) : i <= k /\ m \in p[i].mb
    BY <1>3
  <2>2. PICK j \in 1 .. Len(p) : j > k /\ m \in p[j].mb
    BY <1>4
  <2>3. i # j
    BY <1>2, <2>1, <2>2, SMTT(30), SMTT(60)
  <2> QED
    BY <2>1, <2>2, <2>3 DEF PairApart
<1>7. PairApart(b)
  <2> SUFFICES ASSUME NEW i \in 1 .. Len(p) - k, NEW j \in 1 .. Len(p) - k, i # j
               PROVE  b[i].mb \cap b[j].mb = {}
    BY <1>1, SMTT(30), SMTT(60) DEF PairApart
  <2>1. k + i \in 1 .. Len(p) /\ k + j \in 1 .. Len(p) /\ k + i # k + j
    BY <1>2
  <2>2. b[i] = p[k + i] /\ b[j] = p[k + j]
    BY <1>1
  <2> QED
    BY <2>1, <2>2, SMTT(30), SMTT(60) DEF PairApart
<1> QED
  BY <1>5, <1>6, <1>7, SMTT(30), SMTT(60) DEF a, b

\* The requests sift keeps are packets of the array, each once.
LEMMA MbufsKept ==
  ASSUME NEW p \in Seq(Frame), NEW K \in SUBSET (1 .. Len(p)), PairApart(p)
  PROVE  MbufsOf(Kept(p, K)) \subseteq MbufsOf(p) /\ PairApart(Kept(p, K))
<1> DEFINE q == Kept(p, K)
           n == Cardinality(K)
<1>1. /\ Len(q) = n /\ \A i \in 1 .. n : q[i] = p[Ranked(K, i)]
      /\ IsFiniteSet(K) /\ K \in SUBSET Nat
  BY KeptIs, Zenon, ZenonT(40) DEF Kept
<1>2. /\ \A i \in 1 .. n : Ranked(K, i) \in 1 .. Len(p)
      /\ \A i, j \in 1 .. n : Ranked(K, i) = Ranked(K, j) => i = j
  BY <1>1, Ranking, Zenon, ZenonT(40)
<1> HIDE DEF q, n
<1>3. MbufsOf(q) \subseteq MbufsOf(p)
  BY <1>1, <1>2, MbufsAre, SMTT(30), SMTT(60)
<1>4. PairApart(q)
  <2> SUFFICES ASSUME NEW i \in 1 .. n, NEW j \in 1 .. n, i # j
               PROVE  q[i].mb \cap q[j].mb = {}
    BY <1>1 DEF PairApart
  <2>1. Ranked(K, i) \in 1 .. Len(p) /\ Ranked(K, j) \in 1 .. Len(p) /\ Ranked(K, i) # Ranked(K, j)
    BY <1>2
  <2> QED
    BY <1>1, <2>1, SMTT(30), SMTT(60) DEF PairApart
<1> QED
  BY <1>3, <1>4 DEF q

\* A burst is received in distinct mbufs.
LEMMA MbufsReceived ==
  ASSUME NEW n \in Nat, n <= Cardinality(Free)
  PROVE  LET p == [i \in 1 .. n |-> [mb |-> {Ranked(Free, i)}, flow |-> 0]]
         IN MbufsOf(p) = {Ranked(Free, i) : i \in 1 .. n} /\ PairApart(p)
<1> DEFINE p == [i \in 1 .. n |-> [mb |-> {Ranked(Free, i)}, flow |-> 0]]
<1>1. Len(p) = n /\ \A i \in 1 .. n : p[i].mb = {Ranked(Free, i)}
  OBVIOUS
<1> HIDE DEF p
<1>2. MbufsOf(p) = {Ranked(Free, i) : i \in 1 .. n}
  <2>1. ASSUME NEW m PROVE m \in MbufsOf(p) <=> \E i \in 1 .. n : m = Ranked(Free, i)
    BY <1>1, MbufsAre, SMTT(30), SMTT(60)
  <2> QED
    BY <2>1, SMTT(30), SMTT(60)
<1>3. PairApart(p)
  BY <1>1, RankedFree, SMTT(30), SMTT(60) DEF PairApart
<1> QED
  BY <1>2, <1>3, SMTT(30), SMTT(60) DEF p

\* A step that takes the mbufs T from the mempool and returns the mbufs S of its
\* stream to it.
Exchanges(S, T) ==
  \A m \in Mbufs : mempool'[m] = mempool[m] + (IF m \in S THEN 1 ELSE 0) - (IF m \in T THEN 1 ELSE 0)

\* The mempool when the mbufs S come back and the mbufs T leave.
LEMMA PoolExchange ==
  ASSUME mempool \in [Mbufs -> Int], NEW S, NEW T
  PROVE  /\ mempool' = mempool => Exchanges({}, {})
         /\ mempool' = Give(mempool, S) => Exchanges(S, {})
         /\ mempool' = Taken(mempool, T) => Exchanges({}, T)
         /\ mempool' = Give(Taken(mempool, T), S) => Exchanges(S, T)
  BY SMTT(30), SMTT(60) DEF Exchanges, Give, Taken

\* A stream that gives back the mbufs S and takes the free mbufs T keeps every mbuf in one place.
LEMMA OwnStep ==
  ASSUME EngTypes, MbufInv, NEW c \in Streams,
         \A d \in Streams : d # c => st'[d] = st[d] /\ nic'[d] = nic[d],
         NEW S \in SUBSET Own(c), NEW T \in SUBSET Free,
         Own(c)' = (Own(c) \ S) \cup T, Apart(c)', Exchanges(S, T)
  PROVE  MbufInv'
<1>1. /\ \A d \in Streams : Apart(d)
      /\ \A d, e \in Streams : d # e => Own(d) \cap Own(e) = {}
      /\ \A m \in Mbufs : mempool[m] = IF \E d \in Streams : m \in Own(d) THEN 0 ELSE 1
  BY DEF MbufInv
<1>2. \A d \in Streams : d # c => Own(d)' = Own(d) /\ (Apart(d) => Apart(d)')
  BY Zenon, ZenonT(40) DEF Own, Apart
<1>3. \A m \in T : m \in Mbufs /\ \A d \in Streams : m \notin Own(d)
  BY <1>1, SMTT(30), SMTT(60) DEF Free
<1>4. \A d \in Streams : Apart(d)'
  BY <1>1, <1>2, SMTT(30), SMTT(60)
<1>5. \A d, e \in Streams : d # e => Own(d)' \cap Own(e)' = {}
  <2> SUFFICES ASSUME NEW d \in Streams, NEW e \in Streams, d # e,
                      NEW m, m \in Own(d)', m \in Own(e)'
               PROVE  FALSE
    BY SMTT(30), SMTT(60)
  <2>1. CASE d # c /\ e # c
    BY <1>1, <1>2, <2>1, SMTT(30), SMTT(60)
  <2>2. CASE d = c
    BY <1>1, <1>2, <1>3, <2>2, SMTT(30), SMTT(60)
  <2>3. CASE e = c
    BY <1>1, <1>2, <1>3, <2>3, SMTT(30), SMTT(60)
  <2> QED
    BY <2>1, <2>2, <2>3, SMTT(30), SMTT(60)
<1>6. ASSUME NEW m \in Mbufs
      PROVE  mempool'[m] = IF \E d \in Streams : m \in Own(d)' THEN 0 ELSE 1
  <2>0. mempool'[m] = mempool[m] + (IF m \in S THEN 1 ELSE 0) - (IF m \in T THEN 1 ELSE 0)
    BY DEF Exchanges
  <2>1. CASE m \in S
    <3>1. m \notin T /\ mempool[m] = 0
      BY <1>1, <1>3, <2>1, SMTT(30), SMTT(60)
    <3>2. \A d \in Streams : m \notin Own(d)'
      BY <1>1, <1>2, <2>1, <3>1, SMTT(30), SMTT(60)
    <3> QED
      BY <2>0, <2>1, <3>1, <3>2, SMTT(30), SMTT(60)
  <2>2. CASE m \in T
    <3>1. m \notin S /\ mempool[m] = 1 /\ m \in Own(c)'
      BY <1>1, <1>3, <2>2, SMTT(30), SMTT(60)
    <3> QED
      BY <2>0, <2>2, <3>1, SMTT(30), SMTT(60)
  <2>3. CASE m \notin S /\ m \notin T
    <3>1. \A d \in Streams : m \in Own(d)' <=> m \in Own(d)
      BY <1>2, <2>3, SMTT(30), SMTT(60)
    <3>2. mempool'[m] = mempool[m]
      BY <1>1, <2>0, <2>3
    <3> QED
      BY <1>1, <3>1, <3>2, SMTT(30), SMTT(60)
  <2> QED
    BY <2>1, <2>2, <2>3, SMTT(30), SMTT(60)
<1> QED
  BY <1>4, <1>5, <1>6, SMTT(30), SMTT(60) DEF MbufInv

\* The mbufs of a call: its unfinished chain and its array.
Chain(c) == st[c].part
Array(c) == MbufsOf(st[c].pkts)

\* The same for a step of an engine, which leaves the transmit queue alone.
LEMMA CallStep ==
  ASSUME EngTypes, MbufInv, NEW c \in Streams, OnlyStream(c), nic' = nic,
         NEW S \in SUBSET (Chain(c) \cup Array(c)), NEW T \in SUBSET Free,
         Chain(c)' \cup Array(c)' = ((Chain(c) \cup Array(c)) \ S) \cup T,
         Chain(c)' \cap Array(c)' = {}, PairApart(st'[c].pkts), Exchanges(S, T)
  PROVE  MbufInv'
<1>1. \A d \in Streams : d # c => st'[d] = st[d] /\ nic'[d] = nic[d]
  BY DEF OnlyStream, EngTypes
<1>2. /\ nic[c] \cap Chain(c) = {} /\ nic[c] \cap Array(c) = {}
      /\ Own(c) = nic[c] \cup Chain(c) \cup Array(c)
      /\ Own(c)' = nic[c] \cup Chain(c)' \cup Array(c)'
  BY Zenon, ZenonT(40) DEF MbufInv, Apart, Own, Chain, Array
<1>3. \A m \in T : m \notin Own(c)
  BY DEF Free, MbufInv
<1>4. S \in SUBSET Own(c) /\ Own(c)' = (Own(c) \ S) \cup T
  BY <1>2, Zenon, ZenonT(40)
<1>5. Apart(c)'
  <2>1. nic[c] \cap Chain(c)' = {} /\ nic[c] \cap Array(c)' = {}
    BY <1>2, <1>3, SMTT(30), SMTT(60)
  <2> QED
    BY <2>1, ZenonT(40), ZenonT(60) DEF Apart, Chain, Array
<1> QED
  BY <1>1, <1>4, <1>5, OwnStep, Zenon, ZenonT(40)

\* What the invariant says of the stream that moves.
LEMMA CallFacts ==
  ASSUME MbufInv, NEW c \in Streams
  PROVE  /\ Chain(c) \cap Array(c) = {} /\ PairApart(st[c].pkts)
         /\ \A m \in Free : m \notin Chain(c) /\ m \notin Array(c)
<1>1. Apart(c) /\ \A m \in Mbufs : mempool[m] > 0 => m \notin Own(c)
  BY DEF MbufInv
<1> QED
  BY <1>1 DEF Apart, Chain, Array, Own, Free

\* rx_burst: the driver takes the mbufs of the burst.
LEMMA MbufRx ==
  ASSUME BurstInv, MbufInv, NEW c \in Streams, rx_burst(c)
  PROVE  MbufInv'
<1>1. /\ EngTypes /\ st[c].pkts = <<>> /\ st[c].part = {} /\ mempool \in [Mbufs -> Int]
  BY RxStep, StreamFacts, Zenon, ZenonT(40) DEF PhaseOK
<1>2. nic' = nic /\ OnlyStream(c) /\ Chain(c)' = {}
  BY RxStep, Zenon, ZenonT(40) DEF Chain
<1>3. PICK n \in Nat :
        /\ n <= Cardinality(Free) /\ mempool' = Taken(mempool, {Ranked(Free, i) : i \in 1 .. n})
        /\ st'[c].pkts = [i \in 1 .. n |-> [mb |-> {Ranked(Free, i)}, flow |-> 0]]
  BY RxStep, Zenon, ZenonT(40)
<1> DEFINE S == {Ranked(Free, i) : i \in 1 .. n}
<1>4. S \in SUBSET Free /\ S \in SUBSET Mbufs /\ mempool' = Taken(mempool, S)
  BY <1>3, FreeFinite, RankedFree, Zenon, ZenonT(40)
<1>5. Array(c)' = S /\ PairApart(st'[c].pkts)
  BY <1>3, MbufsReceived, Zenon, ZenonT(40) DEF Array
<1> HIDE DEF S
<1>6. Chain(c) = {} /\ Array(c) = {}
  <2>1. 1 .. Len(<<>>) = {}
    BY SMTT(30), SMTT(60)
  <2> QED
    BY <1>1, <2>1, MbufsAre DEF Chain, Array
<1>7. Exchanges({}, S)
  BY <1>1, <1>4, PoolExchange, SMTT(30), SMTT(60)
<1>8. /\ {} \in SUBSET (Chain(c) \cup Array(c))
      /\ Chain(c)' \cup Array(c)' = ((Chain(c) \cup Array(c)) \ {}) \cup S
      /\ Chain(c)' \cap Array(c)' = {}
  BY <1>2, <1>5, <1>6
<1> QED
  BY <1>1, <1>2, <1>4, <1>5, <1>7, <1>8, CallStep, Zenon, ZenonT(40)

\* Steps that only go on to the next phase.
LEMMA MbufSame ==
  ASSUME BurstInv, MbufInv, NEW c \in Streams, OnlyStream(c), nic' = nic, mempool' = mempool,
         st'[c].part = st[c].part, st'[c].pkts = st[c].pkts
  PROVE  MbufInv'
<1>1. EngTypes /\ mempool \in [Mbufs -> Int]
  BY StreamFacts, Zenon, ZenonT(40)
<1>2. Exchanges({}, {})
  BY <1>1, PoolExchange, SMTT(30), SMTT(60)
<1>3. Chain(c)' = Chain(c) /\ Array(c)' = Array(c)
  BY SMTT(30), SMTT(60) DEF Chain, Array
<1>4. Chain(c) \cap Array(c) = {} /\ PairApart(st'[c].pkts)
  BY CallFacts, SMTT(30), SMTT(60)
<1>5. /\ {} \in SUBSET (Chain(c) \cup Array(c)) /\ {} \in SUBSET Free
      /\ Chain(c)' \cup Array(c)' = ((Chain(c) \cup Array(c)) \ {}) \cup {}
      /\ Chain(c)' \cap Array(c)' = {}
  BY <1>3, <1>4, SMTT(30), SMTT(60)
<1> QED
  BY <1>1, <1>2, <1>4, <1>5, CallStep, Zenon, ZenonT(40)

\* The first packet of the array is freed, or the array is empty.
LEMMA MbufPop ==
  ASSUME BurstInv, MbufInv, NEW c \in Streams, OnlyStream(c), nic' = nic,
         st'[c].part = st[c].part,
         \/ /\ st[c].pkts # <<>> /\ mempool' = Give(mempool, Head(st[c].pkts).mb)
            /\ st'[c].pkts = Tail(st[c].pkts)
         \/ st[c].pkts = <<>> /\ mempool' = mempool /\ st'[c].pkts = <<>>
  PROVE  MbufInv'
<1>1. EngTypes /\ mempool \in [Mbufs -> Int] /\ st[c].pkts \in Seq(Frame)
  BY StreamFacts, Zenon, ZenonT(40)
<1>2. CASE st[c].pkts = <<>> /\ mempool' = mempool /\ st'[c].pkts = <<>>
  BY <1>2, MbufSame, Zenon, ZenonT(40)
<1>3. CASE /\ st[c].pkts # <<>> /\ mempool' = Give(mempool, Head(st[c].pkts).mb)
           /\ st'[c].pkts = Tail(st[c].pkts)
  <2> DEFINE S == Head(st[c].pkts).mb
  <2>1. Exchanges(S, {})
    BY <1>1, <1>3, PoolExchange, Zenon, ZenonT(40)
  <2>2. Array(c)' = Array(c) \ S /\ S \subseteq Array(c) /\ PairApart(st'[c].pkts)
    BY <1>1, <1>3, CallFacts, MbufsTail, Zenon, ZenonT(40) DEF Array
  <2>3. Chain(c)' = Chain(c) /\ Chain(c) \cap Array(c) = {}
    BY CallFacts, Zenon, ZenonT(40) DEF Chain
  <2> HIDE DEF S
  <2>4. /\ S \in SUBSET (Chain(c) \cup Array(c)) /\ {} \in SUBSET Free
        /\ Chain(c)' \cup Array(c)' = ((Chain(c) \cup Array(c)) \ S) \cup {}
        /\ Chain(c)' \cap Array(c)' = {}
    BY <2>2, <2>3, Zenon, ZenonT(40)
  <2> QED
    BY <1>1, <2>1, <2>2, <2>4, CallStep, Zenon, ZenonT(40)
<1> QED
  BY <1>2, <1>3

\* sift: the mbufs of what is not answered come back.
LEMMA MbufSift ==
  ASSUME BurstInv, MbufInv, NEW c \in Streams, sift(c)
  PROVE  MbufInv'
<1>1. EngTypes /\ mempool \in [Mbufs -> Int] /\ st[c].pkts \in Seq(Frame)
  BY StreamFacts, Zenon, ZenonT(40)
<1>2. nic' = nic /\ OnlyStream(c) /\ Chain(c)' = Chain(c)
  BY SiftStep, ZenonT(40), ZenonT(60) DEF Chain
<1>3. PICK K \in SUBSET (1 .. Len(st[c].pkts)) :
        /\ mempool' = Give(mempool, MbufsOf(st[c].pkts) \ MbufsOf(Kept(st[c].pkts, K)))
        /\ st'[c].pkts = Kept(st[c].pkts, K)
  BY SiftStep, SMTT(30), SMTT(60)
<1> DEFINE S == Array(c) \ MbufsOf(Kept(st[c].pkts, K))
<1>4. Exchanges(S, {})
  BY <1>1, <1>3, PoolExchange, Zenon, ZenonT(40) DEF Array
<1>5. Array(c)' = Array(c) \ S /\ S \subseteq Array(c) /\ PairApart(st'[c].pkts)
  <2>1. MbufsOf(Kept(st[c].pkts, K)) \subseteq MbufsOf(st[c].pkts) /\ PairApart(Kept(st[c].pkts, K))
    BY <1>1, CallFacts, MbufsKept, SMTT(30), SMTT(60)
  <2> QED
    BY <1>3, <2>1, Zenon, ZenonT(40) DEF Array
<1>6. Chain(c) \cap Array(c) = {}
  BY CallFacts, SMTT(30), SMTT(60)
<1> HIDE DEF S
<1>7. /\ S \in SUBSET (Chain(c) \cup Array(c)) /\ {} \in SUBSET Free
      /\ Chain(c)' \cup Array(c)' = ((Chain(c) \cup Array(c)) \ S) \cup {}
      /\ Chain(c)' \cap Array(c)' = {}
  BY <1>2, <1>5, <1>6, SMTT(30), SMTT(60)
<1> QED
  BY <1>1, <1>2, <1>4, <1>5, <1>7, CallStep, Zenon, ZenonT(40)

\* A free mbuf joins the unfinished chain.
LEMMA MbufChain ==
  ASSUME BurstInv, MbufInv, NEW c \in Streams, OnlyStream(c), nic' = nic,
         NEW m \in Free, mempool' = Taken(mempool, {m}),
         st'[c].part = st[c].part \cup {m}, st'[c].pkts = st[c].pkts
  PROVE  MbufInv'
<1>1. EngTypes /\ mempool \in [Mbufs -> Int]
  BY StreamFacts, Zenon, ZenonT(40)
<1>2. Exchanges({}, {m})
  BY <1>1, PoolExchange, ZenonT(40), ZenonT(60)
<1>3. Chain(c)' = Chain(c) \cup {m} /\ Array(c)' = Array(c)
  BY SMTT(30), SMTT(60) DEF Chain, Array
<1>4. Chain(c) \cap Array(c) = {} /\ PairApart(st'[c].pkts) /\ m \notin Array(c) /\ m \notin Chain(c)
  BY CallFacts, SMTT(30), SMTT(60)
<1>5. /\ {} \in SUBSET (Chain(c) \cup Array(c)) /\ {m} \in SUBSET Free
      /\ Chain(c)' \cup Array(c)' = ((Chain(c) \cup Array(c)) \ {}) \cup {m}
      /\ Chain(c)' \cap Array(c)' = {}
  BY <1>3, <1>4
<1> QED
  BY <1>1, <1>2, <1>4, <1>5, CallStep, ZenonT(40), ZenonT(60)

\* The unfinished chain is freed.
LEMMA MbufUnchain ==
  ASSUME BurstInv, MbufInv, NEW c \in Streams, OnlyStream(c), nic' = nic,
         mempool' = Give(mempool, st[c].part), st'[c].part = {}, st'[c].pkts = st[c].pkts
  PROVE  MbufInv'
<1>1. EngTypes /\ mempool \in [Mbufs -> Int]
  BY StreamFacts, Zenon, ZenonT(40)
<1>2. Exchanges(Chain(c), {})
  BY <1>1, PoolExchange, SMTT(30), SMTT(60) DEF Chain
<1>3. Chain(c)' = {} /\ Array(c)' = Array(c)
  BY SMTT(30), SMTT(60) DEF Chain, Array
<1>4. Chain(c) \cap Array(c) = {} /\ PairApart(st'[c].pkts)
  BY CallFacts, SMTT(30), SMTT(60)
<1>5. /\ Chain(c) \in SUBSET (Chain(c) \cup Array(c)) /\ {} \in SUBSET Free
      /\ Chain(c)' \cup Array(c)' = ((Chain(c) \cup Array(c)) \ Chain(c)) \cup {}
      /\ Chain(c)' \cap Array(c)' = {}
  BY <1>3, <1>4, SMTT(30), SMTT(60)
<1> QED
  BY <1>1, <1>2, <1>4, <1>5, CallStep, Zenon, ZenonT(40)

\* alloc: the chain grows or becomes a packet.
LEMMA MbufAlloc ==
  ASSUME BurstInv, MbufInv, NEW c \in Streams, alloc(c)
  PROVE  MbufInv'
<1>1. /\ EngTypes /\ mempool \in [Mbufs -> Int] /\ st[c].pkts \in Seq(Frame)
      /\ st[c].part \in SUBSET Mbufs /\ next_flow \in Int
  BY StreamFacts, Zenon, ZenonT(40)
<1>2. nic' = nic /\ OnlyStream(c)
  BY AllocStep, Zenon, ZenonT(40)
<1>3. PICK m \in Free :
        /\ m \in Mbufs /\ mempool' = Taken(mempool, {m})
        /\ \/ /\ st'[c].part = {}
              /\ st'[c].pkts = Append(st[c].pkts, [mb |-> st[c].part \cup {m}, flow |-> next_flow])
           \/ /\ eng # "flowgen" /\ st'[c].part = st[c].part \cup {m}
              /\ st'[c].pkts = st[c].pkts
  BY AllocStep, Zenon, ZenonT(40)
<1>4. CASE st'[c].part = st[c].part \cup {m} /\ st'[c].pkts = st[c].pkts
  BY <1>2, <1>3, <1>4, MbufChain, Zenon, ZenonT(40)
<1>5. CASE /\ st'[c].part = {}
           /\ st'[c].pkts = Append(st[c].pkts, [mb |-> st[c].part \cup {m}, flow |-> next_flow])
  <2> DEFINE f == [mb |-> Chain(c) \cup {m}, flow |-> next_flow]
  <2>1. f \in Frame /\ f.mb = Chain(c) \cup {m}
    BY <1>1, <1>3, Zenon, ZenonT(40) DEF Frame, Chain
  <2>2. st'[c].pkts = Append(st[c].pkts, f)
    BY <1>5 DEF Chain
  <2> HIDE DEF f
  <2>3. /\ Chain(c) \cap Array(c) = {} /\ PairApart(st[c].pkts)
        /\ m \notin Array(c) /\ m \notin Chain(c)
    BY CallFacts, SMTT(30), SMTT(60)
  <2>4. f.mb \cap MbufsOf(st[c].pkts) = {}
    BY <2>1, <2>3 DEF Array
  <2>5. Array(c)' = Array(c) \cup (Chain(c) \cup {m}) /\ PairApart(st'[c].pkts)
    BY <1>1, <2>1, <2>2, <2>3, <2>4, MbufsAppend, Zenon, ZenonT(40) DEF Array
  <2>6. Chain(c)' = {} /\ Exchanges({}, {m})
    BY <1>1, <1>3, <1>5, PoolExchange, Zenon, ZenonT(40) DEF Chain
  <2>7. /\ {} \in SUBSET (Chain(c) \cup Array(c)) /\ {m} \in SUBSET Free
        /\ Chain(c)' \cup Array(c)' = ((Chain(c) \cup Array(c)) \ {}) \cup {m}
        /\ Chain(c)' \cap Array(c)' = {}
    BY <2>5, <2>6
  <2> QED
    BY <1>1, <1>2, <2>5, <2>6, <2>7, CallStep, Zenon, ZenonT(40)
<1> QED
  BY <1>3, <1>4, <1>5

\* pkt_copy_split: the copy takes the place of the original, which is freed.
LEMMA MbufCopy ==
  ASSUME BurstInv, MbufInv, NEW c \in Streams, pkt_copy_split(c)
  PROVE  MbufInv'
<1>1. /\ EngTypes /\ mempool \in [Mbufs -> Int] /\ st[c].pkts \in Seq(Frame)
      /\ st[c].part \in SUBSET Mbufs
  BY StreamFacts, Zenon, ZenonT(40)
<1>2. nic' = nic /\ OnlyStream(c)
  BY CopyStep
<1>3. \/ \E m \in Free : /\ m \in Mbufs /\ mempool' = Taken(mempool, {m})
                         /\ st'[c].part = st[c].part \cup {m} /\ st'[c].pkts = st[c].pkts
      \/ \E m \in Free, i \in 1 .. Len(st[c].pkts) :
           /\ m \in Mbufs /\ mempool' = Give(Taken(mempool, {m}), st[c].pkts[i].mb)
           /\ st'[c].part = {}
           /\ st'[c].pkts = [st[c].pkts EXCEPT
                               ![i] = [st[c].pkts[i] EXCEPT !.mb = st[c].part \cup {m}]]
      \/ /\ mempool' = Give(mempool, st[c].part)
         /\ st'[c].part = {} /\ st'[c].pkts = st[c].pkts
  BY CopyStep, Zenon, ZenonT(40)
<1>4. ASSUME NEW m \in Free, NEW i \in 1 .. Len(st[c].pkts), m \in Mbufs,
             mempool' = Give(Taken(mempool, {m}), st[c].pkts[i].mb), st'[c].part = {},
             st'[c].pkts = [st[c].pkts EXCEPT
                              ![i] = [st[c].pkts[i] EXCEPT !.mb = st[c].part \cup {m}]]
      PROVE  MbufInv'
  <2> DEFINE f == [st[c].pkts[i] EXCEPT !.mb = Chain(c) \cup {m}]
             S == st[c].pkts[i].mb
  <2>1. st[c].pkts[i] \in Frame /\ Chain(c) \cup {m} \in SUBSET Mbufs
    BY <1>1, <1>4 DEF Chain
  <2>2. f \in Frame /\ f.mb = Chain(c) \cup {m}
    BY <2>1 DEF Frame
  <2>3. st'[c].pkts = [st[c].pkts EXCEPT ![i] = f]
    BY <1>4 DEF Chain
  <2>4. Chain(c)' = {} /\ Exchanges(S, {m})
    BY <1>1, <1>4, PoolExchange, Zenon, ZenonT(40) DEF Chain
  <2>5. S \subseteq Array(c)
    BY MbufsAre DEF Array
  <2> HIDE DEF f
  <2>6. /\ Chain(c) \cap Array(c) = {} /\ PairApart(st[c].pkts)
        /\ m \notin Array(c) /\ m \notin Chain(c)
    BY CallFacts, SMTT(30), SMTT(60)
  <2>7. f.mb \cap MbufsOf(st[c].pkts) = {}
    BY <2>2, <2>6 DEF Array
  <2>8. Array(c)' = (Array(c) \ S) \cup (Chain(c) \cup {m}) /\ PairApart(st'[c].pkts)
    <3> DEFINE p == st[c].pkts
    <3>1. p \in Seq(Frame) /\ i \in 1 .. Len(p) /\ PairApart(p) /\ f.mb \cap MbufsOf(p) = {}
      BY <1>1, <2>6, <2>7, SMTT(30), SMTT(60)
    <3> HIDE DEF p
    <3>2. /\ MbufsOf([p EXCEPT ![i] = f]) = (MbufsOf(p) \ p[i].mb) \cup f.mb
          /\ PairApart([p EXCEPT ![i] = f])
      BY <2>2, <3>1, MbufsReplace, SMTT(30), SMTT(60)
    <3> QED
      BY <2>2, <2>3, <3>2, Zenon, ZenonT(40) DEF Array, p
  <2> HIDE DEF S
  <2>9. /\ S \in SUBSET (Chain(c) \cup Array(c)) /\ {m} \in SUBSET Free
        /\ Chain(c)' \cup Array(c)' = ((Chain(c) \cup Array(c)) \ S) \cup {m}
        /\ Chain(c)' \cap Array(c)' = {}
    BY <2>4, <2>5, <2>6, <2>8, SMTT(30), SMTT(60)
  <2> QED
    BY <1>1, <1>2, <2>4, <2>8, <2>9, CallStep, ZenonT(40), ZenonT(60)
<1> QED
  BY <1>2, <1>3, <1>4, MbufChain, MbufUnchain, Zenon, ZenonT(40)

\* tx_burst: the accepted packets pass to the transmit queue.
LEMMA MbufTx ==
  ASSUME BurstInv, MbufInv, NEW c \in Streams, tx_burst(c)
  PROVE  MbufInv'
<1>1. /\ EngTypes /\ mempool \in [Mbufs -> Int] /\ st[c].pkts \in Seq(Frame)
      /\ nic \in [Streams -> SUBSET Mbufs]
  BY StreamFacts, ZenonT(40), ZenonT(60)
<1>2. mempool' = mempool /\ OnlyStream(c) /\ Chain(c) = {} /\ Chain(c)' = {}
  BY TxStep, Zenon, ZenonT(40) DEF Chain
<1>3. PICK k \in 0 .. Len(st[c].pkts) :
        /\ nic' = [nic EXCEPT ![c] = nic[c] \cup MbufsOf(SubSeq(st[c].pkts, 1, k))]
        /\ st'[c].pkts = SubSeq(st[c].pkts, k + 1, Len(st[c].pkts))
  BY TxStep, Zenon, ZenonT(40)
<1> DEFINE A == MbufsOf(SubSeq(st[c].pkts, 1, k))
<1>4. Array(c) = A \cup Array(c)' /\ A \cap Array(c)' = {} /\ PairApart(st'[c].pkts)
  BY <1>1, <1>3, CallFacts, MbufsParts, SMTT(30), SMTT(60) DEF Array
<1>5. /\ nic'[c] = nic[c] \cup A
      /\ \A d \in Streams : d # c => st'[d] = st[d] /\ nic'[d] = nic[d]
  BY <1>1, <1>2, <1>3, SMTT(30), SMTT(60) DEF OnlyStream, EngTypes
<1> HIDE DEF A
<1>6. nic[c] \cap Array(c) = {} /\ Own(c) = nic[c] \cup Chain(c) \cup Array(c)
  BY DEF MbufInv, Apart, Own, Chain, Array
<1>7. Own(c)' = (Own(c) \ {}) \cup {}
  BY <1>2, <1>4, <1>5, <1>6, Zenon, ZenonT(40) DEF Own, Chain, Array
<1>8. Apart(c)'
  BY <1>2, <1>4, <1>5, <1>6, Zenon, ZenonT(40) DEF Apart, Chain, Array
<1>9. Exchanges({}, {}) /\ {} \in SUBSET Own(c) /\ {} \in SUBSET Free
  BY <1>1, <1>2, PoolExchange, SMTT(30), SMTT(60)
<1> QED
  BY <1>1, <1>5, <1>7, <1>8, <1>9, OwnStep, Zenon, ZenonT(40)

\* tx_done: the transmit queue is emptied into the mempool.
LEMMA MbufDone ==
  ASSUME BurstInv, MbufInv, NEW c \in Streams, tx_done(c)
  PROVE  MbufInv'
<1>1. EngTypes /\ mempool \in [Mbufs -> Int] /\ nic \in [Streams -> SUBSET Mbufs]
  BY StreamFacts, Zenon, ZenonT(40)
<1>2. mempool' = Give(mempool, nic[c]) /\ nic' = [nic EXCEPT ![c] = {}] /\ st' = st
  BY DEF tx_done
<1>3. nic'[c] = {} /\ \A d \in Streams : d # c => st'[d] = st[d] /\ nic'[d] = nic[d]
  BY <1>1, <1>2
<1>4. /\ nic[c] \cap Array(c) = {} /\ nic[c] \cap Chain(c) = {} /\ Apart(c)
      /\ Own(c) = nic[c] \cup Chain(c) \cup Array(c)
  BY Zenon, ZenonT(40) DEF MbufInv, Apart, Own, Chain, Array
<1>5. nic[c] \in SUBSET Own(c) /\ Own(c)' = (Own(c) \ nic[c]) \cup {}
  BY <1>2, <1>3, <1>4, Zenon, ZenonT(40) DEF Own, Chain, Array
<1>6. Apart(c)'
  BY <1>2, <1>3, <1>4, Zenon, ZenonT(40) DEF Apart
<1>7. Exchanges(nic[c], {}) /\ {} \in SUBSET Free
  BY <1>1, <1>2, PoolExchange, SMTT(30), SMTT(60)
<1>8. /\ EngTypes /\ \A d \in Streams : d # c => st'[d] = st[d] /\ nic'[d] = nic[d]
      /\ nic[c] \in SUBSET Own(c) /\ Own(c)' = (Own(c) \ nic[c]) \cup {}
  BY <1>1, <1>3, <1>5, Zenon, ZenonT(40)
<1> QED
  BY <1>6, <1>7, <1>8, OwnStep, ZenonT(40), ZenonT(60)

\* The invariant of the mbufs: it holds when forwarding starts,
LEMMA MbufInvInit == EngInit => MbufInv
<1> SUFFICES ASSUME EngInit PROVE MbufInv
  OBVIOUS
<1>1. ASSUME NEW c \in Streams PROVE nic[c] = {} /\ st[c].pkts = <<>> /\ st[c].part = {}
  BY DEF EngInit, Idle
<1>2. 1 .. Len(<<>>) = {}
  OBVIOUS
<1>3. ASSUME NEW c \in Streams PROVE Own(c) = {} /\ Apart(c)
  <2>1. MbufsOf(st[c].pkts) = {}
    BY <1>1, <1>2, MbufsAre, Zenon, ZenonT(40)
  <2> QED
    BY <1>1, <1>2, <2>1, Zenon, ZenonT(40) DEF Own, Apart, PairApart
<1>4. \A m \in Mbufs : mempool[m] = 1
  BY DEF EngInit
<1> QED
  BY <1>3, <1>4, SMTT(30), SMTT(60) DEF MbufInv

\* and every step keeps it.
LEMMA MbufInvNext == BurstInv /\ MbufInv /\ [EngNext]_evars => MbufInv'
<1> SUFFICES ASSUME BurstInv, MbufInv, [EngNext]_evars PROVE MbufInv'
  OBVIOUS
<1>1. ASSUME NEW c \in Streams,
             rx_burst(c) \/ start_making(c) \/ packet_fwd(c) \/ tx_done(c)
      PROVE  MbufInv'
  <2>1. CASE start_making(c)
    BY <2>1, StartStep, MbufSame, ZenonT(40), ZenonT(60)
  <2>2. CASE discard(c)
    BY <2>2, DiscardStep, MbufPop, SMTT(30), SMTT(60)
  <2>3. CASE stop_making(c)
    BY <2>3, StopStep, MbufUnchain, SMTT(30), SMTT(60)
  <2>4. CASE keep_packet(c)
    BY <2>4, KeepStep, MbufSame, Zenon, ZenonT(40)
  <2>5. CASE all_copied(c)
    BY <2>5, CopiedStep, MbufSame, SMTT(30), SMTT(60)
  <2>6. CASE free_unsent(c)
    BY <2>6, FreeStep, MbufPop, SMTT(30), SMTT(60)
  <2> QED
    BY SMTT(30), SMTT(60), <1>1, <2>1, <2>2, <2>3, <2>4, <2>5, <2>6, MbufRx, MbufSift, MbufAlloc, MbufCopy, MbufTx,
       MbufDone DEF packet_fwd
<1>2. CASE EngNext
  BY <1>1, <1>2, RunningStreams DEF EngNext
<1>3. CASE UNCHANGED evars
  BY <1>3, Zenon, ZenonT(40) DEF evars, MbufInv, Own, Apart
<1> QED
  BY <1>2, <1>3, SMTT(30), SMTT(60)

\* No engine loses a packet buffer, frees one twice, or keeps one it handed to the
\* device, however many streams share the mempool and wherever it runs dry.
THEOREM MbufsConserved == EngSpec => []MbufsOnce
<1>1. BurstInv /\ MbufInv => MbufsOnce
  <2> SUFFICES ASSUME BurstInv, MbufInv, NEW m \in Mbufs
               PROVE  mempool[m] + Cardinality({c \in Streams : m \in nic[c]})
                                 + Cardinality({c \in Streams : m \in st[c].part})
                                 + Cardinality({ci \in Streams \X (1 .. Burst) :
                                     /\ ci[2] \in DOMAIN st[ci[1]].pkts
                                     /\ m \in st[ci[1]].pkts[ci[2]].mb}) = 1
    BY DEF MbufsOnce
  <2> DEFINE InNic == {c \in Streams : m \in nic[c]}
             InPart == {c \in Streams : m \in st[c].part}
             InPkts == {ci \in Streams \X (1 .. Burst) :
                          ci[2] \in DOMAIN st[ci[1]].pkts /\ m \in st[ci[1]].pkts[ci[2]].mb}
  <2>1. /\ mempool[m] = IF \E c \in Streams : m \in Own(c) THEN 0 ELSE 1
        /\ \A c, d \in Streams : m \in Own(c) /\ m \in Own(d) => c = d
    BY SMTT(30), SMTT(60) DEF MbufInv
  <2>2. ASSUME NEW c \in Streams, NEW i
        PROVE  (/\ i \in 1 .. Burst /\ i \in DOMAIN st[c].pkts /\ m \in st[c].pkts[i].mb)
                 => m \in MbufsOf(st[c].pkts)
    <3>1. DOMAIN st[c].pkts = 1 .. Len(st[c].pkts)
      BY StreamFacts, SMTT(30), SMTT(60)
    <3> QED
      BY <3>1, MbufsAre, SMTT(30), SMTT(60)
  <2>3. CASE \A c \in Streams : m \notin Own(c)
    <3>1. InNic = {} /\ InPart = {} /\ InPkts = {}
      BY <2>2, <2>3 DEF Own
    <3>2. mempool[m] = 1
      BY <2>1, <2>3
    <3> HIDE DEF InNic, InPart, InPkts
    <3>3. mempool[m] + Cardinality(InNic) + Cardinality(InPart) + Cardinality(InPkts) = 1
      BY <3>1, <3>2, FS_EmptySet
    <3> QED
      BY <3>3, SMTT(30), SMTT(60) DEF InNic, InPart, InPkts
  <2>4. ASSUME NEW c \in Streams, m \in Own(c)
        PROVE  mempool[m] + Cardinality(InNic) + Cardinality(InPart) + Cardinality(InPkts) = 1
    <3>1. mempool[m] = 0 /\ \A d \in Streams : m \in Own(d) => d = c
      BY <2>1, <2>4
    <3>2. Apart(c)
      BY DEF MbufInv
    <3>3. InNic \subseteq {c} /\ InPart \subseteq {c} /\ \A ci \in InPkts : ci[1] = c
      BY <2>2, <3>1, Zenon, ZenonT(40) DEF Own
    <3>4. CASE m \in nic[c]
      <4>1. InNic = {c} /\ InPart = {} /\ InPkts = {}
        BY <2>2, <3>2, <3>3, <3>4, Zenon, ZenonT(40) DEF Apart
      <4>2. Cardinality({c}) = 1 /\ Cardinality({}) = 0
        BY FS_EmptySet, FS_Singleton, Zenon, ZenonT(40)
      <4> HIDE DEF InNic, InPart, InPkts
      <4> QED
        BY <3>1, <4>1, <4>2
    <3>5. CASE m \in st[c].part
      <4>1. InNic = {} /\ InPart = {c} /\ InPkts = {}
        BY <2>2, <3>2, <3>3, <3>5, ZenonT(40), ZenonT(60) DEF Apart
      <4>2. Cardinality({c}) = 1 /\ Cardinality({}) = 0
        BY FS_EmptySet, FS_Singleton, Zenon, ZenonT(40)
      <4> HIDE DEF InNic, InPart, InPkts
      <4> QED
        BY <3>1, <4>1, <4>2
    <3>6. CASE m \in MbufsOf(st[c].pkts)
      <4>1. PICK i \in 1 .. Len(st[c].pkts) : m \in st[c].pkts[i].mb
        BY <3>6, MbufsAre, ZenonT(40), ZenonT(60)
      <4>2. i \in 1 .. Burst /\ DOMAIN st[c].pkts = 1 .. Len(st[c].pkts)
        BY StreamFacts, EnginesAssumption, SMTT(30), SMTT(60) DEF PhaseOK
      <4>3. \A j \in 1 .. Len(st[c].pkts) : m \in st[c].pkts[j].mb => j = i
        BY <3>2, <4>1, Zenon, ZenonT(40) DEF Apart, PairApart
      <4>4. InPkts = {<<c, i>>}
        <5>1. <<c, i>> \in InPkts
          BY <4>1, <4>2, SMTT(30), SMTT(60)
        <5>2. ASSUME NEW ci \in InPkts PROVE ci = <<c, i>>
          <6>1. ci[1] = c /\ ci[2] \in 1 .. Len(st[c].pkts) /\ m \in st[c].pkts[ci[2]].mb
            BY <3>3, <4>2, ZenonT(40), ZenonT(60)
          <6>2. ci = <<ci[1], ci[2]>>
            BY SMTT(60)
          <6>3. ci[2] = i
            BY <4>3, <6>1, ZenonT(40), ZenonT(60)
          <6> QED
            BY <6>1, <6>2, <6>3, ZenonT(40), ZenonT(60)
        <5> QED
          BY <5>1, <5>2, Zenon, ZenonT(40)
      <4>5. InNic = {} /\ InPart = {}
        BY <3>2, <3>3, <3>6 DEF Apart
      <4>6. Cardinality({<<c, i>>}) = 1 /\ Cardinality({}) = 0
        BY FS_EmptySet, FS_Singleton, Zenon, ZenonT(40)
      <4> HIDE DEF InNic, InPart, InPkts
      <4> QED
        BY <3>1, <4>4, <4>5, <4>6, SMTT(30), SMTT(60)
    <3> QED
      BY <2>4, <3>4, <3>5, <3>6, Zenon, ZenonT(40) DEF Own
  <2> QED
    BY <2>3, <2>4, ZenonT(40), ZenonT(60)
<1> QED
  BY <1>1, BurstInvInit, BurstInvNext, MbufInvInit, MbufInvNext, PTL DEF EngSpec
=============================================================================
