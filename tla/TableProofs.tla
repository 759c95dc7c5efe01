---------------------------- MODULE TableProofs ----------------------------
(***************************************************************************)
(* Proofs about tables and buffers that commands and options fill: the pool*)
(* of multicast addresses and the statistics mappings of queues            *)
(* (PortTables), the launch options (LaunchArgs), and the log buffer of    *)
(* square_evictions (SquareEvictions).                                     *)
(***************************************************************************)
EXTENDS LaunchArgs, SquareEvictions, FiniteSetTheorems, WellFoundedInduction, TLAPS

-----------------------------------------------------------------------------
(* Division *)

\* Division with remainder.
LEMMA Division ==
  ASSUME NEW a \in Int, NEW n \in Nat \ {0}
  PROVE  a % n \in 0 .. n - 1 /\ a \div n \in Int /\ a = n * (a \div n) + (a % n)
  BY SMTT(30), SMTT(60)

\* A quotient is found by bounds.
LEMMA Quotient ==
  ASSUME NEW x \in Int, NEW n \in Nat \ {0}, NEW k \in Int, k * n <= x, x < k * n + n
  PROVE  x \div n = k /\ x % n = x - k * n
<1> DEFINE q == x \div n
           r == x % n
<1>1. r \in 0 .. n - 1 /\ q \in Int /\ x = n * q + r
  BY Division
<1> HIDE DEF q, r
<1>2. q < k + 1
  <2> SUFFICES ASSUME q >= k + 1 PROVE FALSE
    BY <1>1
  <2>1. n * q >= n * (k + 1)
    BY <1>1, SMTT(30), SMTT(60)
  <2> QED
    BY <1>1, <2>1
<1>3. q > k - 1
  <2> SUFFICES ASSUME q <= k - 1 PROVE FALSE
    BY <1>1
  <2>1. n * q <= n * (k - 1)
    BY <1>1, SMTT(30), SMTT(60)
  <2> QED
    BY <1>1, <2>1
<1>4. q = k
  BY <1>1, <1>2, <1>3
<1> QED
  BY <1>1, <1>4 DEF q, r

-----------------------------------------------------------------------------
(* The multicast pool *)

\* What the pool of one port and what is wanted of it have in common.
PoolOK(r, w) ==
  /\ r \in [addrs : Seq(McAddrs), cap : Nat]
  /\ r.cap % MCAST_POOL_INC = 0 /\ Len(r.addrs) <= r.cap
  /\ Range(r.addrs) = w /\ IsInjective(r.addrs)

McInv ==
  /\ mc_pool \in [Ports -> [addrs : Seq(McAddrs), cap : Nat]]
  /\ mclist \in [Ports -> [list : Seq(McAddrs), accepted : BOOLEAN]]
  /\ mcwant \in [Ports -> SUBSET McAddrs]
  /\ \A p \in Ports : /\ PoolOK(mc_pool[p], mcwant[p])
                      /\ mclist[p].accepted => mclist[p].list = mc_pool[p].addrs

\* A new address is appended once.
LEMMA AddressAppended ==
  ASSUME NEW S, NEW s \in Seq(S), NEW a \in S, IsInjective(s), \A i \in 1 .. Len(s) : s[i] # a
  PROVE  LET t == Append(s, a)
         IN t \in Seq(S) /\ Len(t) = Len(s) + 1 /\ IsInjective(t) /\ Range(t) = Range(s) \union {a}
<1> DEFINE t == Append(s, a)
<1>1. t \in Seq(S) /\ Len(t) = Len(s) + 1 /\ t[Len(s) + 1] = a /\ \A i \in 1 .. Len(s) : t[i] = s[i]
  OBVIOUS
<1>2. Len(s) \in Nat /\ DOMAIN s = 1 .. Len(s) /\ DOMAIN t = 1 .. Len(s) + 1
  BY <1>1
<1> HIDE DEF t
<1>3. IsInjective(t)
  BY <1>1, <1>2 DEF IsInjective
<1>4. Range(t) = Range(s) \union {a}
  BY <1>1, <1>2 DEF Range
<1> QED
  BY <1>1, <1>3, <1>4 DEF t

\* An entry is taken out and the later ones move up.
Without(s, i) == SubSeq(s, 1, i - 1) \o SubSeq(s, i + 1, Len(s))

\* mcast_addr_pool_remove loses the entry and no other.
LEMMA Removed ==
  ASSUME NEW S, NEW s \in Seq(S), IsInjective(s), NEW i \in 1 .. Len(s)
  PROVE  /\ Without(s, i) \in Seq(S) /\ Len(Without(s, i)) = Len(s) - 1
         /\ IsInjective(Without(s, i)) /\ Range(Without(s, i)) = Range(s) \ {s[i]}
<1> DEFINE u == SubSeq(s, 1, i - 1)
           v == SubSeq(s, i + 1, Len(s))
           t == u \o v
<1>0. Len(s) \in Nat /\ DOMAIN s = 1 .. Len(s) /\ i \in Int /\ 1 <= i /\ i <= Len(s)
  OBVIOUS
<1>1. u \in Seq(S) /\ Len(u) = i - 1 /\ \A j \in 1 .. i - 1 : u[j] = s[j]
  OBVIOUS
<1>2. v \in Seq(S) /\ Len(v) = Len(s) - i /\ \A j \in 1 .. Len(s) - i : v[j] = s[i + j]
  OBVIOUS
<1> HIDE DEF u, v
<1>4. t \in Seq(S) /\ Len(t) = Len(s) - 1
  <2>1. t \in Seq(S) /\ Len(t) = Len(u) + Len(v)
    <3>1. u \in Seq(S) /\ v \in Seq(S)
      BY <1>1, <1>2
    <3>2. u \o v \in Seq(S)
      BY <3>1
    <3>3. Len(u \o v) = Len(u) + Len(v)
      BY <3>1
    <3> QED
      BY <3>2, <3>3
  <2> QED
    BY <1>0, <1>1, <1>2, <2>1
<1>5. \A j \in 1 .. Len(s) - 1 : t[j] = IF j < i THEN s[j] ELSE s[j + 1]
  <2> SUFFICES ASSUME NEW j \in 1 .. Len(s) - 1 PROVE t[j] = IF j < i THEN s[j] ELSE s[j + 1]
    BY Zenon, ZenonT(40)
  <2>1. CASE j < i
    BY <1>0, <1>1, <1>2, <2>1
  <2>2. CASE j >= i
    <3>1. t[j] = v[j - Len(u)]
      BY <1>0, <1>1, <1>2, <2>2, SMTT(30), SMTT(60)
    <3>2. j - Len(u) = j - i + 1 /\ j - i + 1 \in 1 .. Len(s) - i
      BY <1>0, <1>1, <2>2
    <3>3. v[j - i + 1] = s[i + (j - i + 1)]
      BY <1>2, <3>2
    <3>4. i + (j - i + 1) = j + 1 /\ ~(j < i)
      BY <1>0, <2>2
    <3> QED
      BY <3>1, <3>2, <3>3, <3>4
  <2>3. j < i \/ j >= i
    BY <1>0
  <2> QED
    BY <2>1, <2>2, <2>3, Zenon, ZenonT(40)
<1> HIDE DEF t
<1>6. DOMAIN t = 1 .. Len(s) - 1
  BY <1>4
<1>7. IsInjective(t)
  <2> SUFFICES ASSUME NEW a \in 1 .. Len(s) - 1, NEW b \in 1 .. Len(s) - 1, t[a] = t[b] PROVE a = b
    BY <1>6 DEF IsInjective
  <2> DEFINE At(j) == IF j < i THEN j ELSE j + 1
  <2>1. t[a] = s[At(a)] /\ t[b] = s[At(b)]
    BY <1>0, <1>5
  <2>2. At(a) \in 1 .. Len(s) /\ At(b) \in 1 .. Len(s) /\ (At(a) = At(b) => a = b)
    BY <1>0
  <2> HIDE DEF At
  <2> QED
    BY <1>0, <2>1, <2>2, Zenon, ZenonT(40) DEF IsInjective
<1>8. Range(t) = Range(s) \ {s[i]}
  <2>1. \A j \in 1 .. Len(s) - 1 : t[j] \in Range(s) /\ t[j] # s[i]
    BY <1>0, <1>5 DEF IsInjective, Range
  <2>2. \A j \in 1 .. Len(s) : j # i => s[j] \in Range(t)
    <3> SUFFICES ASSUME NEW j \in 1 .. Len(s), j # i PROVE s[j] \in Range(t)
      OBVIOUS
    <3>1. CASE j < i
      BY <1>0, <1>5, <1>6, <3>1 DEF Range
    <3>2. CASE j > i
      <4>1. j - 1 \in 1 .. Len(s) - 1 /\ t[j - 1] = s[j]
        BY <1>0, <1>5, <3>2
      <4> QED
        BY <1>6, <4>1 DEF Range
    <3> QED
      BY <1>0, <3>1, <3>2
  <2> QED
    BY <1>0, <1>6, <2>1, <2>2 DEF Range
<1> QED
  BY <1>4, <1>7, <1>8, Zenon, ZenonT(40) DEF Without, t, u, v

\* The memory grows in time: after mcast_addr_pool_extend there is room for one more.
LEMMA Extended ==
  ASSUME NEW nb \in Nat, NEW cap \in Nat, nb <= cap, cap % MCAST_POOL_INC = 0
  PROVE  LET new == IF nb % MCAST_POOL_INC # 0 THEN cap ELSE nb + MCAST_POOL_INC
         IN new \in Nat /\ nb + 1 <= new /\ new % MCAST_POOL_INC = 0
<1>0. MCAST_POOL_INC \in Nat \ {0}
  BY PoolAssumption
<1>1. CASE nb % MCAST_POOL_INC # 0
  <2>1. nb # cap
    BY <1>1
  <2> QED
    BY <1>1, <2>1
<1>2. CASE nb % MCAST_POOL_INC = 0
  <2> DEFINE n == MCAST_POOL_INC
             q == nb \div n
             x == nb + n
  <2>1. q \in Int /\ nb = n * q + 0
    BY <1>0, <1>2, Division
  <2>2. x \in Int /\ q + 1 \in Int /\ x = (q + 1) * n
    <3> HIDE DEF q, n
    <3> QED BY <1>0, <2>1 DEF n
  <2>3. (q + 1) * n <= x /\ x < (q + 1) * n + n
    <3> HIDE DEF q, n, x
    <3> QED BY <1>0, <2>2 DEF n
  <2>4. x % n = x - (q + 1) * n
    <3> HIDE DEF q, n, x
    <3> QED BY <1>0, <2>2, <2>3, Quotient, Zenon, ZenonT(40) DEF n
  <2>5. x % n = 0
    <3> HIDE DEF q, n, x
    <3> QED BY <2>2, <2>4
  <2> QED
    BY <1>0, <1>2, <2>5
<1> QED
  BY <1>1, <1>2

\* A command that writes one port.
LEMMA OneMcPort ==
  ASSUME McInv, NEW p \in Ports, NEW r, NEW w \in SUBSET McAddrs, PoolOK(r, w),
         mc_pool' = [mc_pool EXCEPT ![p] = r], mcwant' = [mcwant EXCEPT ![p] = w],
         eth_port_multicast_addr_list_set(p, mc_pool'[p].addrs)
  PROVE  McInv'
<1>1. mc_pool'[p] = r /\ mcwant'[p] = w /\ r \in [addrs : Seq(McAddrs), cap : Nat] /\ r.addrs \in Seq(McAddrs)
  BY DEF McInv, PoolOK
<1>2. PICK ok \in BOOLEAN :
        mclist' = [mclist EXCEPT ![p] = [list |-> IF ok THEN r.addrs ELSE mclist[p].list, accepted |-> ok]]
  BY <1>1, Zenon, ZenonT(40) DEF eth_port_multicast_addr_list_set
<1> DEFINE l == IF ok THEN r.addrs ELSE mclist[p].list
           m == [list |-> l, accepted |-> ok]
<1>3. l \in Seq(McAddrs) /\ (ok => l = r.addrs)
  BY <1>1 DEF McInv
<1> HIDE DEF l
<1>4. m \in [list : Seq(McAddrs), accepted : BOOLEAN] /\ (m.accepted => m.list = r.addrs)
  BY <1>3
<1>5. mclist' = [mclist EXCEPT ![p] = m]
  BY <1>2, Zenon, ZenonT(40) DEF l
<1> HIDE DEF m
<1>6. /\ mc_pool' \in [Ports -> [addrs : Seq(McAddrs), cap : Nat]]
      /\ mclist' \in [Ports -> [list : Seq(McAddrs), accepted : BOOLEAN]]
      /\ mcwant' \in [Ports -> SUBSET McAddrs]
  BY <1>1, <1>4, <1>5, SMTT(30), SMTT(60) DEF McInv
<1>7. ASSUME NEW q \in Ports
      PROVE  PoolOK(mc_pool'[q], mcwant'[q]) /\ (mclist'[q].accepted => mclist'[q].list = mc_pool'[q].addrs)
  <2>1. CASE q = p
    <3>1. mclist'[p] = m
      BY <1>5 DEF McInv
    <3> QED
      BY <1>1, <1>4, <2>1, <3>1, Zenon, ZenonT(40)
  <2>2. CASE q # p
    <3>1. mc_pool'[q] = mc_pool[q] /\ mcwant'[q] = mcwant[q] /\ mclist'[q] = mclist[q]
      BY <1>5, <2>2 DEF McInv
    <3> QED
      BY <3>1, Zenon, ZenonT(40) DEF McInv
  <2> QED
    BY <2>1, <2>2
<1>8. \A q \in Ports : PoolOK(mc_pool[q], mcwant[q])' <=> PoolOK(mc_pool'[q], mcwant'[q])
  BY DEF PoolOK
<1> QED
  BY <1>6, <1>7, <1>8, Zenon, ZenonT(40) DEF McInv

\* The pool mirrors the commands, for every increment and any number of addresses.
THEOREM PoolMirrors == McSpec => []McastMirrors
<1>1. McInit => McInv
  <2> SUFFICES ASSUME McInit PROVE McInv
    OBVIOUS
  <2>1. 0 % MCAST_POOL_INC = 0
    BY PoolAssumption, Division
  <2> QED
    BY <2>1 DEF McInit, McInv, PoolOK, Range, IsInjective
<1>2. McInv /\ [cmd_mcast_addr]_mcvars => McInv'
  <2> SUFFICES ASSUME McInv, [cmd_mcast_addr]_mcvars PROVE McInv'
    OBVIOUS
  <2>1. ASSUME NEW p \in FewPorts, NEW a \in McAddrs, mcast_addr_add(p, a) PROVE McInv'
    <3> DEFINE s == mc_pool[p].addrs
               t == Append(s, a)
               c == mcast_addr_pool_extend(p)
               r == [addrs |-> t, cap |-> c]
               w == mcwant[p] \union {a}
    <3>1. p \in Ports
      BY BaseAssumption
    <3>2. /\ s \in Seq(McAddrs) /\ mc_pool[p].cap \in Nat /\ mc_pool[p].cap % MCAST_POOL_INC = 0
          /\ Len(s) <= mc_pool[p].cap /\ Range(s) = mcwant[p] /\ IsInjective(s)
      BY <3>1 DEF McInv, PoolOK
    <3>3. t \in Seq(McAddrs) /\ Len(t) = Len(s) + 1 /\ IsInjective(t) /\ Range(t) = Range(s) \union {a}
      BY <2>1, <3>2, AddressAppended, SMTT(30), SMTT(60) DEF mcast_addr_add
    <3>4. c \in Nat /\ Len(s) + 1 <= c /\ c % MCAST_POOL_INC = 0
      <4>1. Len(s) \in Nat
        BY <3>2
      <4> QED
        BY <3>2, <4>1, Extended DEF mcast_addr_pool_extend
    <3>5. mc_pool' = [mc_pool EXCEPT ![p] = r] /\ mcwant' = [mcwant EXCEPT ![p] = w]
      BY <2>1 DEF mcast_addr_add
    <3>6. w \in SUBSET McAddrs
      BY <3>1 DEF McInv
    <3>7. r.addrs = t /\ r.cap = c
      OBVIOUS
    <3> HIDE DEF t, c
    <3>8. r \in [addrs : Seq(McAddrs), cap : Nat]
      BY <3>3, <3>4
    <3> HIDE DEF r, s
    <3>9. PoolOK(r, w)
      BY <3>2, <3>3, <3>4, <3>7, <3>8 DEF PoolOK
    <3> HIDE DEF w
    <3> QED
      BY <2>1, <3>1, <3>5, <3>6, <3>9, OneMcPort, Zenon, ZenonT(40) DEF mcast_addr_add
  <2>2. ASSUME NEW p \in FewPorts, NEW a \in McAddrs, mcast_addr_remove(p, a) PROVE McInv'
    <3>1. p \in Ports
      BY BaseAssumption
    <3>2. PICK i \in 1 .. Len(mc_pool[p].addrs) :
            mc_pool[p].addrs[i] = a /\ mc_pool' = [mc_pool EXCEPT ![p] = mcast_addr_pool_remove(p, i)]
      BY <2>2, Zenon, ZenonT(40) DEF mcast_addr_remove
    <3> DEFINE s == mc_pool[p].addrs
               t == Without(s, i)
               c == IF t = <<>> THEN 0 ELSE mc_pool[p].cap
               r == [addrs |-> t, cap |-> c]
               w == mcwant[p] \ {a}
    <3>3. /\ s \in Seq(McAddrs) /\ mc_pool[p].cap \in Nat /\ mc_pool[p].cap % MCAST_POOL_INC = 0
          /\ Len(s) <= mc_pool[p].cap /\ Range(s) = mcwant[p] /\ IsInjective(s)
      BY <3>1 DEF McInv, PoolOK
    <3>4. t \in Seq(McAddrs) /\ Len(t) = Len(s) - 1 /\ IsInjective(t) /\ Range(t) = Range(s) \ {a}
      <4>1. i \in 1 .. Len(s) /\ s[i] = a
        BY <3>2
      <4> HIDE DEF s
      <4>2. t \in Seq(McAddrs) /\ Len(t) = Len(s) - 1 /\ IsInjective(t) /\ Range(t) = Range(s) \ {s[i]}
        BY <3>3, <4>1, Removed, Zenon, ZenonT(40)
      <4> QED
        BY <4>1, <4>2, Zenon, ZenonT(40)
    <3>5. c \in Nat /\ Len(t) <= c /\ c % MCAST_POOL_INC = 0
      <4>1. 0 % MCAST_POOL_INC = 0
        BY PoolAssumption, Division
      <4>2. Len(s) \in Nat
        BY <3>3
      <4> HIDE DEF t, s
      <4>3. CASE t = <<>>
        BY <4>1, <4>3
      <4>4. CASE t # <<>>
        BY <3>3, <3>4, <4>2, <4>4
      <4> QED
        BY <4>3, <4>4
    <3>6. mc_pool' = [mc_pool EXCEPT ![p] = r] /\ mcwant' = [mcwant EXCEPT ![p] = w]
      BY <2>2, <3>2, Zenon, ZenonT(40) DEF mcast_addr_remove, mcast_addr_pool_remove, Without
    <3>7. w \in SUBSET McAddrs
      BY <3>1 DEF McInv
    <3>8. r.addrs = t /\ r.cap = c
      BY Zenon, ZenonT(40)
    <3> HIDE DEF t, c
    <3>9. r \in [addrs : Seq(McAddrs), cap : Nat]
      BY <3>4, <3>5
    <3> HIDE DEF r, s
    <3>10. PoolOK(r, w)
      BY <3>3, <3>4, <3>5, <3>8, <3>9 DEF PoolOK
    <3> HIDE DEF w
    <3>11. eth_port_multicast_addr_list_set(p, mc_pool'[p].addrs)
      BY <2>2, Zenon, ZenonT(40) DEF mcast_addr_remove
    <3> QED
      BY <3>1, <3>6, <3>7, <3>10, <3>11, OneMcPort, Zenon, ZenonT(40)
  <2>3. CASE UNCHANGED mcvars
    BY <2>3 DEF mcvars, McInv, PoolOK
  <2> QED
    BY <2>1, <2>2, <2>3 DEF cmd_mcast_addr
<1>3. McInv => McastMirrors
  BY DEF McInv, PoolOK, McastMirrors
<1> QED
  BY <1>1, <1>2, <1>3, PTL DEF McSpec

-----------------------------------------------------------------------------
\* A nonempty set of natural numbers has a least element.
LEMMA Least ==
  ASSUME NEW T \in SUBSET Nat, T # {}
  PROVE  \E m \in T : \A k \in T : m <= k
<1>1. PICK m \in T : \A k \in T : ~(<<k, m>> \in OpToRel(<, Nat))
  BY WFMin, NatLessThanWellFounded, Zenon, ZenonT(40)
<1>2. \A k \in T : ~(k < m)
  BY <1>1, Zenon, ZenonT(40) DEF OpToRel
<1> QED BY <1>2

-----------------------------------------------------------------------------
(* Queue statistics mappings *)

Mappings == FewPorts \X TypedQueues \X (0 .. NbCounters)

Rep(s) == \E i, j \in 1 .. Len(s) : i < j /\ KeyOf(s[i]) = KeyOf(s[j])

\* The history maps the queues of the entries, each to the counter of its entry.
Keyed(s, w) == /\ DOMAIN w = {KeyOf(s[i]) : i \in 1 .. Len(s)}
               /\ \A i \in 1 .. Len(s) : w[KeyOf(s[i])] = s[i][3]

QmapInv ==
  /\ DOMAIN qmap = Dirs /\ DOMAIN qwant = Dirs
  /\ \A dir \in Dirs : qmap[dir] \in Seq(Mappings) /\ (~Rep(qmap[dir]) => Keyed(qmap[dir], qwant[dir]))

\* Where no queue is named twice, the last entry of a queue is its entry.
LEMMA OnlyEntry ==
  ASSUME NEW s \in Seq(Mappings), ~Rep(s), NEW i \in 1 .. Len(s)
  PROVE  EntriesOf(s, KeyOf(s[i])) = {i} /\ LastFor(s, KeyOf(s[i])) = s[i][3]
<1>1. \A j \in 1 .. Len(s) : KeyOf(s[j]) = KeyOf(s[i]) => i = j
  BY DEF Rep
<1>2. EntriesOf(s, KeyOf(s[i])) = {i}
  BY <1>1, Zenon, ZenonT(40) DEF EntriesOf
<1>3. Max({i}) = i
  <2>1. i \in {i} /\ \A y \in {i} : i >= y
    OBVIOUS
  <2>2. \A x \in {i} : x = i
    OBVIOUS
  <2> QED BY <2>1, <2>2 DEF Max
<1> QED BY <1>2, <1>3, Zenon, ZenonT(40) DEF LastFor

\* set_qmap appends an entry for a queue that has none.
LEMMA MappingAdded ==
  ASSUME NEW s \in Seq(Mappings), NEW w, ~Rep(s) => Keyed(s, w), NEW e \in Mappings,
         \A i \in 1 .. Len(s) : KeyOf(s[i]) # KeyOf(e)
  PROVE  /\ Append(s, e) \in Seq(Mappings)
         /\ ~Rep(Append(s, e)) => Keyed(Append(s, e), Assign(w, KeyOf(e), e[3]))
<1> DEFINE t == Append(s, e)
           k == KeyOf(e)
           c == e[3]
           w2 == Assign(w, k, c)
<1>1. Len(s) \in Nat
  OBVIOUS
<1>2. /\ t \in Seq(Mappings) /\ Len(t) = Len(s) + 1 /\ t[Len(s) + 1] = e
      /\ \A i \in 1 .. Len(s) : t[i] = s[i]
  OBVIOUS
<1> HIDE DEF t
<1>3. \A i \in 1 .. Len(t) : i \in 1 .. Len(s) \/ i = Len(s) + 1
  BY <1>1, <1>2
<1>4. Len(s) + 1 \in 1 .. Len(t) /\ \A i \in 1 .. Len(s) : i \in 1 .. Len(t)
  BY <1>1, <1>2
<1> SUFFICES ASSUME ~Rep(t) PROVE Keyed(t, w2)
  BY <1>2 DEF t
<1>5. Keyed(s, w)
  BY <1>2, <1>4, SMTT(30), SMTT(60) DEF Rep
<1>6. /\ DOMAIN w2 = DOMAIN w \union {k} /\ w2[k] = e[3]
      /\ \A x \in DOMAIN w : x # k => w2[x] = w[x]
  <2> HIDE DEF k, c
  <2>1. /\ DOMAIN w2 = DOMAIN w \union {k} /\ w2[k] = c
        /\ \A x \in DOMAIN w : x # k => w2[x] = w[x]
    BY DEF Assign
  <2> QED BY <2>1 DEF c
<1> HIDE DEF w2, k
<1>7. \A i \in 1 .. Len(s) : KeyOf(t[i]) \in DOMAIN w /\ KeyOf(t[i]) # k /\ w[KeyOf(t[i])] = t[i][3]
  BY <1>2, <1>5, Zenon, ZenonT(40) DEF Keyed, k
<1>8. KeyOf(t[Len(s) + 1]) = k /\ t[Len(s) + 1][3] = e[3]
  BY <1>2, Zenon, ZenonT(40) DEF k
<1>9. \A x \in DOMAIN w : \E i \in 1 .. Len(s) : KeyOf(t[i]) = x
  BY <1>2, <1>5, ZenonT(40), ZenonT(60) DEF Keyed
<1>10. \A i \in 1 .. Len(t) : KeyOf(t[i]) \in DOMAIN w2 /\ w2[KeyOf(t[i])] = t[i][3]
  BY <1>3, <1>6, <1>7, <1>8, Zenon, ZenonT(40)
<1>11. \A x \in DOMAIN w2 : \E i \in 1 .. Len(t) : KeyOf(t[i]) = x
  BY <1>4, <1>6, <1>8, <1>9, Zenon, ZenonT(40)
<1>12. DOMAIN w2 = {KeyOf(t[i]) : i \in 1 .. Len(t)}
  BY <1>10, <1>11, ZenonT(40), ZenonT(60)
<1> QED BY <1>10, <1>12, SMTT(30), SMTT(60) DEF Keyed

\* set_qmap changes the entry of a queue that has one.
LEMMA MappingChanged ==
  ASSUME NEW s \in Seq(Mappings), NEW w, ~Rep(s) => Keyed(s, w), NEW e \in Mappings,
         NEW m \in 1 .. Len(s), KeyOf(s[m]) = KeyOf(e)
  PROVE  /\ [s EXCEPT ![m] = e] \in Seq(Mappings)
         /\ ~Rep([s EXCEPT ![m] = e]) =>
              Keyed([s EXCEPT ![m] = e], Assign(w, KeyOf(e), e[3]))
<1> DEFINE t == [s EXCEPT ![m] = e]
           k == KeyOf(e)
           c == e[3]
           w2 == Assign(w, k, c)
<1>1. /\ t \in Seq(Mappings) /\ Len(t) = Len(s) /\ t[m] = e
      /\ \A i \in 1 .. Len(s) : i # m => t[i] = s[i]
  OBVIOUS
<1> HIDE DEF t
<1>2. \A i \in 1 .. Len(s) : KeyOf(t[i]) = KeyOf(s[i])
  BY <1>1, Zenon, ZenonT(40)
<1>3. Rep(s) => Rep(t)
  BY <1>1, <1>2 DEF Rep
<1> SUFFICES ASSUME ~Rep(t) PROVE Keyed(t, w2)
  BY <1>1 DEF t
<1>4. Keyed(s, w) /\ ~Rep(s)
  BY <1>3, SMTT(30), SMTT(60)
<1>5. /\ DOMAIN w2 = DOMAIN w \union {k} /\ w2[k] = e[3]
      /\ \A x \in DOMAIN w : x # k => w2[x] = w[x]
  <2> HIDE DEF k, c
  <2>1. /\ DOMAIN w2 = DOMAIN w \union {k} /\ w2[k] = c
        /\ \A x \in DOMAIN w : x # k => w2[x] = w[x]
    BY DEF Assign
  <2> QED BY <2>1 DEF c
<1>6. k \in DOMAIN w
  BY <1>4, Zenon, ZenonT(40) DEF Keyed
<1>7. \A i \in 1 .. Len(s) : i # m => KeyOf(s[i]) # k
  BY <1>4 DEF Rep
<1> HIDE DEF w2, k
<1>8. \A i \in 1 .. Len(s) : i # m => w2[KeyOf(t[i])] = t[i][3]
  BY <1>1, <1>4, <1>5, <1>7, ZenonT(40), ZenonT(60) DEF Keyed
<1>9. w2[KeyOf(t[m])] = t[m][3]
  BY <1>1, <1>5, Zenon, ZenonT(40) DEF k
<1>10. DOMAIN w2 = {KeyOf(t[i]) : i \in 1 .. Len(t)}
  <2>1. DOMAIN w2 = DOMAIN w
    BY <1>5, <1>6, Zenon, ZenonT(40)
  <2>2. {KeyOf(t[i]) : i \in 1 .. Len(t)} = {KeyOf(s[i]) : i \in 1 .. Len(s)}
    BY <1>1, <1>2, Zenon, ZenonT(40)
  <2> QED BY <1>4, <2>1, <2>2, Zenon, ZenonT(40) DEF Keyed
<1> QED BY <1>1, <1>8, <1>9, <1>10, Zenon, ZenonT(40) DEF Keyed

\* set_qmap as a whole.
LEMMA MappingSet ==
  ASSUME NEW s \in Seq(Mappings), NEW w, ~Rep(s) => Keyed(s, w), NEW e \in Mappings
  PROVE  LET t == IF EntriesOf(s, KeyOf(e)) = {} THEN Append(s, e)
                  ELSE [s EXCEPT ![Min(EntriesOf(s, KeyOf(e)))] = e]
         IN t \in Seq(Mappings) /\ (~Rep(t) => Keyed(t, Assign(w, KeyOf(e), e[3])))
<1> DEFINE at == EntriesOf(s, KeyOf(e))
<1>1. at \subseteq 1 .. Len(s) /\ \A i \in 1 .. Len(s) : i \in at <=> KeyOf(s[i]) = KeyOf(e)
  BY Zenon, ZenonT(40) DEF EntriesOf
<1> HIDE DEF at
<1>2. CASE at = {}
  <2>1. \A i \in 1 .. Len(s) : KeyOf(s[i]) # KeyOf(e)
    BY <1>1, <1>2, Zenon, ZenonT(40)
  <2> QED BY <1>2, <2>1, MappingAdded, Zenon, ZenonT(40) DEF at
<1>3. CASE at # {}
  <2>1. at \in SUBSET Nat
    <3>1. Len(s) \in Nat
      OBVIOUS
    <3>2. \A i \in 1 .. Len(s) : i \in Nat
      BY <3>1
    <3> QED BY <1>1, <3>2, Zenon, ZenonT(40)
  <2>2. Min(at) \in at
    BY <1>3, <2>1, Least, Zenon, ZenonT(40) DEF Min
  <2>3. Min(at) \in 1 .. Len(s) /\ KeyOf(s[Min(at)]) = KeyOf(e)
    BY <1>1, <2>2, Zenon, ZenonT(40)
  <2> QED BY <1>3, <2>3, MappingChanged, Zenon, ZenonT(40) DEF at
<1> QED BY <1>2, <1>3, Zenon, ZenonT(40)

\* Mapping commands, launch options and starts of ports keep the invariant.
LEMMA QmapKept == QmapInv /\ [QmapNext]_qmapvars => QmapInv'
<1> SUFFICES ASSUME QmapInv, [QmapNext]_qmapvars PROVE QmapInv'
  OBVIOUS
<1>1. CASE UNCHANGED <<qmap, qwant>>
  BY <1>1 DEF QmapInv
<1>2. CASE parse_queue_stats_mapping_config
  <2>1. PICK dir \in Dirs, n \in 0 .. 2 : \E list \in [1 .. n -> Mappings] :
          /\ qmap' = [qmap EXCEPT ![dir] = list]
          /\ qwant' = [qwant EXCEPT ![dir] =
                         [k \in {KeyOf(list[i]) : i \in 1 .. n} |-> LastFor(list, k)]]
    BY <1>2, ZenonT(40), ZenonT(60) DEF parse_queue_stats_mapping_config, Mappings
  <2>2. PICK list \in [1 .. n -> Mappings] :
          /\ qmap' = [qmap EXCEPT ![dir] = list]
          /\ qwant' = [qwant EXCEPT ![dir] =
                         [k \in {KeyOf(list[i]) : i \in 1 .. n} |-> LastFor(list, k)]]
    BY <2>1, Zenon, ZenonT(40)
  <2> DEFINE w == [k \in {KeyOf(list[i]) : i \in 1 .. n} |-> LastFor(list, k)]
  <2>3. list \in Seq(Mappings) /\ Len(list) = n
    OBVIOUS
  <2>4. ~Rep(list) => Keyed(list, w)
    <3> SUFFICES ASSUME ~Rep(list) PROVE Keyed(list, w)
      OBVIOUS
    <3>1. ASSUME NEW i \in 1 .. n PROVE w[KeyOf(list[i])] = list[i][3]
      <4>1. w[KeyOf(list[i])] = LastFor(list, KeyOf(list[i]))
        BY Zenon, ZenonT(40)
      <4> HIDE DEF w
      <4> QED BY <2>3, <4>1, OnlyEntry
    <3> QED BY <2>3, <3>1, Zenon, ZenonT(40) DEF Keyed
  <2> HIDE DEF w
  <2>5. /\ DOMAIN qmap' = Dirs /\ DOMAIN qwant' = Dirs /\ qmap'[dir] = list /\ qwant'[dir] = w
        /\ \A d \in Dirs : d # dir => qmap'[d] = qmap[d] /\ qwant'[d] = qwant[d]
    BY <2>2 DEF QmapInv, w
  <2> QED BY <2>3, <2>4, <2>5, Zenon, ZenonT(40) DEF QmapInv
<1>3. CASE cmd_set_qmap
  <2>1. PICK p \in FewPorts, dir \in Dirs, q \in TypedQueues, v \in 0 .. NbCounters :
          set_qmap(p, dir, q, v)
    BY <1>3 DEF cmd_set_qmap
  <2> DEFINE s == qmap[dir]
             e == <<p, q, v>>
             t == IF EntriesOf(s, KeyOf(e)) = {} THEN Append(s, e)
                  ELSE [s EXCEPT ![Min(EntriesOf(s, KeyOf(e)))] = e]
             w == Assign(qwant[dir], KeyOf(e), e[3])
  <2>a. KeyOf(e) = <<p, q>> /\ e[3] = v /\ e \in Mappings
    BY DEF KeyOf, Mappings
  <2>2. qmap' = [qmap EXCEPT ![dir] = t] /\ qwant' = [qwant EXCEPT ![dir] = w]
    BY <2>1, <2>a, Zenon, ZenonT(40) DEF set_qmap
  <2>3. s \in Seq(Mappings) /\ (~Rep(s) => Keyed(s, qwant[dir]))
    BY DEF QmapInv
  <2>4. t \in Seq(Mappings) /\ (~Rep(t) => Keyed(t, w))
    <3> HIDE DEF s, e
    <3> QED BY <2>a, <2>3, MappingSet, Zenon, ZenonT(40)
  <2> HIDE DEF s, t, w
  <2>5. /\ DOMAIN qmap' = Dirs /\ DOMAIN qwant' = Dirs /\ qmap'[dir] = t /\ qwant'[dir] = w
        /\ \A d \in Dirs : d # dir => qmap'[d] = qmap[d] /\ qwant'[d] = qwant[d]
    BY <2>2 DEF QmapInv
  <2> QED BY <2>4, <2>5, Zenon, ZenonT(40) DEF QmapInv
<1>4. CASE init_port_config_qmap \/ start_stop
  <2>1. qmap' = qmap /\ qwant' = qwant
    BY <1>4, Zenon, ZenonT(40) DEF init_port_config_qmap, start_stop
  <2> QED BY <1>1, <2>1, SMTT(30), SMTT(60)
<1> QED BY <1>1, <1>2, <1>3, <1>4 DEF QmapNext, qmapvars

\* What forwarding starts with.
LEMMA RegisterWritten ==
  ASSUME QmapInv, NEW S, map_port_queue_stats_mapping_registers(S),
         NEW dir \in Dirs, ~Repeated(dir), NEW k \in DOMAIN qwant[dir],
         k[1] \in S, k[2] < NbQueues
  PROVE  qreg'[dir][k[1]][k[2]] = qwant[dir][k]
<1> DEFINE s == qmap[dir]
<1>1. s \in Seq(Mappings) /\ ~Rep(s) /\ Keyed(s, qwant[dir])
  BY DEF QmapInv, Repeated, Rep
<1>2. PICK i \in 1 .. Len(s) : k = KeyOf(s[i])
  BY <1>1, ZenonT(40), ZenonT(60) DEF Keyed
<1>3. s[i] \in Mappings
  BY <1>1, SMTT(30), SMTT(60)
<1>4. k[1] \in Ports /\ k[2] \in 0 .. NbQueues - 1 /\ k = <<k[1], k[2]>>
  <2>1. k = <<s[i][1], s[i][2]>>
    BY <1>2 DEF KeyOf
  <2>2. s[i][1] \in FewPorts /\ s[i][2] \in TypedQueues
    BY <1>3, SMTT(30), SMTT(60) DEF Mappings
  <2>3. k[1] \in FewPorts /\ k[2] \in TypedQueues /\ k = <<k[1], k[2]>>
    BY <2>1, <2>2
  <2>4. k[1] \in Ports
    BY <2>3, BaseAssumption, Zenon, ZenonT(40)
  <2>5. k[2] \in 0 .. NbQueues /\ NbQueues \in Nat
    BY <2>3, BaseAssumption, SMTT(30), SMTT(60) DEF TypedQueues
  <2>6. k[2] \in 0 .. NbQueues - 1
    BY <2>5
  <2> QED BY <2>3, <2>4, <2>6, SMTT(30), SMTT(60)
<1>5. EntriesOf(s, k) = {i} /\ LastFor(s, k) = s[i][3]
  <2> HIDE DEF s
  <2> QED BY <1>1, <1>2, OnlyEntry, Zenon, ZenonT(40)
<1>6. qreg'[dir][k[1]] = SetRegisters(dir, k[1])
  BY <1>4 DEF map_port_queue_stats_mapping_registers
<1>7. SetRegisters(dir, k[1])[k[2]] = s[i][3]
  BY <1>4, <1>5, Zenon, ZenonT(40) DEF SetRegisters
<1> QED BY <1>1, <1>2, <1>6, <1>7, SMTT(30), SMTT(60) DEF Keyed

\* When forwarding starts, every queue of a port that takes part counts in the
\* register typed last for it (set_qmap, map_port_queue_stats_mapping_registers), for any number of mappings
\* as long as the launch option named no queue twice.
THEOREM MappingsInForce == QmapSpec => QmapInForce
<1>1. QmapInit => QmapInv
  <2>1. Keyed(<<>>, <<>>)
    BY DEF Keyed
  <2> QED BY <2>1 DEF QmapInit, QmapInv
<1>2. QmapInv /\ [QmapNext]_qmapvars =>
        [qmode = "idle" /\ qmode' = "running" =>
           \A dir \in Dirs : ~Repeated(dir) =>
             \A k \in DOMAIN qwant[dir] :
               k[1] \in qfwd' /\ k[2] < NbQueues =>
                 qreg'[dir][k[1]][k[2]] = qwant[dir][k]]_qmapvars
  <2> SUFFICES ASSUME QmapInv, [QmapNext]_qmapvars, qmode = "idle", qmode' = "running"
               PROVE  \A dir \in Dirs : ~Repeated(dir) =>
                        \A k \in DOMAIN qwant[dir] :
                          k[1] \in qfwd' /\ k[2] < NbQueues =>
                            qreg'[dir][k[1]][k[2]] = qwant[dir][k]
    OBVIOUS
  <2>1. map_port_queue_stats_mapping_registers(qfwd')
    BY DEF QmapNext, qmapvars, parse_queue_stats_mapping_config, cmd_set_qmap,
           init_port_config_qmap, start_stop
  <2> QED BY <2>1, RegisterWritten, SMTT(30), SMTT(60)
<1> QED BY <1>1, <1>2, QmapKept, PTL DEF QmapSpec, QmapInForce

-----------------------------------------------------------------------------
\* The sorted list of a mask has every member once.
LEMMA Sorted ==
  ASSUME NEW K \in SUBSET Nat, IsFiniteSet(K)
  PROVE  /\ Cardinality(K) \in Nat /\ SortedSeq(K) \in [1 .. Cardinality(K) -> K]
         /\ \A i, j \in 1 .. Cardinality(K) : SortedSeq(K)[i] = SortedSeq(K)[j] => i = j
<1> DEFINE n == Cardinality(K)
           UpTo(k) == {j \in K : j <= k}
           rank == [k \in K |-> Cardinality(UpTo(k))]
<1>1. n \in Nat
  BY FS_CardinalityType
<1>2. ASSUME NEW k \in K
      PROVE  IsFiniteSet(UpTo(k)) /\ Cardinality(UpTo(k)) \in 1 .. n
  <2>1. UpTo(k) \in SUBSET K /\ k \in UpTo(k)
    OBVIOUS
  <2> HIDE DEF UpTo
  <2>2. IsFiniteSet(UpTo(k)) /\ Cardinality(UpTo(k)) <= n
    BY <2>1, FS_Subset
  <2>3. Cardinality(UpTo(k)) \in Nat /\ Cardinality(UpTo(k)) # 0
    BY <2>1, <2>2, FS_CardinalityType, FS_EmptySet
  <2> QED
    BY <1>1, <2>2, <2>3
<1>3. ASSUME NEW k \in K, NEW l \in K, k < l
      PROVE  Cardinality(UpTo(k)) # Cardinality(UpTo(l))
  <2>1. UpTo(k) \in SUBSET UpTo(l) /\ l \in UpTo(l) /\ l \notin UpTo(k)
    <3>1. k \in Nat /\ l \in Nat /\ l <= l /\ ~(l <= k) /\ \A j \in K : j <= k => j <= l
      BY <1>3
    <3> QED
      BY <3>1, Zenon, ZenonT(40)
  <2> HIDE DEF UpTo
  <2> QED
    BY <1>2, <2>1, FS_Subset
<1>4. \A k, l \in K : rank[k] = rank[l] => k = l
  <2> SUFFICES ASSUME NEW k \in K, NEW l \in K, k # l
               PROVE  rank[k] # rank[l]
    OBVIOUS
  <2>1. k < l \/ l < k
    OBVIOUS
  <2>2. rank[k] = Cardinality(UpTo(k)) /\ rank[l] = Cardinality(UpTo(l))
    OBVIOUS
  <2> HIDE DEF UpTo, rank
  <2> QED
    BY <1>3, <2>1, <2>2
<1>5. rank \in [K -> 1 .. n]
  <2> HIDE DEF UpTo, n
  <2> QED
    BY <1>2
<1>6. rank \in Surjection(K, 1 .. n)
  <2> HIDE DEF rank
  <2>1. rank \in Injection(K, 1 .. n)
    BY <1>4, <1>5 DEF Injection, IsInjective
  <2>2. IsFiniteSet(1 .. n) /\ Cardinality(1 .. n) = n
    BY <1>1, FS_Interval
  <2> QED
    BY <2>1, <2>2, FS_Injection
<1>7. ASSUME NEW i \in 1 .. n
      PROVE  SortedSeq(K)[i] \in K /\ Cardinality(UpTo(SortedSeq(K)[i])) = i
  <2>1. PICK k \in K : rank[k] = i
    <3> HIDE DEF rank, n
    <3> QED
      BY <1>6 DEF Surjection
  <2>2. Cardinality(UpTo(k)) = i
    BY <2>1
  <2> QED
    BY <2>2, Zenon, ZenonT(40) DEF SortedSeq
<1>8. \A i, j \in 1 .. n : SortedSeq(K)[i] = SortedSeq(K)[j] => i = j
  <2> HIDE DEF n, UpTo
  <2> QED
    BY <1>7
<1>9. SortedSeq(K) \in [1 .. n -> K]
  <2>1. SortedSeq(K) = [i \in 1 .. n |-> SortedSeq(K)[i]]
    BY SMTT(30), SMTT(60) DEF SortedSeq
  <2> HIDE DEF n
  <2> QED
    BY <1>7, <2>1, Zenon, ZenonT(40)
<1> QED
  BY <1>1, <1>8, <1>9, Zenon, ZenonT(40)

-----------------------------------------------------------------------------
(* Launch options *)

Counts == {"ports", "nb_cfg_ports", "nb_fwd_ports", "cores", "nb_cfg_lcores", "nb_fwd_lcores"}

\* An array of n ids, of which the first cnf, all distinct, are configured and
\* the first fwd forward.
CountOK(ids, cnf, fwd, n) ==
  /\ ids \in [1 .. n -> Nat] /\ cnf \in 0 .. n /\ fwd \in 0 .. n /\ (fwd = 0 => cnf = 0)
  /\ \A i, j \in 1 .. cnf : ids[i] = ids[j] => i = j
  /\ ~raised => fwd <= cnf

LaunchInv ==
  /\ Counts \subseteq DOMAIN cfg
  /\ CountOK(cfg["ports"], cfg["nb_cfg_ports"], cfg["nb_fwd_ports"], NbPorts)
  /\ CountOK(cfg["cores"], cfg["nb_cfg_lcores"], cfg["nb_fwd_lcores"], LaunchCores)
  /\ cfg["nb_cfg_ports"] = 0 => beyond
  /\ cfg["nb_fwd_lcores"] # 0

\* An option that leaves the counts alone.
LEMMA OtherOption ==
  ASSUME LaunchInv, NEW ok, NEW new, Take(ok, new), Counts \subseteq DOMAIN new,
         \A f \in Counts : new[f] = cfg[f]
  PROVE  LaunchInv'
<1>1. UNCHANGED <<raised, beyond>> /\ (cfg' = new \/ cfg' = cfg)
  BY DEF Take, Exit
<1>2. Counts \subseteq DOMAIN cfg' /\ \A f \in Counts : cfg'[f] = cfg[f]
  BY <1>1 DEF LaunchInv
<1>3. /\ cfg'["ports"] = cfg["ports"] /\ cfg'["nb_cfg_ports"] = cfg["nb_cfg_ports"]
      /\ cfg'["nb_fwd_ports"] = cfg["nb_fwd_ports"] /\ cfg'["cores"] = cfg["cores"]
      /\ cfg'["nb_cfg_lcores"] = cfg["nb_cfg_lcores"]
      /\ cfg'["nb_fwd_lcores"] = cfg["nb_fwd_lcores"]
  BY <1>2 DEF Counts
<1> QED BY <1>1, <1>2, <1>3 DEF LaunchInv, CountOK

\* The same for an option that sets one global.
LEMMA OtherPut ==
  ASSUME LaunchInv, NEW ok, NEW f, NEW v, f \notin Counts, Take(ok, Put(f, v))
  PROVE  LaunchInv'
<1>1. Counts \subseteq DOMAIN Put(f, v) /\ \A g \in Counts : Put(f, v)[g] = cfg[g]
  BY SMTT(30), SMTT(60) DEF Put, LaunchInv
<1> QED BY <1>1, OtherOption, Zenon, ZenonT(40)

\* A mask writes its members to the head of the array.
LEMMA MaskWritten ==
  ASSUME NEW n \in Nat, NEW ids \in [1 .. n -> Nat], NEW mask \in SUBSET Nat, NEW S, IsFiniteSet(S),
         Cardinality(S) = n, mask \subseteq S
  PROVE  CountOK(Overwrite(ids, SortedSeq(mask)), Cardinality(mask), Cardinality(mask), n)
<1> DEFINE c == Cardinality(mask)
           s == SortedSeq(mask)
           t == Overwrite(ids, s)
<1>1. IsFiniteSet(mask) /\ c <= n
  BY FS_Subset, Zenon, ZenonT(40)
<1>2. c \in Nat
  BY <1>1, FS_CardinalityType, SMTT(30), SMTT(60)
<1>3. s \in [1 .. c -> mask] /\ \A i, j \in 1 .. c : s[i] = s[j] => i = j
  BY <1>1, Sorted
<1> HIDE DEF c, s
<1>4. Len(ids) = n /\ Len(s) = c
  BY <1>2, <1>3
<1>5. t = [i \in 1 .. n |-> IF i <= c THEN s[i] ELSE ids[i]]
  BY <1>4 DEF Overwrite
<1>6. ASSUME NEW i \in 1 .. n PROVE t[i] \in Nat
  <2>1. ASSUME i <= c PROVE s[i] \in Nat
    <3>1. i \in 1 .. c
      BY <1>2, <2>1
    <3>2. s[i] \in mask
      BY <1>3, <3>1
    <3> QED BY <3>2, Zenon, ZenonT(40)
  <2>2. ids[i] \in Nat /\ t[i] = IF i <= c THEN s[i] ELSE ids[i]
    BY <1>5
  <2> HIDE DEF t
  <2> QED BY <2>1, <2>2, Zenon, ZenonT(40)
<1>7. t \in [1 .. n -> Nat]
  BY <1>5, <1>6
<1>8. \A i \in 1 .. c : t[i] = s[i]
  BY <1>1, <1>2, <1>5
<1> HIDE DEF t
<1>9. \A i, j \in 1 .. c : t[i] = t[j] => i = j
  BY <1>3, <1>8, Zenon, ZenonT(40)
<1>10. c \in 0 .. n /\ c <= c
  BY <1>1, <1>2
<1> QED BY <1>7, <1>9, <1>10 DEF CountOK, c, s, t

\* The four options that set the counts.
LEMMA CountsKept ==
  ASSUME LaunchInv, CountOptions
  PROVE  LaunchInv'
<1>1. CASE parse_fwd_portmask
  <2>1. PICK mask \in SUBSET (0 .. MaxPorts) :
          /\ cfg' = set_fwd_ports_mask(mask)
          /\ beyond' = (beyond \/ (mask # {} /\ Considered(mask) = {}))
          /\ UNCHANGED raised
    BY <1>1, Zenon, ZenonT(40) DEF parse_fwd_portmask
  <2> DEFINE list == Considered(mask)
  <2>2. CASE mask = {} \/ ~(list \subseteq PortId)
    <3>1. cfg' = cfg
      BY <2>1, <2>2, Zenon, ZenonT(40) DEF set_fwd_ports_mask
    <3> QED BY <2>1, <3>1, Zenon, ZenonT(40) DEF LaunchInv, CountOK
  <2>3. CASE mask # {} /\ list \subseteq PortId
    <3> DEFINE t == Overwrite(cfg["ports"], SortedSeq(list))
               c == Cardinality(list)
               new == [cfg EXCEPT !["ports"] = t, !["nb_cfg_ports"] = c, !["nb_fwd_ports"] = c]
    <3>1. cfg' = new /\ UNCHANGED raised
      BY <2>1, <2>3, Zenon, ZenonT(40) DEF set_fwd_ports_mask
    <3>2. CountOK(t, c, c, NbPorts)
      <4>1. NbPorts \in Nat /\ cfg["ports"] \in [1 .. NbPorts -> Nat]
        BY LaunchAssumption, SMTT(30), SMTT(60) DEF LaunchInv, CountOK
      <4>2. list \in SUBSET Nat
        BY LaunchAssumption DEF Considered
      <4>3. IsFiniteSet(PortId) /\ Cardinality(PortId) = NbPorts
        BY <4>1, FS_Interval, SMTT(30), SMTT(60) DEF PortId
      <4> HIDE DEF list
      <4> QED BY <2>3, <4>1, <4>2, <4>3, MaskWritten, Zenon, ZenonT(40)
    <3>3. c = 0 => beyond'
      <4>1. IsFiniteSet(list)
        <5>1. IsFiniteSet(PortId)
          BY LaunchAssumption, FS_Interval, SMTT(30), SMTT(60) DEF PortId
        <5> HIDE DEF list
        <5> QED BY <2>3, <5>1, FS_Subset, Zenon, ZenonT(40)
      <4>2. c = 0 => list = {}
        BY <4>1, FS_EmptySet, Zenon, ZenonT(40)
      <4> QED BY <2>1, <2>3, <4>2, Zenon, ZenonT(40)
    <3> HIDE DEF t, c, list
    <3>4. /\ Counts \subseteq DOMAIN new /\ new["ports"] = t /\ new["nb_cfg_ports"] = c
          /\ new["nb_fwd_ports"] = c /\ new["cores"] = cfg["cores"]
          /\ new["nb_cfg_lcores"] = cfg["nb_cfg_lcores"]
          /\ new["nb_fwd_lcores"] = cfg["nb_fwd_lcores"]
      BY DEF LaunchInv, Counts
    <3> HIDE DEF new
    <3> QED BY <3>1, <3>2, <3>3, <3>4 DEF LaunchInv, CountOK
  <2> QED BY <2>2, <2>3
<1>2. CASE parse_fwd_coremask
  <2>1. PICK mask \in SUBSET (0 .. LaunchCores + 1) :
          Take(mask # {} /\ mask \subseteq 1 .. LaunchCores, set_fwd_lcores_mask(mask))
    BY <1>2 DEF parse_fwd_coremask
  <2>2. CASE ~(mask # {} /\ mask \subseteq 1 .. LaunchCores)
    <3>1. UNCHANGED <<cfg, raised, beyond>>
      BY <2>1, <2>2, SMTT(30), SMTT(60) DEF Take, Exit
    <3> QED BY <3>1 DEF LaunchInv, CountOK
  <2>3. CASE mask # {} /\ mask \subseteq 1 .. LaunchCores
    <3> DEFINE t == Overwrite(cfg["cores"], SortedSeq(mask))
               c == Cardinality(mask)
               new == [cfg EXCEPT !["cores"] = t, !["nb_cfg_lcores"] = c, !["nb_fwd_lcores"] = c]
    <3>1. cfg' = new /\ UNCHANGED <<raised, beyond>>
      BY <2>1, <2>3 DEF Take, set_fwd_lcores_mask
    <3>2. CountOK(t, c, c, LaunchCores)
      <4>1. LaunchCores \in Nat /\ cfg["cores"] \in [1 .. LaunchCores -> Nat]
        BY LaunchAssumption, SMTT(30), SMTT(60) DEF LaunchInv, CountOK
      <4>2. mask \in SUBSET Nat
        BY LaunchAssumption
      <4>3. IsFiniteSet(1 .. LaunchCores) /\ Cardinality(1 .. LaunchCores) = LaunchCores
        BY <4>1, FS_Interval
      <4> QED BY <2>3, <4>1, <4>2, <4>3, MaskWritten, Zenon, ZenonT(40)
    <3>a. c # 0
      <4>1. IsFiniteSet(mask)
        <5>1. IsFiniteSet(1 .. LaunchCores)
          BY LaunchAssumption, FS_Interval, SMTT(30), SMTT(60)
        <5> QED BY <2>3, <5>1, FS_Subset, Zenon, ZenonT(40)
      <4> QED BY <2>3, <4>1, FS_EmptySet, Zenon, ZenonT(40)
    <3> HIDE DEF t, c
    <3>3. /\ Counts \subseteq DOMAIN new /\ new["cores"] = t /\ new["nb_cfg_lcores"] = c
          /\ new["nb_fwd_lcores"] = c /\ new["ports"] = cfg["ports"]
          /\ new["nb_cfg_ports"] = cfg["nb_cfg_ports"]
          /\ new["nb_fwd_ports"] = cfg["nb_fwd_ports"]
      BY DEF LaunchInv, Counts
    <3> HIDE DEF new
    <3> QED BY <3>1, <3>2, <3>3, <3>a, SMTT(30), SMTT(60) DEF LaunchInv, CountOK
  <2> QED BY <2>2, <2>3
<1>3. CASE nb_ports_option
  <2>1. PICK n \in 0 .. NbPorts + 1 :
          IF n > 0 /\ n <= NbPorts
            THEN /\ cfg' = Put("nb_fwd_ports", n)
                 /\ raised' = (raised \/ n > cfg["nb_cfg_ports"]) /\ UNCHANGED beyond
            ELSE Exit
    BY <1>3, SMTT(30), SMTT(60) DEF nb_ports_option, NbOption
  <2>2. CASE ~(n > 0 /\ n <= NbPorts)
    <3>1. UNCHANGED <<cfg, raised, beyond>>
      BY <2>1, <2>2 DEF Exit
    <3> QED BY <3>1, SMTT(30), SMTT(60) DEF LaunchInv, CountOK
  <2>3. CASE n > 0 /\ n <= NbPorts
    <3>1. /\ cfg' = [cfg EXCEPT !["nb_fwd_ports"] = n]
          /\ raised' = (raised \/ n > cfg["nb_cfg_ports"]) /\ UNCHANGED beyond
      BY <2>1, <2>3 DEF Put
    <3>2. /\ Counts \subseteq DOMAIN cfg' /\ cfg'["nb_fwd_ports"] = n
          /\ cfg'["ports"] = cfg["ports"] /\ cfg'["nb_cfg_ports"] = cfg["nb_cfg_ports"]
          /\ cfg'["cores"] = cfg["cores"] /\ cfg'["nb_cfg_lcores"] = cfg["nb_cfg_lcores"]
          /\ cfg'["nb_fwd_lcores"] = cfg["nb_fwd_lcores"]
      BY <3>1 DEF LaunchInv, Counts
    <3>3. n \in 0 .. NbPorts /\ n # 0
      BY <2>3, LaunchAssumption, SMTT(30), SMTT(60)
    <3>4. cfg["nb_cfg_ports"] \in 0 .. NbPorts
      BY DEF LaunchInv, CountOK
    <3>5. ~(n > cfg["nb_cfg_ports"]) => n <= cfg["nb_cfg_ports"]
      BY <3>3, <3>4, LaunchAssumption, SMT
    <3>6. (~raised' => n <= cfg["nb_cfg_ports"]) /\ (~raised' => ~raised)
      BY <3>1, <3>5, Zenon, ZenonT(40)
    <3> QED BY <3>1, <3>2, <3>3, <3>6, Zenon, ZenonT(40) DEF LaunchInv, CountOK
  <2> QED BY <2>2, <2>3
<1>4. CASE nb_cores_option
  <2>1. PICK n \in 0 .. LaunchCores + 1 :
          IF n > 0 /\ n <= LaunchCores
            THEN /\ cfg' = Put("nb_fwd_lcores", n)
                 /\ raised' = (raised \/ n > cfg["nb_cfg_lcores"]) /\ UNCHANGED beyond
            ELSE Exit
    BY <1>4, SMTT(30), SMTT(60) DEF nb_cores_option, NbOption
  <2>2. CASE ~(n > 0 /\ n <= LaunchCores)
    <3>1. UNCHANGED <<cfg, raised, beyond>>
      BY <2>1, <2>2 DEF Exit
    <3> QED BY <3>1 DEF LaunchInv, CountOK
  <2>3. CASE n > 0 /\ n <= LaunchCores
    <3>1. /\ cfg' = [cfg EXCEPT !["nb_fwd_lcores"] = n]
          /\ raised' = (raised \/ n > cfg["nb_cfg_lcores"]) /\ UNCHANGED beyond
      BY <2>1, <2>3 DEF Put
    <3>2. /\ Counts \subseteq DOMAIN cfg' /\ cfg'["nb_fwd_lcores"] = n
          /\ cfg'["ports"] = cfg["ports"] /\ cfg'["nb_cfg_ports"] = cfg["nb_cfg_ports"]
          /\ cfg'["cores"] = cfg["cores"] /\ cfg'["nb_cfg_lcores"] = cfg["nb_cfg_lcores"]
          /\ cfg'["nb_fwd_ports"] = cfg["nb_fwd_ports"]
      BY <3>1 DEF LaunchInv, Counts
    <3>3. n \in 0 .. LaunchCores /\ n # 0
      BY <2>3, LaunchAssumption, SMTT(30), SMTT(60)
    <3>4. cfg["nb_cfg_lcores"] \in 0 .. LaunchCores
      BY DEF LaunchInv, CountOK
    <3>5. ~(n > cfg["nb_cfg_lcores"]) => n <= cfg["nb_cfg_lcores"]
      BY <3>3, <3>4, LaunchAssumption, SMT
    <3>6. (~raised' => n <= cfg["nb_cfg_lcores"]) /\ (~raised' => ~raised)
      BY <3>1, <3>5, Zenon, ZenonT(40)
    <3> QED BY <3>1, <3>2, <3>3, <3>6, Zenon, ZenonT(40) DEF LaunchInv, CountOK
  <2> QED BY <2>2, <2>3
<1> QED BY <1>1, <1>2, <1>3, <1>4 DEF CountOptions

\* The NUMA options write other globals.
LEMMA NumaApart ==
  ASSUME LaunchInv, NumaOptions
  PROVE  LaunchInv'
<1>1. CASE numa_option
  <2> DEFINE none == [p \in PortId |-> NONE]
             new == [cfg EXCEPT !["numa"] = TRUE, !["port_numa"] = none,
                                !["rx_numa"] = none, !["tx_numa"] = none]
  <2>1. Take(TRUE, new)
    BY <1>1, Zenon, ZenonT(40) DEF numa_option
  <2> HIDE DEF none
  <2>2. Counts \subseteq DOMAIN new /\ \A g \in Counts : new[g] = cfg[g]
    BY DEF Counts, LaunchInv
  <2> HIDE DEF new
  <2> QED BY <2>1, <2>2, OtherOption, Zenon, ZenonT(40)
<1>2. CASE parse_portnuma_config
  <2>1. PICK p \in 0 .. NbPorts, sock \in 0 .. MaxSocket :
          Take(SocketOk(p, sock), IF SocketOk(p, sock) THEN [cfg EXCEPT !["port_numa"][p] = sock] ELSE cfg)
    BY <1>2 DEF parse_portnuma_config
  <2> DEFINE new == IF SocketOk(p, sock) THEN [cfg EXCEPT !["port_numa"][p] = sock] ELSE cfg
  <2>2. Counts \subseteq DOMAIN new /\ \A g \in Counts : new[g] = cfg[g]
    BY DEF Counts, LaunchInv
  <2>3. Take(SocketOk(p, sock), new)
    BY <2>1
  <2> HIDE DEF new
  <2> QED BY <2>2, <2>3, OtherOption, Zenon, ZenonT(40)
<1>3. CASE parse_ringnuma_config
  <2>1. PICK p \in 0 .. NbPorts, flag \in 0 .. 4, sock \in 0 .. MaxSocket :
          LET ok == SocketOk(p, sock) /\ flag \in 1 .. 3
          IN Take(ok, IF ok THEN [cfg EXCEPT !["rx_numa"][p] = IF flag \in {1, 3} THEN sock ELSE @,
                                             !["tx_numa"][p] = IF flag \in {2, 3} THEN sock ELSE @]
                      ELSE cfg)
    BY <1>3, Zenon, ZenonT(40) DEF parse_ringnuma_config
  <2> DEFINE ok == SocketOk(p, sock) /\ flag \in 1 .. 3
             new == IF ok THEN [cfg EXCEPT !["rx_numa"][p] = IF flag \in {1, 3} THEN sock ELSE @,
                                           !["tx_numa"][p] = IF flag \in {2, 3} THEN sock ELSE @]
                    ELSE cfg
  <2>2. Take(ok, new)
    BY <2>1, SMTT(30), SMTT(60)
  <2> HIDE DEF ok
  <2>3. Counts \subseteq DOMAIN new /\ \A g \in Counts : new[g] = cfg[g]
    BY DEF Counts, LaunchInv
  <2> HIDE DEF new
  <2> QED BY <2>2, <2>3, OtherOption, Zenon, ZenonT(40)
<1>4. CASE socket_num_option
  <2>1. "socket_num" \notin Counts
    BY DEF Counts
  <2> QED BY <1>4, <2>1, OtherPut, Zenon, ZenonT(40) DEF socket_num_option
<1> QED BY <1>1, <1>2, <1>3, <1>4 DEF NumaOptions

\* The options with a number write other globals.
LEMMA NumbersApart ==
  ASSUME LaunchInv, NumberOptions
  PROVE  LaunchInv'
<1>1. CASE range_option
  <2>1. PICK f \in DOMAIN Ranges, n \in -1 .. MbufSize + 2 : Take(n \in Ranges[f], Put(f, n))
    BY <1>1, Zenon, ZenonT(40) DEF range_option
  <2>2. f \notin Counts
    BY DEF Ranges, Counts
  <2> QED BY <2>1, <2>2, OtherPut, Zenon, ZenonT(40)
<1>2. CASE total_num_mbufs_option
  <2>1. "total_mbufs" \notin Counts
    BY DEF Counts
  <2> QED BY <1>2, <2>1, OtherPut, Zenon, ZenonT(40) DEF total_num_mbufs_option
<1>3. CASE txd_option
  <2>1. "txd" \notin Counts
    BY DEF Counts
  <2> QED BY <1>3, <2>1, OtherPut, Zenon, ZenonT(40) DEF txd_option
<1>4. CASE thresh_option
  <2>1. \A f \in Thresholds : f \notin Counts
    BY DEF Thresholds, Counts
  <2> QED BY <1>4, <2>1, OtherPut, Zenon, ZenonT(40) DEF thresh_option
<1>5. CASE freet_option
  <2>1. \A f \in {"txfreet", "txrst", "rxfreet", "txqflags", "drop_queue"} : f \notin Counts
    BY DEF Counts
  <2> QED BY <1>5, <2>1, OtherPut, Zenon, ZenonT(40) DEF freet_option
<1>6. CASE rxd_option
  <2>1. "rxd" \notin Counts
    BY DEF Counts
  <2> QED BY <1>6, <2>1, OtherPut, Zenon, ZenonT(40) DEF rxd_option
<1>7. CASE max_pkt_len_option
  <2>1. PICK n \in 0 .. 2 :
          Take(n > 0, [cfg EXCEPT !["max_pkt_len"] = n, !["jumbo_frame"] = @ \/ n = 2])
    BY <1>7, Zenon, ZenonT(40) DEF max_pkt_len_option
  <2> DEFINE new == [cfg EXCEPT !["max_pkt_len"] = n, !["jumbo_frame"] = @ \/ n = 2]
  <2>2. Counts \subseteq DOMAIN new /\ \A g \in Counts : new[g] = cfg[g]
    BY DEF Counts, LaunchInv
  <2>3. Take(n > 0, new)
    BY <2>1
  <2> HIDE DEF new
  <2> QED BY <2>2, <2>3, OtherOption, Zenon, ZenonT(40)
<1>8. CASE txpkts_option
  <2>1. "segs" \notin Counts
    BY DEF Counts
  <2>2. PICK n, k \in {Blank, Junk, 1, MbufSize + 1} :
          LET lens == parse_item_list(<<n, k>>, MaxSegs, FALSE)
              fits == /\ Len(lens) < cfg["txd"] /\ SegTotal(lens) >= MinLen
                      /\ \A i \in 1 .. Len(lens) : lens[i] <= cfg["mbuf_size"]
          IN Take(lens # <<>>, IF fits THEN Put("segs", lens) ELSE cfg)
    BY <1>8, Zenon, ZenonT(40) DEF txpkts_option
  <2>3. PICK ok, lens : Take(ok, Put("segs", lens)) \/ Take(ok, cfg)
    BY <2>2, Zenon, ZenonT(40)
  <2>4. Counts \subseteq DOMAIN cfg
    BY DEF LaunchInv
  <2> QED BY <2>1, <2>3, <2>4, OtherPut, OtherOption, Zenon, ZenonT(40)
<1> QED BY <1>1, <1>2, <1>3, <1>4, <1>5, <1>6, <1>7, <1>8, SMTT(30), SMTT(60) DEF NumberOptions

\* The words, switches and peers write other globals.
LEMMA WordsApart ==
  ASSUME LaunchInv, WordOptions
  PROVE  LaunchInv'
<1>0. Counts \subseteq DOMAIN cfg
  BY DEF LaunchInv
<1>1. CASE word_option
  <2>1. \A f \in DOMAIN Words : f \notin Counts
    BY DEF Words, Counts
  <2> QED BY <1>1, <2>1, OtherPut, Zenon, ZenonT(40) DEF word_option
<1>2. CASE forward_mode_option
  <2>1. "forward_mode" \notin Counts
    BY DEF Counts
  <2>2. PICK w : Take(TRUE, cfg) \/ Take(TRUE, Put("forward_mode", w))
    BY <1>2, Zenon, ZenonT(40) DEF forward_mode_option
  <2> QED BY <1>0, <2>1, <2>2, OtherPut, OtherOption, Zenon, ZenonT(40)
<1>3. CASE flag_option
  <2>1. \A f \in SwitchedOn \union SwitchedOff : f \notin Counts
    BY DEF SwitchedOn, SwitchedOff, Counts
  <2>2. CASE \E f \in SwitchedOn : Take(TRUE, Put(f, TRUE))
    BY <2>1, <2>2, OtherPut, Zenon, ZenonT(40)
  <2>3. CASE \E f \in SwitchedOff : Take(TRUE, Put(f, FALSE))
    BY <2>1, <2>3, OtherPut, Zenon, ZenonT(40)
  <2>4. CASE Take(TRUE, [f \in DOMAIN cfg |-> IF f \in SwitchedOff THEN FALSE ELSE cfg[f]])
    <3> DEFINE new == [f \in DOMAIN cfg |-> IF f \in SwitchedOff THEN FALSE ELSE cfg[f]]
    <3>1. Counts \subseteq DOMAIN new /\ \A g \in Counts : new[g] = cfg[g]
      BY <1>0, <2>1, Zenon, ZenonT(40)
    <3> HIDE DEF new
    <3> QED BY <2>4, <3>1, OtherOption, Zenon, ZenonT(40) DEF new
  <2> QED BY <1>3, <2>2, <2>3, <2>4, Zenon, ZenonT(40) DEF flag_option
<1>4. CASE rss_option
  <2>1. "rss_hf" \notin Counts
    BY DEF Counts
  <2> QED BY <1>4, <2>1, OtherPut, Zenon, ZenonT(40) DEF rss_option
<1>5. CASE eth_peer_option
  <2>1. PICK n \in 0 .. NbPorts :
          Take(n \in PortId, IF n \in PortId THEN [cfg EXCEPT !["peers"] = @ \union {n}, !["nb_peers"] = @ + 1]
                             ELSE cfg)
    BY <1>5, Zenon, ZenonT(40) DEF eth_peer_option
  <2> DEFINE new == IF n \in PortId THEN [cfg EXCEPT !["peers"] = @ \union {n}, !["nb_peers"] = @ + 1]
                    ELSE cfg
  <2>2. Counts \subseteq DOMAIN new /\ \A g \in Counts : new[g] = cfg[g]
    BY <1>0 DEF Counts
  <2>3. Take(n \in PortId, new)
    BY <2>1
  <2> HIDE DEF new
  <2> QED BY <2>2, <2>3, OtherOption, Zenon, ZenonT(40)
<1>6. CASE init_peer_eth_addrs
  <2>1. PICK lines \in 0 .. NbPorts, ok \in BOOLEAN :
          Take(ok, [cfg EXCEPT !["peers"] = @ \union 0 .. lines - 1, !["nb_peers"] = lines])
    BY <1>6, Zenon, ZenonT(40) DEF init_peer_eth_addrs
  <2> DEFINE new == [cfg EXCEPT !["peers"] = @ \union 0 .. lines - 1, !["nb_peers"] = lines]
  <2>2. Counts \subseteq DOMAIN new /\ \A g \in Counts : new[g] = cfg[g]
    BY <1>0 DEF Counts
  <2>3. Take(ok, new)
    BY <2>1
  <2> HIDE DEF new
  <2> QED BY <2>2, <2>3, OtherOption, Zenon, ZenonT(40)
<1> QED BY <1>1, <1>2, <1>3, <1>4, <1>5, <1>6 DEF WordOptions

\* After any sequence of launch options the forwarding ports and cores are at least
\* one, no more than there are, and distinct and configured unless --nb-ports or
\* --nb-cores went past a mask (launch_args_parse); only a mask of ports that are all
\* past RTE_MAX_ETHPORTS leaves no port.  With no port at the start, of which main
\* only warns, there is nothing to forward on.
THEOREM LaunchedCounts == ASSUME NbPorts > 0 PROVE LaunchSpec => []LaunchCounts
<1>1. LaunchInit => LaunchInv
  <2> SUFFICES ASSUME LaunchInit PROVE LaunchInv
    OBVIOUS
  <2>1. /\ Counts \subseteq DOMAIN cfg
        /\ cfg["ports"] = [i \in 1 .. NbPorts |-> i - 1] /\ cfg["nb_cfg_ports"] = NbPorts
        /\ cfg["nb_fwd_ports"] = NbPorts /\ cfg["cores"] = [i \in 1 .. LaunchCores |-> i]
        /\ cfg["nb_cfg_lcores"] = LaunchCores /\ cfg["nb_fwd_lcores"] = 1
    <3>1. /\ Globals["ports"] = [i \in 1 .. NbPorts |-> i - 1] /\ Globals["nb_cfg_ports"] = NbPorts
          /\ Globals["nb_fwd_ports"] = NbPorts /\ Globals["cores"] = [i \in 1 .. LaunchCores |-> i]
          /\ Globals["nb_cfg_lcores"] = LaunchCores /\ Globals["nb_fwd_lcores"] = 1
      BY Zenon, ZenonT(40) DEF Globals
    <3>2. Counts \subseteq DOMAIN Globals
      BY ZenonT(40), ZenonT(60) DEF Globals, Counts
    <3>3. Counts \subseteq DOMAIN cfg /\ \A f \in Counts : cfg[f] = Globals[f]
      BY <3>2 DEF Merge, LaunchInit
    <3> QED BY <3>1, <3>3, SMTT(30), SMTT(60) DEF Counts
  <2>2. CountOK(cfg["ports"], cfg["nb_cfg_ports"], cfg["nb_fwd_ports"], NbPorts)
    BY <2>1, LaunchAssumption DEF CountOK
  <2>3. CountOK(cfg["cores"], cfg["nb_cfg_lcores"], cfg["nb_fwd_lcores"], LaunchCores)
    BY <2>1, LaunchAssumption DEF CountOK
  <2> QED BY <2>1, <2>2, <2>3 DEF LaunchInv
<1>2. LaunchInv /\ [AnyOption]_launchvars => LaunchInv'
  <2> SUFFICES ASSUME LaunchInv, [AnyOption]_launchvars PROVE LaunchInv'
    BY SMTT(30), SMTT(60)
  <2>1. CASE LastOption \/ UNCHANGED launchvars
    <3>1. UNCHANGED <<cfg, raised, beyond>>
      BY <2>1 DEF LastOption, launchvars, Exit
    <3> QED BY <3>1 DEF LaunchInv, CountOK
  <2> QED BY <2>1, CountsKept, NumaApart, NumbersApart, WordsApart DEF AnyOption
<1>3. LaunchInv => LaunchCounts
  <2> SUFFICES ASSUME LaunchInv PROVE LaunchCounts
    OBVIOUS
  <2>1. ASSUME NEW ids, NEW cnf, NEW fwd, NEW n \in Nat, CountOK(ids, cnf, fwd, n), ~raised
        PROVE  IsInjective(SubSeq(ids, 1, fwd)) /\ fwd <= cnf
    <3>1. /\ ids \in [1 .. n -> Nat] /\ cnf \in 0 .. n /\ fwd \in 0 .. n /\ fwd <= cnf
          /\ \A i, j \in 1 .. cnf : ids[i] = ids[j] => i = j
      BY <2>1 DEF CountOK
    <3>2. SubSeq(ids, 1, fwd) = [i \in 1 .. fwd |-> ids[i]]
      <4>1. ids \in Seq(Nat) /\ Len(ids) = n
        BY <3>1
      <4>2. /\ SubSeq(ids, 1, fwd) \in Seq(Nat) /\ Len(SubSeq(ids, 1, fwd)) = fwd
            /\ \A i \in 1 .. fwd : SubSeq(ids, 1, fwd)[i] = ids[i]
        BY <3>1, <4>1, SMTT(30), SMTT(60)
      <4> QED BY <3>1, <4>2
    <3> QED BY <3>1, <3>2, SMTT(30), SMTT(60) DEF IsInjective
  <2>2. /\ cfg["nb_fwd_ports"] \in 0 .. NbPorts /\ cfg["nb_fwd_lcores"] \in 1 .. LaunchCores
        /\ cfg["nb_fwd_ports"] = 0 => cfg["nb_cfg_ports"] = 0
        /\ cfg["nb_cfg_ports"] = 0 => beyond
    BY LaunchAssumption DEF LaunchInv, CountOK
  <2>3. NbPorts \in Nat /\ LaunchCores \in Nat
    BY LaunchAssumption
  <2>4. ASSUME ~raised
        PROVE  /\ IsInjective(SubSeq(cfg["ports"], 1, cfg["nb_fwd_ports"]))
               /\ IsInjective(SubSeq(cfg["cores"], 1, cfg["nb_fwd_lcores"]))
               /\ cfg["nb_fwd_ports"] <= cfg["nb_cfg_ports"]
               /\ cfg["nb_fwd_lcores"] <= cfg["nb_cfg_lcores"]
    BY <2>1, <2>3, <2>4, Zenon, ZenonT(40) DEF LaunchInv
  <2> QED BY <2>2, <2>4, Zenon, ZenonT(40) DEF LaunchCounts
<1> QED BY <1>1, <1>2, <1>3, PTL DEF LaunchSpec

-----------------------------------------------------------------------------
(* The log of square_evictions *)

LogInv == occ \in Nat /\ siz \in Nat /\ siz >= LogEntry /\ LogInBounds

\* Growing the buffer once makes room for the entry.
LEMMA Appended ==
  ASSUME LogInv, bufappend
  PROVE  LogInv'
<1>1. occ \in Nat /\ siz \in Nat /\ siz >= 2 /\ occ <= siz
  BY DEF LogInv, LogInBounds, LogEntry
<1>2. CASE occ + LogEntry > siz
  <2>1. siz' = 2 * siz /\ occ' = occ + 2
    BY <1>2 DEF bufappend, LogEntry, GrowFactor
  <2> QED
    BY <1>1, <2>1 DEF LogInv, LogInBounds, LogEntry
<1>3. CASE ~(occ + LogEntry > siz)
  <2>1. siz' = siz /\ occ' = occ + 2
    BY <1>3 DEF bufappend, LogEntry
  <2> QED
    BY <1>1, <1>3, <2>1 DEF LogInv, LogInBounds, LogEntry
<1> QED
  BY <1>2, <1>3

\* The log stays in its buffer: bufappend doubles the buffer at most once per
\* entry, and for every initial size that holds an entry once is enough.
THEOREM LogSafe ==
  ASSUME LogSize >= LogEntry
  PROVE  Spec => []LogInBounds
<1>1. Init => LogInv
  BY LogAssumption DEF Init, LogInv, LogInBounds, LogHeader, LogEntry
<1>2. ASSUME LogInv, [Next]_vars
      PROVE  LogInv'
  <2>1. CASE Access
    <3>1. bufappend \/ UNCHANGED logVars
      BY <2>1 DEF Access
    <3> QED
      BY <1>2, <3>1, Appended DEF logVars, LogInv, LogInBounds
  <2>2. CASE ~Access
    <3>1. UNCHANGED logVars
      <4>1. CASE SetupFails \/ Start \/ BeginCycle \/ EndPass \/ EndCycle
        BY <4>1 DEF SetupFails, Start, BeginCycle, EndPass, EndCycle
      <4>2. CASE Setup
        BY <4>2, Zenon, ZenonT(40) DEF Setup
      <4>3. CASE Spin \/ RefuseSpin \/ LogFails \/ square_evictions_handler \/ LeaveAsync
        BY <4>3, Zenon, ZenonT(40) DEF Spin, RefuseSpin, LogFails, square_evictions_handler, LeaveAsync
      <4>4. CASE Usr1 \/ Term \/ Ended \/ UNCHANGED vars
        BY <4>4 DEF Usr1, Term, Ended, vars
      <4> QED
        BY <1>2, <2>2, <4>1, <4>2, <4>3, <4>4, SMTT(30), SMTT(60) DEF Next, Program
    <3> QED
      BY <1>2, <3>1 DEF logVars, LogInv, LogInBounds
  <2> QED
    BY <2>1, <2>2
<1> QED
  BY <1>1, <1>2, PTL DEF Spec, LogInv
=============================================================================
