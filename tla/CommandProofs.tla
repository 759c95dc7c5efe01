--------------------------- MODULE CommandProofs ---------------------------
(***************************************************************************)
(* Proofs about commands of testpmd, for any sets of ports and values: flow*)
(* control (FlowControl), the redirection table (PortSettings), the        *)
(* flexible masks of the flow director (Filters) and the registers         *)
(* (Registers).                                                            *)
(***************************************************************************)
EXTENDS FlowControl, PortSettings, Filters, Registers, FiniteSetTheorems, TLAPS

-----------------------------------------------------------------------------
(* Division *)

\* Division with remainder.
LEMMA Division ==
  ASSUME NEW a \in Int, NEW n \in Nat \ {0}
  PROVE  a % n \in 0 .. n - 1 /\ a \div n \in Int /\ a = n * (a \div n) + (a % n)
  BY SMTT(30), SMTT(60)

\* A quotient is found by bounds.
LEMMA Quotient ==
  ASSUME NEW x \in Int, NEW n \in Nat \ {0}, NEW k \in Int, k * n <= x, x < k * n + n
  PROVE  x \div n = k /\ x % n = x - k * n
<1> DEFINE q == x \div n
           r == x % n
<1>1. r \in 0 .. n - 1 /\ q \in Int /\ x = n * q + r
  BY Division
<1> HIDE DEF q, r
<1>2. q < k + 1
  <2> SUFFICES ASSUME q >= k + 1 PROVE FALSE
    BY <1>1
  <2>1. n * q >= n * (k + 1)
    BY <1>1, SMTT(30), SMTT(60)
  <2> QED
    BY <1>1, <2>1
<1>3. q > k - 1
  <2> SUFFICES ASSUME q <= k - 1 PROVE FALSE
    BY <1>1
  <2>1. n * q <= n * (k - 1)
    BY <1>1, SMTT(30), SMTT(60)
  <2> QED
    BY <1>1, <2>1
<1>4. q = k
  BY <1>1, <1>2, <1>3
<1> QED
  BY <1>1, <1>4 DEF q, r

-----------------------------------------------------------------------------
(* Flow control *)

\* The values a parameter can have, whatever numbers are typed.
ParamValues == [Params -> Vals \union BOOLEAN]

FcTyped == /\ want \in [Ports -> ParamValues]
           /\ \A p \in Ports : want[p]["rx"] \in BOOLEAN /\ want[p]["tx"] \in BOOLEAN
           /\ DOMAIN fc_conf = Ports

\* Decoding the mode gives back the two switches it was made of: FcCurrent,
\* which the partial commands start with, inverts FcConf, which they end with.
LEMMA ModeRoundTrip ==
  ASSUME NEW v \in ParamValues, v["rx"] \in BOOLEAN, v["tx"] \in BOOLEAN
  PROVE  FcCurrent(FcConf(v)) = v
<1> DEFINE c == FcConf(v)
<1>1. c["mode"] = rx_tx_onoff_2_lfc_mode(v["rx"], v["tx"])
  BY DEF FcConf
<1>2. RxOn(c["mode"]) = v["rx"] /\ TxOn(c["mode"]) = v["tx"]
  <2>1. CASE v["rx"] = TRUE /\ v["tx"] = TRUE
    BY <1>1, <2>1 DEF RxOn, TxOn, rx_tx_onoff_2_lfc_mode
  <2>2. CASE v["rx"] = TRUE /\ v["tx"] = FALSE
    BY <1>1, <2>2 DEF RxOn, TxOn, rx_tx_onoff_2_lfc_mode
  <2>3. CASE v["rx"] = FALSE /\ v["tx"] = TRUE
    BY <1>1, <2>3 DEF RxOn, TxOn, rx_tx_onoff_2_lfc_mode
  <2>4. CASE v["rx"] = FALSE /\ v["tx"] = FALSE
    BY <1>1, <2>4 DEF RxOn, TxOn, rx_tx_onoff_2_lfc_mode
  <2> QED
    BY <2>1, <2>2, <2>3, <2>4, Zenon, ZenonT(40)
<1>3. \A x \in Params \ {"rx", "tx"} : c[x] = v[x]
  <2> SUFFICES ASSUME NEW x \in Params \ {"rx", "tx"}
               PROVE  c[x] = v[x]
    OBVIOUS
  <2>1. x # "mode"
    BY DEF Params, Numbers, Switches
  <2> QED
    BY <2>1 DEF FcConf
<1>4. \A x \in Params : FcCurrent(c)[x] = v[x]
  <2> SUFFICES ASSUME NEW x \in Params
               PROVE  FcCurrent(c)[x] = v[x]
    OBVIOUS
  <2> HIDE DEF c
  <2>1. CASE x = "rx"
    BY <1>2, <2>1 DEF FcCurrent
  <2>2. CASE x = "tx"
    BY <1>2, <2>2 DEF FcCurrent
  <2>3. CASE x \notin {"rx", "tx"}
    BY <1>3, <2>3 DEF FcCurrent
  <2> QED
    BY <2>1, <2>2, <2>3
<1>5. FcCurrent(c) = [x \in Params |-> FcCurrent(c)[x]] /\ v = [x \in Params |-> v[x]]
  BY DEF FcCurrent, ParamValues
<1> QED
  BY <1>4, <1>5

FcInv == FcTyped /\ FlowAsTyped

\* Writing the parameters new, and recording them as typed, keeps the invariant.
LEMMA FlowWritten ==
  ASSUME FcInv, NEW p \in Ports, NEW new \in ParamValues,
         new["rx"] \in BOOLEAN, new["tx"] \in BOOLEAN,
         fc_conf' = [fc_conf EXCEPT ![p] = FcConf(new)],
         want' = [want EXCEPT ![p] = new]
  PROVE  FcInv'
<1>1. FcCurrent(FcConf(new)) = new
  BY ModeRoundTrip
<1>2. FcTyped'
  BY DEF FcInv, FcTyped
<1>3. \A q \in Ports : FcCurrent(fc_conf'[q]) = want'[q]
  <2> SUFFICES ASSUME NEW q \in Ports
               PROVE  FcCurrent(fc_conf'[q]) = want'[q]
    OBVIOUS
  <2>1. CASE q = p
    <3>1. fc_conf'[q] = FcConf(new) /\ want'[q] = new
      BY <2>1 DEF FcInv, FcTyped
    <3> QED
      BY <1>1, <3>1
  <2>2. CASE q # p
    <3>1. fc_conf'[q] = fc_conf[q] /\ want'[q] = want[q]
      BY <2>2 DEF FcInv, FcTyped
    <3> QED
      BY <3>1 DEF FcInv, FlowAsTyped
  <2> QED
    BY <2>1, <2>2
<1> QED
  BY <1>2, <1>3 DEF FcInv, FlowAsTyped

\* After any number of full and partial commands each parameter of a device is
\* the one typed last for it (cmd_link_flow_ctrl_set_parsed), for every set of
\* ports and of values.
THEOREM FlowTyped == FcSpec => []FlowAsTyped
<1>1. FcInit => FcInv
  <2> SUFFICES ASSUME FcInit PROVE FcInv
    OBVIOUS
  <2> DEFINE zero == [x \in Params |-> IF x \in Numbers THEN 0 ELSE FALSE]
  <2>1. zero \in ParamValues /\ zero["rx"] = FALSE /\ zero["tx"] = FALSE
    BY BaseAssumption DEF ParamValues, Params, Numbers, Switches
  <2>2. fc_conf = [p \in Ports |-> FcConf(zero)] /\ want = [p \in Ports |-> zero]
    BY DEF FcInit
  <2> HIDE DEF zero
  <2>3. FcCurrent(FcConf(zero)) = zero
    BY <2>1, ModeRoundTrip, Zenon, ZenonT(40)
  <2>4. FcTyped
    BY <2>1, <2>2, Zenon, ZenonT(40) DEF FcTyped
  <2>5. FlowAsTyped
    BY <2>2, <2>3 DEF FlowAsTyped
  <2> QED
    BY <2>4, <2>5 DEF FcInv
<1>2. FcInv /\ [FcNext]_<<fc_conf, pfc, want>> => FcInv'
  <2> SUFFICES ASSUME FcInv, [FcNext]_<<fc_conf, pfc, want>> PROVE FcInv'
    OBVIOUS
  <2>1. CASE cmd_link_flow_control_set
    <3>1. PICK p \in Ports, n \in Vals, s \in [Switches -> BOOLEAN] :
            LET new == [x \in Params |-> IF x \in Numbers THEN n ELSE s[x]]
            IN SetFlow(p, new) /\ want' = [want EXCEPT ![p] = new]
      BY <2>1, Zenon, ZenonT(40) DEF cmd_link_flow_control_set
    <3> DEFINE new == [x \in Params |-> IF x \in Numbers THEN n ELSE s[x]]
    <3>2. new \in ParamValues
      BY DEF ParamValues, Params
    <3>3. new["rx"] = s["rx"] /\ new["tx"] = s["tx"]
      BY DEF Params, Numbers, Switches
    <3>4. s["rx"] \in BOOLEAN /\ s["tx"] \in BOOLEAN
      BY DEF Switches
    <3>5. fc_conf' = [fc_conf EXCEPT ![p] = FcConf(new)] /\ want' = [want EXCEPT ![p] = new]
      BY <3>1 DEF SetFlow
    <3> HIDE DEF new
    <3> QED
      BY <3>2, <3>3, <3>4, <3>5, FlowWritten, Zenon, ZenonT(40)
  <2>2. CASE cmd_link_flow_control_set_one
    <3>1. PICK p \in Ports, x \in Params : \E v \in Typeable(x) :
            /\ SetFlow(p, [FcCurrent(fc_conf[p]) EXCEPT ![x] = v])
            /\ want' = [want EXCEPT ![p][x] = v]
      BY <2>2, Zenon, ZenonT(40) DEF cmd_link_flow_control_set_one
    <3>2. PICK v \in Typeable(x) :
            /\ SetFlow(p, [FcCurrent(fc_conf[p]) EXCEPT ![x] = v])
            /\ want' = [want EXCEPT ![p][x] = v]
      BY <3>1, Zenon, ZenonT(40)
    <3> DEFINE new == [want[p] EXCEPT ![x] = v]
    <3>3. FcCurrent(fc_conf[p]) = want[p]
      BY DEF FcInv, FlowAsTyped
    <3>4. v \in Vals \union BOOLEAN
      BY DEF Typeable
    <3>5. want[p] \in ParamValues /\ want[p]["rx"] \in BOOLEAN /\ want[p]["tx"] \in BOOLEAN
      BY DEF FcInv, FcTyped
    <3>6. new \in ParamValues
      BY <3>4, <3>5 DEF ParamValues
    <3>7. x \in {"rx", "tx"} => v \in BOOLEAN
      BY DEF Typeable, Numbers
    <3>8. new["rx"] \in BOOLEAN /\ new["tx"] \in BOOLEAN
      <4>1. CASE x = "rx"
        BY <3>5, <3>7, <4>1 DEF ParamValues
      <4>2. CASE x = "tx"
        BY <3>5, <3>7, <4>2 DEF ParamValues
      <4>3. CASE x \notin {"rx", "tx"}
        BY <3>5, <4>3 DEF ParamValues
      <4> QED
        BY <4>1, <4>2, <4>3
    <3>9. fc_conf' = [fc_conf EXCEPT ![p] = FcConf(new)] /\ want' = [want EXCEPT ![p] = new]
      BY <3>2, <3>3 DEF SetFlow
    <3> HIDE DEF new
    <3> QED
      BY <3>6, <3>8, <3>9, FlowWritten, Zenon, ZenonT(40)
  <2>3. CASE cmd_priority_flow_control_set \/ UNCHANGED <<fc_conf, pfc, want>>
    <3>1. fc_conf' = fc_conf /\ want' = want
      BY <2>3 DEF cmd_priority_flow_control_set
    <3> QED
      BY <3>1 DEF FcInv, FcTyped, FlowAsTyped
  <2> QED
    BY <2>1, <2>2, <2>3 DEF FcNext
<1>3. FcInv => FlowAsTyped
  BY DEF FcInv
<1> QED
  BY <1>1, <1>2, <1>3, PTL DEF FcSpec

-----------------------------------------------------------------------------
(* The redirection table *)

Index == 0 .. RetaSize - 1

\* The table of the device is the one typed, and no command loses it.
RetaInv ==
  /\ DOMAIN dev = Ports /\ typed \in [Ports -> [Index -> Queue]]
  /\ \A p \in Ports : "reta" \in DOMAIN dev[p] /\ dev[p]["reta"] = typed[p]

\* A command that sets anything else leaves both tables alone.
LEMMA OtherSetting ==
  ASSUME RetaInv, NEW p \in Ports, NEW f, f # "reta", NEW v, Set(p, f, v)
  PROVE  RetaInv'
<1>1. typed' = typed /\ dev' = [dev EXCEPT ![p] = [dev[p] EXCEPT ![f] = v]]
  BY DEF Set
<1> DEFINE r == [dev[p] EXCEPT ![f] = v]
<1>2. DOMAIN r = DOMAIN dev[p] /\ r["reta"] = dev[p]["reta"]
  BY DEF RetaInv
<1> HIDE DEF r
<1>3. DOMAIN dev' = Ports /\ dev'[p] = r /\ \A q \in Ports \ {p} : dev'[q] = dev[q]
  BY <1>1 DEF RetaInv, r
<1> QED
  BY <1>1, <1>2, <1>3 DEF RetaInv

\* A command for all ports that sets something else leaves the tables alone.
LEMMA OtherSettingAll ==
  ASSUME RetaInv, NEW f, f # "reta", NEW v, SetAll(f, v)
  PROVE  RetaInv'
<1>1. typed' = typed /\ dev' = [p \in Ports |-> [dev[p] EXCEPT ![f] = v]]
  BY DEF SetAll
<1>2. ASSUME NEW p \in Ports PROVE "reta" \in DOMAIN dev'[p] /\ dev'[p]["reta"] = dev[p]["reta"]
  BY <1>1 DEF RetaInv
<1> QED
  BY <1>1, <1>2 DEF RetaInv

\* So do the commands that set a global.
LEMMA OtherGlobal ==
  ASSUME RetaInv, UNCHANGED <<dev, typed>>
  PROVE  RetaInv'
BY DEF RetaInv

\* Group and place determine the index.
LEMMA SamePlace ==
  ASSUME NEW i \in Nat, NEW j \in Nat, i \div Group = j \div Group, i % Group = j % Group
  PROVE  i = j
<1>1. i = Group * (i \div Group) + (i % Group) /\ j = Group * (j \div Group) + (j % Group)
  BY RetaAssumption, Division
<1> QED
  BY <1>1

\* An index of the table lies in one of its groups.
LEMMA GroupOf ==
  ASSUME RetaSize % Group = 0, NEW i \in Index
  PROVE  /\ i \div Group \in 0 .. RetaSize \div Group - 1 /\ i % Group \in 0 .. Group - 1
         /\ i \in Nat /\ i = Group * (i \div Group) + (i % Group)
<1> DEFINE n == Group
           q == i \div n
           z == RetaSize \div n
           m == i % n
<1>1. i \in Nat /\ i < RetaSize /\ RetaSize \in Nat /\ n \in Nat \ {0}
  BY RetaAssumption DEF Index
<1>2. RetaSize = n * z + 0 /\ z \in Int
  BY <1>1, Division
<1>3. i = n * q + m /\ q \in Int /\ m \in 0 .. n - 1
  BY <1>1, Division
<1> HIDE DEF n, q, z, m
<1>4. q >= 0
  <2> SUFFICES ASSUME q <= -1 PROVE FALSE
    BY <1>3
  <2>1. n * q <= n * (-1)
    BY <1>1, <1>3, SMTT(30), SMTT(60)
  <2> QED
    BY <1>1, <1>3, <2>1
<1>5. q <= z - 1
  <2> SUFFICES ASSUME q >= z PROVE FALSE
    BY <1>2, <1>3
  <2>1. n * q >= n * z
    BY <1>1, <1>2, <1>3, SMTT(30), SMTT(60)
  <2> QED
    BY <1>1, <1>2, <1>3, <2>1
<1> QED
  BY <1>1, <1>2, <1>3, <1>4, <1>5 DEF n, q, z, m

\* "port config reta": the device's entries become those of the pairs, the
\* second before the first.
LEMMA PairsStored ==
  ASSUME RetaSize % Group = 0, NEW t \in [Index -> Queue],
         NEW x \in Index \X Queue, NEW y \in Index \X Queue
  PROVE  rte_eth_dev_rss_reta_update(t, parse_reta_config(<<x, y>>))
           = [[t EXCEPT ![x[1]] = x[2]] EXCEPT ![y[1]] = y[2]]
<1> DEFINE pairs == <<x, y>>
           At(g, s) == {i \in 1 .. Len(pairs) : pairs[i][1] \div Group = g /\ pairs[i][1] % Group = s}
           LastOf(I) == pairs[CHOOSE i \in I : \A j \in I : j <= i][2]
           conf == parse_reta_config(pairs)
           new == [[t EXCEPT ![x[1]] = x[2]] EXCEPT ![y[1]] = y[2]]
<1>1. Len(pairs) = 2 /\ pairs[1] = x /\ pairs[2] = y
  OBVIOUS
<1>2. conf = [g \in 0 .. RetaSize \div Group - 1 |->
                [mask |-> {s \in 0 .. Group - 1 : At(g, s) # {}},
                 reta |-> [s \in 0 .. Group - 1 |-> IF At(g, s) = {} THEN 0 ELSE LastOf(At(g, s))]]]
  BY DEF parse_reta_config
<1> HIDE DEF conf
<1>3. ASSUME NEW i \in Index
      PROVE  i \div Group \in 0 .. RetaSize \div Group - 1 /\ i % Group \in 0 .. Group - 1
  BY GroupOf
<1>4. ASSUME NEW i \in Index
      PROVE  /\ i % Group \in conf[i \div Group].mask <=> At(i \div Group, i % Group) # {}
             /\ At(i \div Group, i % Group) # {} =>
                  conf[i \div Group].reta[i % Group] = LastOf(At(i \div Group, i % Group))
  <2> DEFINE g == i \div Group
             s == i % Group
  <2>1. g \in 0 .. RetaSize \div Group - 1 /\ s \in 0 .. Group - 1
    BY <1>3
  <2> HIDE DEF g, s, At, LastOf
  <2>2. conf[g] = [mask |-> {u \in 0 .. Group - 1 : At(g, u) # {}},
                   reta |-> [u \in 0 .. Group - 1 |-> IF At(g, u) = {} THEN 0 ELSE LastOf(At(g, u))]]
    BY <1>2, <2>1
  <2> QED
    BY <2>1, <2>2 DEF g, s
<1>5. x[1] \in Index /\ x[2] \in Queue /\ y[1] \in Index /\ y[2] \in Queue
  OBVIOUS
<1>6. ASSUME NEW i \in Index
      PROVE  At(i \div Group, i % Group) = {k \in 1 .. 2 : (k = 1 /\ x[1] = i) \/ (k = 2 /\ y[1] = i)}
  <2>1. i \in Nat /\ x[1] \in Nat /\ y[1] \in Nat
    BY <1>5 DEF Index
  <2>2. (x[1] \div Group = i \div Group /\ x[1] % Group = i % Group) <=> x[1] = i
    BY <2>1, SamePlace
  <2>3. (y[1] \div Group = i \div Group /\ y[1] % Group = i % Group) <=> y[1] = i
    BY <2>1, SamePlace
  <2> DEFINE g == i \div Group
             s == i % Group
             G(k) == k \div Group
             M(k) == k % Group
  <2>4. (G(x[1]) = g /\ M(x[1]) = s <=> x[1] = i) /\ (G(y[1]) = g /\ M(y[1]) = s <=> y[1] = i)
    BY <2>2, <2>3
  <2>5. At(g, s) = {k \in 1 .. 2 : G(pairs[k][1]) = g /\ M(pairs[k][1]) = s}
    BY <1>1
  <2> HIDE DEF g, s, G, M, At
  <2>6. At(g, s) = {k \in 1 .. 2 : (k = 1 /\ x[1] = i) \/ (k = 2 /\ y[1] = i)}
    BY <1>1, <2>4, <2>5, SMTT(30), SMTT(60)
  <2> QED
    BY <2>6 DEF g, s
<1>7. ASSUME NEW i \in Index
      PROVE  (IF i % Group \in conf[i \div Group].mask THEN conf[i \div Group].reta[i % Group] ELSE t[i])
               = IF y[1] = i THEN y[2] ELSE IF x[1] = i THEN x[2] ELSE t[i]
  <2> DEFINE A == At(i \div Group, i % Group)
             b == conf[i \div Group].reta[i % Group]
  <2>1. A = {k \in 1 .. 2 : (k = 1 /\ x[1] = i) \/ (k = 2 /\ y[1] = i)}
    BY <1>6, SMTT(30), SMTT(60)
  <2>2. (i % Group \in conf[i \div Group].mask <=> A # {}) /\ (A # {} => b = LastOf(A))
    BY <1>4, Zenon, ZenonT(40)
  <2>3. LastOf(A) = pairs[CHOOSE k \in A : \A j \in A : j <= k][2]
    OBVIOUS
  <2> HIDE DEF A, b, LastOf
  <2>4. CASE y[1] = i
    <3>1. 2 \in A /\ \A j \in A : j <= 2 /\ j \in Int
      BY <2>1, <2>4
    <3>2. (CHOOSE k \in A : \A j \in A : j <= k) = 2
      BY <3>1, SMTT(30), SMTT(60)
    <3> QED
      BY <1>1, <2>2, <2>3, <2>4, <3>1, <3>2 DEF b
  <2>5. CASE y[1] # i /\ x[1] = i
    <3>1. A = {1}
      BY <2>1, <2>5
    <3>2. (CHOOSE k \in A : \A j \in A : j <= k) = 1
      BY <3>1
    <3> QED
      BY <1>1, <2>2, <2>3, <2>5, <3>1, <3>2, SMTT(30), SMTT(60) DEF b
  <2>6. CASE y[1] # i /\ x[1] # i
    <3>1. A = {}
      BY <2>1, <2>6
    <3> QED
      BY <2>2, <2>6, <3>1
  <2> QED
    BY <2>4, <2>5, <2>6
<1>8. rte_eth_dev_rss_reta_update(t, conf) = [i \in Index |-> IF y[1] = i THEN y[2] ELSE IF x[1] = i THEN x[2] ELSE t[i]]
  BY <1>7 DEF rte_eth_dev_rss_reta_update, Index
<1>9. new = [i \in Index |-> IF y[1] = i THEN y[2] ELSE IF x[1] = i THEN x[2] ELSE t[i]]
  BY <1>5, Zenon, ZenonT(40)
<1> QED
  BY <1>8, <1>9 DEF conf

\* The redirection table command stores each typed entry at its group and place,
\* and clears nothing that was stored before.
LEMMA RetaTyped ==
  ASSUME RetaSize % Group = 0, RetaInv, cmd_config_rss_reta
  PROVE  RetaInv'
<1>1. PICK p \in Ports, x, y \in (0 .. RetaSize) \X Queue :
        x[1] < RetaSize /\ y[1] < RetaSize /\ StoreReta(p, x, y)
  BY DEF cmd_config_rss_reta
<1>2. x \in Index \X Queue /\ y \in Index \X Queue
  BY <1>1, RetaAssumption DEF Index
<1> DEFINE new == [[typed[p] EXCEPT ![x[1]] = x[2]] EXCEPT ![y[1]] = y[2]]
<1>3. new \in [Index -> Queue]
  BY <1>2 DEF RetaInv
<1>4. rte_eth_dev_rss_reta_update(dev[p]["reta"], parse_reta_config(<<x, y>>)) = new
  BY <1>2, PairsStored DEF RetaInv
<1> HIDE DEF new
<1>5. dev' = [dev EXCEPT ![p] = [dev[p] EXCEPT !["reta"] = new]] /\ typed' = [typed EXCEPT ![p] = new]
  BY <1>1, <1>4, Zenon, ZenonT(40) DEF new, StoreReta
<1> QED
  BY <1>3, <1>5 DEF RetaInv

\* "set bypass event" stores two settings, neither of them the table.
LEMMA BypassEvent ==
  ASSUME RetaInv, cmd_set_bypass_event
  PROVE  RetaInv'
<1>0. PICK p \in Ports : \E v, w :
        /\ dev' = [[dev EXCEPT ![p]["event"] = v] EXCEPT ![p]["watchdog"] = w]
        /\ typed' = typed
  BY Zenon, ZenonT(40) DEF cmd_set_bypass_event
<1>1. PICK v, w : /\ dev' = [[dev EXCEPT ![p]["event"] = v] EXCEPT ![p]["watchdog"] = w]
                  /\ typed' = typed
  BY <1>0, Zenon, ZenonT(40)
<1> DEFINE r == [[dev[p] EXCEPT !["event"] = v] EXCEPT !["watchdog"] = w]
<1>2. DOMAIN r = DOMAIN dev[p] /\ r["reta"] = dev[p]["reta"]
  BY DEF RetaInv
<1> HIDE DEF r
<1>3. DOMAIN dev' = Ports /\ dev'[p] = r /\ \A q \in Ports \ {p} : dev'[q] = dev[q]
  BY <1>1 DEF RetaInv, r
<1> QED
  BY <1>1, <1>2, <1>3 DEF RetaInv

\* "port config all rss" sets the hash types of some of the ports.
LEMMA RssConfig ==
  ASSUME RetaInv, cmd_config_rss
  PROVE  RetaInv'
<1>1. PICK v : /\ typed' = typed
               /\ dev' = [p \in Ports |-> IF p < Cardinality(Ports) THEN [dev[p] EXCEPT !["rss"] = v]
                                                                    ELSE dev[p]]
  BY Zenon, ZenonT(40) DEF cmd_config_rss
<1>2. ASSUME NEW p \in Ports PROVE "reta" \in DOMAIN dev'[p] /\ dev'[p]["reta"] = dev[p]["reta"]
  BY <1>1 DEF RetaInv
<1> QED
  BY <1>1, <1>2 DEF RetaInv

\* Every command keeps the table the one typed.
LEMMA RetaKept ==
  ASSUME RetaSize % Group = 0, RetaInv, [AnySetting]_<<dev, glob, typed>>
  PROVE  RetaInv'
<1> USE OtherSetting, OtherSettingAll, OtherGlobal
<1>1. CASE ReceiveNext
  BY <1>1, Zenon, ZenonT(40) DEF ReceiveNext, cmd_set_promisc_mode, cmd_set_allmulti_mode, cmd_set_link_up,
       cmd_set_link_down, dev_set_link_up, dev_set_link_down, cmd_config_mtu, port_mtu_set,
       cmd_mac_addr, cmd_set_uc_hash_filter, cmd_set_uc_all_hash_filter
<1>2. CASE VfFilterNext
  BY <1>2, Zenon, ZenonT(40) DEF VfFilterNext, cmd_set_vf_macvlan_filter, cmd_set_vf_traffic, set_vf_traffic,
       cmd_vf_mac_addr_filter
<1>3. CASE VfModeNext
  BY <1>3, Zenon, ZenonT(40) DEF VfModeNext, cmd_set_vf_rxmode, cmd_vf_rxvlan_filter, set_vf_rx_vlan
<1>4. CASE VfRateNext
  BY <1>4, Zenon, ZenonT(40) DEF VfRateNext, cmd_queue_rate_limit, set_queue_rate_limit, cmd_vf_rate_limit,
       set_vf_rate_limit
<1>5. CASE MirrorNext
  BY <1>5, Zenon, ZenonT(40) DEF MirrorNext, cmd_set_mirror_mask, cmd_set_mirror_link, cmd_reset_mirror_rule, Rule
<1>6. CASE RssNext
  BY <1>6, RssConfig, Zenon, ZenonT(40) DEF RssNext, StartStop, SetGlob, cmd_config_rss_hash_key,
       port_rss_hash_key_update, cmd_config_rxtx_queue
<1>7. CASE RetaNext
  BY <1>7, RetaTyped DEF RetaNext
<1>8. CASE HashNext
  BY <1>8, Zenon, ZenonT(40) DEF HashNext, cmd_set_sym_hash_ena_per_port, cmd_set_hash_global_config,
       cmd_set_hash_input_set, cmd_set_fdir_input_set
<1>9. CASE TunnelNext
  BY <1>9, Zenon, ZenonT(40) DEF TunnelNext, cmd_config_l2_tunnel_eth_type, cmd_config_l2_tunnel_en_dis,
       cmd_config_e_tag_insertion_en, cmd_config_e_tag_insertion_dis,
       cmd_config_e_tag_stripping_en_dis, cmd_config_e_tag_forwarding_en_dis,
       cmd_config_e_tag_filter_add, cmd_config_e_tag_filter_del
<1>10. CASE BondNext
  BY <1>10 DEF BondNext, cmd_set_bonding_mode, cmd_set_balance_xmit_policy,
       cmd_set_bond_mac_addr, cmd_set_bond_mon_period
<1>11. CASE BypassNext
  BY <1>11, BypassEvent DEF BypassNext, cmd_set_bypass_mode, cmd_set_bypass_timeout, SetGlob
<1>12. CASE GlobalNext
  BY <1>12 DEF GlobalNext, cmd_set_burst_tx_retry, cmd_set_flush_rx, cmd_set_link_check, SetGlob
<1>13. CASE UNCHANGED <<dev, glob, typed>>
  BY <1>13
<1> QED
  BY <1>1, <1>2, <1>3, <1>4, <1>5, <1>6, <1>7, <1>8, <1>9, <1>10, <1>11, <1>12, <1>13, SMTT(30), SMTT(60) DEF AnySetting

\* A place below n after a whole number of groups lies before the next group.
LEMMA WithinGroup ==
  ASSUME NEW a \in Nat, NEW s \in Nat, NEW n \in Nat, NEW b, NEW j,
         s < n, a + n <= b, b \in Nat, j = a + s
  PROVE  j \in Nat /\ j < b /\ a <= j /\ j < a + n /\ j - a = s
OBVIOUS

\* Printing a table by groups and places prints it by indices.
LEMMA Shown ==
  ASSUME RetaSize % Group = 0, RetaInv
  PROVE  RetaAsTyped
<1> SUFFICES ASSUME NEW p \in Ports, NEW m \in [1 .. RetaSize \div Group -> SUBSET (0 .. Group - 1)]
             PROVE  port_rss_reta_info(typed[p], m) =
                      {<<(x[1] - 1) * Group + x[2], typed[p][(x[1] - 1) * Group + x[2]]>> :
                         x \in {y \in (DOMAIN m) \X (0 .. Group - 1) : y[2] \in m[y[1]]}}
  <2>1. \A p \in Ports : dev[p]["reta"] = typed[p]
    BY DEF RetaInv
  <2> QED
    BY <2>1, ZenonT(60) DEF RetaAsTyped
<1> DEFINE z == RetaSize \div Group
           t == typed[p]
           J == {j \in Index : j % Group \in m[j \div Group + 1]}
           X == {y \in (DOMAIN m) \X (0 .. Group - 1) : y[2] \in m[y[1]]}
           At(x) == (x[1] - 1) * Group + x[2]
<1>1. Group \in Nat \ {0} /\ RetaSize \in Nat /\ z \in Int /\ RetaSize = Group * z /\ DOMAIN m = 1 .. z
  BY RetaAssumption, Division
<1>2. ASSUME NEW j \in J PROVE <<j \div Group + 1, j % Group>> \in X /\ At(<<j \div Group + 1, j % Group>>) = j
  <2> DEFINE q == j \div Group
             s == j % Group
  <2>1. j \in Nat /\ q \in 0 .. z - 1 /\ s \in 0 .. Group - 1
    BY GroupOf
  <2>2. j = Group * q + s
    BY GroupOf
  <2>3. s \in m[q + 1]
    OBVIOUS
  <2> HIDE DEF q, s, z
  <2>4. q + 1 \in DOMAIN m
    BY <1>1, <2>1
  <2>5. <<q + 1, s>> \in X
    BY <2>1, <2>3, <2>4
  <2>6. (q + 1) - 1 = q /\ q * Group = Group * q
    BY <1>1, <2>1
  <2>7. At(<<q + 1, s>>) = j
    BY <2>2, <2>6
  <2> QED
    BY <2>5, <2>7 DEF q, s
<1>3. ASSUME NEW x \in X PROVE At(x) \in J
  <2> DEFINE g == x[1]
             s == x[2]
             j == At(x)
  <2>1. g \in 1 .. z /\ s \in 0 .. Group - 1 /\ s \in m[g] /\ z \in Int /\ Group \in Int
    BY <1>1
  <2> HIDE DEF g, s, z
  <2>2. j = (g - 1) * Group + s
    BY DEF g, s
  <2> HIDE DEF j
  <2> DEFINE k == g - 1
  <2>3. k \in Nat /\ k + 1 = g /\ k + 1 <= z
    BY <2>1
  <2>4. j = k * Group + s
    BY <2>2
  <2> HIDE DEF k
  <2>5. k * Group \in Nat /\ (k + 1) * Group <= z * Group /\ (k + 1) * Group = k * Group + Group
        /\ z * Group = Group * z
    BY <1>1, <2>1, <2>3, SMTT(30), SMTT(60)
  <2>6. j \in Nat /\ j < RetaSize /\ k * Group <= j /\ j < k * Group + Group /\ j - k * Group = s
    <3>1. s \in Nat /\ s < Group
      BY <2>1
    <3> DEFINE a == k * Group
               b == z * Group
    <3>2. a \in Nat /\ a + Group <= b /\ RetaSize = b /\ j = a + s /\ Group \in Nat
      BY <1>1, <2>4, <2>5
    <3> HIDE DEF a, b
    <3>3. j \in Nat /\ j < RetaSize /\ a <= j /\ j < a + Group /\ j - a = s
      BY <1>1, <3>1, <3>2, WithinGroup
    <3> QED
      BY <3>3 DEF a
  <2>7. k \in Int /\ j \in Int
    BY <2>3, <2>6
  <2>8. j \div Group = k /\ j % Group = j - k * Group
    BY <1>1, <2>6, <2>7, Quotient, Zenon, ZenonT(40)
  <2>9. j \in Index
    BY <1>1, <2>6 DEF Index
  <2> QED
    BY <2>1, <2>3, <2>6, <2>8, <2>9, Zenon, ZenonT(40) DEF j
<1> HIDE DEF At, J, X
<1>4. {<<i, t[i]>> : i \in J} = {<<At(x), t[At(x)]>> : x \in X}
  BY <1>2, <1>3, Zenon, ZenonT(40)
<1> QED
  BY <1>4 DEF port_rss_reta_info, Index, J, X, At

\* show port rss reta shows, entry by entry, the redirection table that was typed,
\* whatever other setting commands come between (port_rss_reta_info,
\* cmd_set_rss_reta_parsed).
THEOREM RetaShown ==
  ASSUME RetaSize % Group = 0
  PROVE  SettingsSpec => []RetaAsTyped
<1>1. SettingsInit => RetaInv
  <2> SUFFICES ASSUME SettingsInit PROVE RetaInv
    OBVIOUS
  <2>1. ASSUME NEW p \in Ports
        PROVE  "reta" \in DOMAIN dev[p] /\ dev[p]["reta"] = [i \in Index |-> 0]
    BY DEF SettingsInit, Index, Numeric, SetValued, Switched
  <2>2. 0 \in Queue
    BY BaseAssumption DEF Queue
  <2>3. DOMAIN dev = Ports /\ typed = [p \in Ports |-> [i \in Index |-> 0]]
    BY DEF SettingsInit, Index
  <2> QED
    BY <2>1, <2>2, <2>3 DEF RetaInv
<1> QED
  BY <1>1, RetaKept, Shown, PTL DEF SettingsSpec

-----------------------------------------------------------------------------
(* Flexible masks *)

FlexTypes == FlowTypes \union {"unknown"}
FlexTables == Seq(FlexTypes \X Vals)

\* One entry for each flow type typed, with the mask typed last.
Faithful(s, w) ==
  /\ s \in FlexTables /\ TypesOf(s) = DOMAIN w
  /\ \A i, j \in 1 .. Len(s) : s[i][1] = s[j][1] => i = j
  /\ \A i \in 1 .. Len(s) : s[i][2] = w[s[i][1]]

FlexInv ==
  /\ DOMAIN table = Ports /\ DOMAIN device = Ports /\ DOMAIN wanted = Ports
  /\ \A p \in Ports :
       /\ DOMAIN table[p] = {"mask", "masks", "payloads", "started", "need"}
       /\ table[p].started \in BOOLEAN /\ table[p].need \in BOOLEAN
       /\ Faithful(table[p].masks, wanted[p])
       /\ table[p].started => ~table[p].need
       /\ ~table[p].need /\ p \notin dropped => device[p].masks = table[p].masks

\* The numbers 1 .. n are n.
LEMMA Counted ==
  ASSUME NEW n \in Nat
  PROVE  IsFiniteSet(1 .. n) /\ Cardinality(1 .. n) = n
BY FS_Interval

\* A table in which a supported flow type has no entry has room for one.
LEMMA RoomForOne ==
  ASSUME NEW s, NEW w, Faithful(s, w), NEW t \in FlowTypes, t \notin TypesOf(s)
  PROVE  Len(s) < FlexMax
<1> DEFINE others == FlexTypes \ {t}
           f == [i \in 1 .. Len(s) |-> s[i][1]]
<1>1. Len(s) \in Nat /\ \A i \in 1 .. Len(s) : s[i][1] \in FlexTypes
  BY DEF Faithful, FlexTables
<1>2. f \in [1 .. Len(s) -> others]
  BY <1>1 DEF TypesOf
<1>3. f \in Injection(1 .. Len(s), others)
  BY <1>2 DEF Injection, IsInjective, Faithful
<1>4. /\ IsFiniteSet(FlexTypes) /\ Cardinality(FlexTypes) = Cardinality(FlowTypes) + 1
  BY FlowAssumption, FS_AddElement DEF FlexTypes
<1>5. Cardinality(FlowTypes) \in Nat
  BY FlowAssumption, FS_CardinalityType
<1>6. IsFiniteSet(others) /\ Cardinality(others) = Cardinality(FlowTypes)
  <2>1. t \in FlexTypes
    BY DEF FlexTypes
  <2>2. IsFiniteSet(others) /\ Cardinality(others) = Cardinality(FlexTypes) - 1
    BY <1>4, <2>1, FS_RemoveElement, Zenon, ZenonT(40)
  <2> QED BY <1>4, <1>5, <2>2
<1>7. Cardinality(1 .. Len(s)) <= Cardinality(others)
  <2> HIDE DEF others, f
  <2> QED BY <1>3, <1>6, FS_Injection
<1>8. Cardinality(1 .. Len(s)) = Len(s)
  BY <1>1, Counted, Zenon, ZenonT(40)
<1> QED BY <1>1, <1>5, <1>6, <1>7, <1>8, FlowAssumption, SMTT(30), SMTT(60)

\* fdir_set_flex_mask replaces the entry of the flow type or appends one.
LEMMA OneTypeSet ==
  ASSUME NEW s, NEW w, Faithful(s, w), NEW t \in FlowTypes, NEW v \in Vals
  PROVE  Faithful(fdir_set_flex_mask(s, t, v), Typed(w, {t}, v))
<1> DEFINE new == [x \in DOMAIN w \union {t} |-> IF x = t THEN v ELSE w[x]]
<1>1. /\ s \in Seq(FlexTypes \X Vals) /\ Len(s) \in Nat /\ <<t, v>> \in FlexTypes \X Vals
      /\ \A i \in 1 .. Len(s) : s[i][1] \in FlexTypes /\ s[i] \in FlexTypes \X Vals
  BY DEF Faithful, FlexTables, FlexTypes
<1>2. CASE t \in TypesOf(s)
  <2> DEFINE r == [i \in 1 .. Len(s) |-> IF s[i][1] = t THEN <<t, v>> ELSE s[i]]
  <2>1. fdir_set_flex_mask(s, t, v) = r
    BY <1>2 DEF fdir_set_flex_mask
  <2>2. r \in Seq(FlexTypes \X Vals) /\ Len(r) = Len(s)
    BY <1>1
  <2>3. \A i \in 1 .. Len(s) : r[i][1] = s[i][1] /\ r[i][2] = IF s[i][1] = t THEN v ELSE s[i][2]
    BY <1>1
  <2> HIDE DEF r
  <2>4. TypesOf(r) = TypesOf(s)
    BY <2>2, <2>3 DEF TypesOf
  <2>5. DOMAIN new = DOMAIN w
    BY <1>2, Zenon, ZenonT(40) DEF Faithful
  <2>6. \A i \in 1 .. Len(s) : s[i][1] \in DOMAIN w
    BY DEF Faithful, TypesOf
  <2>7. \A i \in 1 .. Len(r) : r[i][2] = new[r[i][1]]
    BY <2>2, <2>3, <2>5, <2>6, SMTT(30), SMTT(60) DEF Faithful
  <2> HIDE DEF new
  <2>8. Faithful(r, new)
    BY <2>2, <2>3, <2>4, <2>5, <2>7 DEF Faithful, FlexTables
  <2>9. new = Typed(w, {t}, v)
    BY DEF new, Typed
  <2> QED BY <2>1, <2>8, <2>9
<1>3. CASE t \notin TypesOf(s)
  <2> DEFINE r == Append(s, <<t, v>>)
  <2>1. fdir_set_flex_mask(s, t, v) = r
    BY <1>3, RoomForOne DEF fdir_set_flex_mask
  <2>2. /\ r \in Seq(FlexTypes \X Vals) /\ Len(r) = Len(s) + 1
        /\ \A i \in 1 .. Len(s) : r[i] = s[i]
        /\ r[Len(s) + 1] = <<t, v>>
    BY <1>1
  <2> HIDE DEF r
  <2>3. TypesOf(r) = TypesOf(s) \union {t}
    <3>1. \A i \in 1 .. Len(r) : r[i][1] \in TypesOf(s) \union {t}
      BY <1>1, <2>2, SMTT(90) DEF TypesOf
    <3>2. \A x \in TypesOf(s) \union {t} : \E i \in 1 .. Len(r) : r[i][1] = x
      BY <1>1, <2>2, SMTT(30), SMTT(60) DEF TypesOf
    <3> QED BY <3>1, <3>2, Zenon, ZenonT(40) DEF TypesOf
  <2>4. DOMAIN new = DOMAIN w \union {t}
    OBVIOUS
  <2>5. \A i \in 1 .. Len(s) : s[i][1] \in DOMAIN w /\ s[i][1] # t
    BY <1>3 DEF Faithful, TypesOf
  <2>6. \A i \in 1 .. Len(r) : r[i][2] = new[r[i][1]]
    <3>1. \A i \in 1 .. Len(s) : new[s[i][1]] = w[s[i][1]]
      BY <2>5
    <3>2. new[t] = v
      OBVIOUS
    <3>3. \A i \in 1 .. Len(s) : r[i][2] = new[r[i][1]]
      BY <2>2, <3>1, ZenonT(40), ZenonT(60) DEF Faithful
    <3> HIDE DEF new
    <3> QED BY <1>1, <2>2, <3>2, <3>3
  <2>7. \A i, j \in 1 .. Len(r) : r[i][1] = r[j][1] => i = j
    <3>1. \A i \in 1 .. Len(s) : r[i][1] # t
      BY <2>2, <2>5, Zenon, ZenonT(40)
    <3>2. r[Len(s) + 1][1] = t
      BY <2>2
    <3>3. \A i, j \in 1 .. Len(s) : r[i][1] = r[j][1] => i = j
      BY <2>2 DEF Faithful
    <3>4. \A i \in 1 .. Len(r) : i \in 1 .. Len(s) \/ i = Len(s) + 1
      BY <1>1, <2>2, SMTT(30), SMTT(60)
    <3> QED BY <3>1, <3>2, <3>3, <3>4, Zenon, ZenonT(40)
  <2> HIDE DEF new
  <2>8. Faithful(r, new)
    BY <2>2, <2>3, <2>4, <2>6, <2>7, SMTT(30), SMTT(60) DEF Faithful, FlexTables
  <2>9. new = Typed(w, {t}, v)
    BY DEF new, Typed
  <2> QED BY <2>1, <2>8, <2>9
<1> QED BY <1>2, <1>3

\* A finite set can be listed without repetition, and the list has all of it.
LEMMA Listing ==
  ASSUME NEW S, IsFiniteSet(S)
  PROVE  /\ Cardinality(S) \in Nat /\ Listed(S) \in [1 .. Cardinality(S) -> S]
         /\ IsInjective(Listed(S))
         /\ \A x \in S : \E i \in 1 .. Cardinality(S) : Listed(S)[i] = x
<1> DEFINE n == Cardinality(S)
           f == Listed(S)
<1>1. n \in Nat /\ ExistsBijection(1 .. n, S)
  BY FS_CardinalityType
<1>2. \E g \in [1 .. n -> S] : IsInjective(g)
  BY <1>1 DEF ExistsBijection, Bijection, Injection
<1>3. f \in [1 .. n -> S] /\ IsInjective(f)
  BY <1>2 DEF Listed
<1>4. IsFiniteSet(1 .. n) /\ Cardinality(1 .. n) = n
  BY <1>1, Counted
<1>5. f \in Injection(1 .. n, S)
  BY <1>3 DEF Injection
<1>6. f \in Surjection(1 .. n, S)
  BY <1>4, <1>5, FS_Injection
<1> QED BY <1>1, <1>3, <1>6 DEF Surjection

\* The entries of two lists joined.
LEMMA Joined ==
  ASSUME NEW S, NEW a \in Seq(S), NEW b \in Seq(S)
  PROVE  /\ a \o b \in Seq(S) /\ Len(a \o b) = Len(a) + Len(b)
         /\ \A i \in 1 .. Len(a) : (a \o b)[i] = a[i]
         /\ \A i \in 1 .. Len(b) : (a \o b)[Len(a) + i] = b[i]
OBVIOUS

\* "all" leaves one entry, with the new mask, for every supported flow type.
LEMMA AllTypesSet ==
  ASSUME NEW s, NEW w, Faithful(s, w), NEW v \in Vals
  PROVE  Faithful(SetAllFlows(s, v), Typed(w, FlowTypes, v))
<1> DEFINE goal == [x \in DOMAIN w \union FlowTypes |-> IF x \in FlowTypes THEN v ELSE w[x]]
           new == FlowTypes \ TypesOf(s)
           n == Cardinality(new)
           order == Listed(new)
           a == [i \in 1 .. Len(s) |-> IF s[i][1] \in FlowTypes THEN <<s[i][1], v>> ELSE s[i]]
           b == [i \in 1 .. n |-> <<order[i], v>>]
           r == a \o b
<1>1. SetAllFlows(s, v) = r
  BY DEF SetAllFlows
<1>2. /\ s \in Seq(FlexTypes \X Vals) /\ Len(s) \in Nat
      /\ \A i \in 1 .. Len(s) : s[i][1] \in FlexTypes /\ s[i] \in FlexTypes \X Vals
  BY DEF Faithful, FlexTables, FlexTypes
<1>3. IsFiniteSet(new)
  BY FlowAssumption, FS_Subset
<1>4. /\ n \in Nat /\ order \in [1 .. n -> new] /\ IsInjective(order)
      /\ \A x \in new : \E i \in 1 .. n : order[i] = x
  <2> HIDE DEF new
  <2> QED BY <1>3, Listing
<1>5. new \subseteq FlexTypes /\ new \subseteq FlowTypes /\ new \intersect TypesOf(s) = {}
  BY DEF FlexTypes
<1> HIDE DEF order, new, n
<1>6. a \in Seq(FlexTypes \X Vals) /\ Len(a) = Len(s)
  BY <1>2
<1>7. b \in Seq(FlexTypes \X Vals) /\ Len(b) = n
  BY <1>4, <1>5, SMTT(30), SMTT(60)
<1>8. \A i \in 1 .. Len(s) : /\ a[i][1] = s[i][1]
                             /\ a[i][2] = IF s[i][1] \in FlowTypes THEN v ELSE s[i][2]
  BY <1>2
<1>9. \A i \in 1 .. n : b[i][1] = order[i] /\ b[i][2] = v
  BY <1>4
<1> HIDE DEF a, b
<1>10. /\ r \in Seq(FlexTypes \X Vals) /\ Len(r) = Len(s) + n
       /\ \A i \in 1 .. Len(s) : r[i] = a[i]
       /\ \A i \in 1 .. n : r[Len(s) + i] = b[i]
  <2>1. /\ r \in Seq(FlexTypes \X Vals) /\ Len(r) = Len(a) + Len(b)
        /\ \A i \in 1 .. Len(a) : r[i] = a[i]
        /\ \A i \in 1 .. Len(b) : r[Len(a) + i] = b[i]
    <3>1. a \in Seq(FlexTypes \X Vals) /\ b \in Seq(FlexTypes \X Vals)
      BY <1>6, <1>7
    <3> QED BY <3>1, Joined
  <2> HIDE DEF r
  <2> QED BY <1>6, <1>7, <2>1
<1> HIDE DEF r
<1>11. \A i \in 1 .. Len(r) : i \in 1 .. Len(s) \/ \E j \in 1 .. n : i = Len(s) + j
  <2>1. SUFFICES ASSUME NEW i \in 1 .. Len(r), i \notin 1 .. Len(s)
                 PROVE  \E j \in 1 .. n : i = Len(s) + j
    OBVIOUS
  <2>2. i - Len(s) \in 1 .. n /\ i = Len(s) + (i - Len(s))
    BY <1>2, <1>4, <1>10, <2>1
  <2> QED BY <2>2
<1>12. \A i \in 1 .. Len(s) : i \in 1 .. Len(r)
  BY <1>2, <1>4, <1>10
<1>13. \A i \in 1 .. n : Len(s) + i \in 1 .. Len(r)
  BY <1>2, <1>4, <1>10, SMTT(30), SMTT(60)
<1>14. \A i \in 1 .. Len(s) : r[i][1] = s[i][1] /\ s[i][1] \in TypesOf(s)
                              /\ r[i][2] = IF s[i][1] \in FlowTypes THEN v ELSE s[i][2]
  BY <1>8, <1>10 DEF TypesOf
<1>15. \A j \in 1 .. n : r[Len(s) + j][1] = order[j] /\ order[j] \in new /\ r[Len(s) + j][2] = v
  BY <1>4, <1>9, <1>10, SMTT(30), SMTT(60)
<1>16. TypesOf(s) = DOMAIN w
  BY DEF Faithful
<1>17. DOMAIN goal = DOMAIN w \union FlowTypes
  OBVIOUS
<1>18. TypesOf(r) = DOMAIN goal
  <2>1. \A i \in 1 .. Len(r) : r[i][1] \in DOMAIN goal
    <3>1. \A i \in 1 .. Len(s) : r[i][1] \in DOMAIN goal
      BY <1>14, <1>16, <1>17, Zenon, ZenonT(40)
    <3>2. \A j \in 1 .. n : r[Len(s) + j][1] \in DOMAIN goal
      BY <1>5, <1>15, <1>17, Zenon, ZenonT(40)
    <3> QED BY <1>11, <3>1, <3>2, Zenon, ZenonT(40)
  <2>2. ASSUME NEW x \in DOMAIN goal PROVE \E i \in 1 .. Len(r) : r[i][1] = x
    <3>1. CASE x \in TypesOf(s)
      <4>1. PICK i \in 1 .. Len(s) : s[i][1] = x
        BY <3>1 DEF TypesOf
      <4> QED BY <4>1, <1>12, <1>14
    <3>2. CASE x \notin TypesOf(s)
      <4>1. x \in new
        BY <3>2, <1>16, <1>17 DEF new
      <4>2. PICK j \in 1 .. n : order[j] = x
        BY <4>1, <1>4
      <4> QED BY <4>2, <1>13, <1>15
    <3> QED BY <3>1, <3>2, SMTT(30), SMTT(60)
  <2> QED BY <2>1, <2>2 DEF TypesOf
<1>19. \A i \in 1 .. Len(r) : r[i][2] = goal[r[i][1]]
  <2>1. \A i \in 1 .. Len(s) : r[i][2] = goal[r[i][1]]
    <3>1. \A i \in 1 .. Len(s) : goal[s[i][1]] = IF s[i][1] \in FlowTypes THEN v ELSE w[s[i][1]]
      BY <1>14, <1>16, SMTT(30), SMTT(60)
    <3> HIDE DEF goal
    <3> QED BY <1>14, <3>1, SMTT(30), SMTT(60) DEF Faithful
  <2>2. \A j \in 1 .. n : r[Len(s) + j][2] = goal[r[Len(s) + j][1]]
    BY <1>5, <1>15
  <2> QED BY <1>11, <2>1, <2>2, Zenon, ZenonT(40)
<1>20. ASSUME NEW i \in 1 .. Len(r), NEW j \in 1 .. Len(r), r[i][1] = r[j][1] PROVE i = j
  <2>1. CASE i \in 1 .. Len(s) /\ j \in 1 .. Len(s)
    BY <1>14, <1>20, <2>1 DEF Faithful
  <2>2. CASE i \in 1 .. Len(s) /\ j \notin 1 .. Len(s)
    <3>1. PICK k \in 1 .. n : j = Len(s) + k
      BY <2>2, <1>11, SMTT(30), SMTT(60)
    <3> QED BY <1>5, <1>14, <1>15, <1>20, <2>2, <3>1, SMTT(30), SMTT(60)
  <2>3. CASE i \notin 1 .. Len(s) /\ j \in 1 .. Len(s)
    <3>1. PICK k \in 1 .. n : i = Len(s) + k
      BY <2>3, <1>11
    <3> QED BY <1>5, <1>14, <1>15, <1>20, <2>3, <3>1, SMTT(30), SMTT(60)
  <2>4. CASE i \notin 1 .. Len(s) /\ j \notin 1 .. Len(s)
    <3>1. PICK k \in 1 .. n : i = Len(s) + k
      BY <2>4, <1>11
    <3>2. PICK l \in 1 .. n : j = Len(s) + l
      BY <2>4, <1>11
    <3>3. order[k] = order[l]
      BY <1>15, <1>20, <3>1, <3>2
    <3>4. k = l
      BY <1>4, <3>3 DEF IsInjective
    <3> QED BY <3>1, <3>2, <3>4
  <2> QED BY <2>1, <2>2, <2>3, <2>4
<1> HIDE DEF goal
<1>21. Faithful(r, goal)
  BY <1>10, <1>18, <1>19, <1>20 DEF Faithful, FlexTables
<1> QED BY <1>1, <1>21 DEF goal, Typed

\* A command on a stopped port that leaves the masks alone.
LEMMA OtherTable ==
  ASSUME FlexInv, NEW p \in Ports, NEW new, Tables(p, new), UNCHANGED wanted,
         DOMAIN new = DOMAIN table[p], new.masks = table[p].masks,
         new.started = table[p].started, new.need \in BOOLEAN, table[p].need => new.need
  PROVE  FlexInv'
<1>1. /\ table' = [table EXCEPT ![p] = new] /\ UNCHANGED <<device, wanted, dropped>>
      /\ ~table[p].started
  BY DEF Tables
<1>2. /\ DOMAIN table' = Ports /\ table'[p] = new
      /\ \A q \in Ports : q # p => table'[q] = table[q]
  BY <1>1 DEF FlexInv
<1> QED BY <1>1, <1>2, ZenonT(40), ZenonT(60) DEF FlexInv

\* A command that types masks.
LEMMA MasksTyped ==
  ASSUME FlexInv, NEW p \in Ports, NEW s, NEW w, Faithful(s, w), SetMasks(p, s, w)
  PROVE  FlexInv'
<1> DEFINE new == [table[p] EXCEPT !.masks = s, !.need = TRUE]
<1>1. /\ table' = [table EXCEPT ![p] = new] /\ UNCHANGED <<device, dropped>>
      /\ ~table[p].started /\ wanted' = [wanted EXCEPT ![p] = w]
  BY DEF SetMasks, Tables
<1>2. /\ DOMAIN new = {"mask", "masks", "payloads", "started", "need"}
      /\ new.masks = s /\ new.need = TRUE /\ new.started = table[p].started
  BY DEF FlexInv
<1> HIDE DEF new
<1>3. /\ DOMAIN table' = Ports /\ table'[p] = new
      /\ \A q \in Ports : q # p => table'[q] = table[q]
  BY <1>1 DEF FlexInv
<1>4. /\ DOMAIN wanted' = Ports /\ wanted'[p] = w
      /\ \A q \in Ports : q # p => wanted'[q] = wanted[q]
  BY <1>1 DEF FlexInv
<1> QED BY <1>1, <1>2, <1>3, <1>4, Zenon, ZenonT(40) DEF FlexInv

\* Requests for filters do not touch the tables.
LEMMA RequestsApart ==
  RequestNext => UNCHANGED <<table, device, wanted, dropped>>
<1> SUFFICES ASSUME RequestNext PROVE UNCHANGED <<table, device, wanted, dropped>>
  OBVIOUS
<1>1. \A p, op, e : rte_eth_dev_filter_ctrl(p, op, e) => UNCHANGED <<table, device, wanted, dropped>>
  BY DEF rte_eth_dev_filter_ctrl
<1>2. CASE cmd_syn_filter             BY <1>1, <1>2, Zenon, ZenonT(40) DEF cmd_syn_filter
<1>3. CASE cmd_2tuple_filter          BY <1>1, <1>3, Zenon, ZenonT(40) DEF cmd_2tuple_filter
<1>4. CASE cmd_5tuple_filter          BY <1>1, <1>4, ZenonT(60) DEF cmd_5tuple_filter
<1>5. CASE cmd_flex_filter            BY <1>1, <1>5 DEF cmd_flex_filter
<1>6. CASE cmd_ethertype_filter       BY <1>1, <1>6, Zenon, ZenonT(40) DEF cmd_ethertype_filter
<1>7. CASE cmd_tunnel_filter          BY <1>1, <1>7, Zenon, ZenonT(40) DEF cmd_tunnel_filter
<1>8. CASE cmd_tunnel_udp_config      BY <1>1, <1>8, Zenon, ZenonT(40) DEF cmd_tunnel_udp_config
<1>9. CASE cmd_global_config          BY <1>1, <1>9, Zenon, ZenonT(40) DEF cmd_global_config
<1>10. CASE cmd_flow_director_filter  BY <1>1, <1>10, ZenonT(40), ZenonT(60) DEF cmd_flow_director_filter
<1>11. CASE cmd_flush_flow_director   BY <1>11, Zenon, ZenonT(40) DEF cmd_flush_flow_director
<1> QED
  BY <1>2, <1>3, <1>4, <1>5, <1>6, <1>7, <1>8, <1>9, <1>10, <1>11, Zenon, ZenonT(40) DEF RequestNext

\* The inductive step: only the commands on the tables, "port start" and the
\* reconfiguration of all ports touch them.
LEMMA FlexKept ==
  FlexInv /\ [RequestNext \/ TableNext]_filtvars => FlexInv'
<1> SUFFICES ASSUME FlexInv, [RequestNext \/ TableNext]_filtvars PROVE FlexInv'
  OBVIOUS
<1>a. \A p \in FewPorts : p \in Ports
  BY BaseAssumption
<1>b. Faithful(<<>>, <<>>)
  BY DEF Faithful, FlexTables, TypesOf
<1>1. CASE UNCHANGED <<table, device, wanted, dropped>>
  BY <1>1 DEF FlexInv
<1>2. CASE cmd_flow_director_mask
  <2>1. PICK p \in FewPorts, m \in Vals, k \in 0 .. 4 :
          /\ LET written == {MaskOrder[i] : i \in 1 .. IF FdirMode = "IP" THEN k + 1 ELSE 1}
             IN Tables(p, [table[p] EXCEPT
                  !.mask = [f \in DOMAIN @ |-> IF f \in written THEN m ELSE @[f]],
                  !.need = @ \/ FdirMode # "IP" \/ k = 4])
          /\ UNCHANGED wanted
    BY <1>2, Zenon, ZenonT(40) DEF cmd_flow_director_mask
  <2> DEFINE written == {MaskOrder[i] : i \in 1 .. IF FdirMode = "IP" THEN k + 1 ELSE 1}
             mask == [f \in DOMAIN table[p].mask |-> IF f \in written THEN m ELSE table[p].mask[f]]
             need == table[p].need \/ FdirMode # "IP" \/ k = 4
             new == [table[p] EXCEPT !.mask = mask, !.need = need]
  <2>2. Tables(p, new) /\ UNCHANGED wanted
    BY <2>1
  <2>3. need \in BOOLEAN /\ (table[p].need => need)
    BY Zenon, ZenonT(40)
  <2> HIDE DEF mask, written, need
  <2>4. DOMAIN new = DOMAIN table[p] /\ new.masks = table[p].masks /\ new.need = need
        /\ new.started = table[p].started
    BY <1>a DEF FlexInv
  <2> HIDE DEF new
  <2> QED BY <1>a, <2>2, <2>3, <2>4, OtherTable, Zenon, ZenonT(40)
<1>3. CASE cmd_flow_director_flex_mask
  <2>1. PICK p \in FewPorts, word \in FlowTypes \union {"none", "all", "l2_payload"}, v \in Vals :
          \/ SetMasks(p, << <<"unknown", v>> >>, [t \in {"unknown"} |-> v])
          \/ SetMasks(p, SetAllFlows(table[p].masks, v), Typed(wanted[p], FlowTypes, v))
          \/ /\ str2flowtype(word) \in FlowTypes
             /\ SetMasks(p, fdir_set_flex_mask(table[p].masks, word, v),
                         Typed(wanted[p], {word}, v))
    BY <1>3, Zenon, ZenonT(40) DEF cmd_flow_director_flex_mask
  <2>2. p \in Ports /\ Faithful(table[p].masks, wanted[p])
    BY <1>a, SMTT(30), SMTT(60) DEF FlexInv
  <2>3. Faithful(<< <<"unknown", v>> >>, [t \in {"unknown"} |-> v])
    BY DEF Faithful, FlexTables, FlexTypes, TypesOf
  <2>4. str2flowtype(word) \in FlowTypes => word \in FlowTypes
    BY FlowAssumption DEF str2flowtype
  <2> QED BY <2>1, <2>2, <2>3, <2>4, MasksTyped, AllTypesSet, OneTypeSet, Zenon, ZenonT(40)
<1>4. CASE cmd_flow_director_flex_payload
  <2>1. PICK p \in FewPorts, layer \in {"raw", "l2", "l3", "l4"}, v \in Vals :
          /\ Tables(p, [table[p] EXCEPT !.payloads = fdir_set_flex_payload(@, layer, v),
                                        !.need = TRUE])
          /\ UNCHANGED wanted
    BY <1>4, Zenon, ZenonT(40) DEF cmd_flow_director_flex_payload
  <2> DEFINE payloads == fdir_set_flex_payload(table[p].payloads, layer, v)
             new == [table[p] EXCEPT !.payloads = payloads, !.need = TRUE]
  <2>2. Tables(p, new) /\ UNCHANGED wanted
    BY <2>1
  <2> HIDE DEF payloads
  <2>3. DOMAIN new = DOMAIN table[p] /\ new.masks = table[p].masks /\ new.need = TRUE
        /\ new.started = table[p].started
    BY <1>a DEF FlexInv
  <2> HIDE DEF new
  <2> QED BY <1>a, <2>2, <2>3, OtherTable, Zenon, ZenonT(40)
<1>5. CASE start_stop_port
  <2>1. PICK p \in FewPorts :
          /\ table' = [table EXCEPT ![p].started = ~@, ![p].need = @ /\ table[p].started]
          /\ device' = IF ~table[p].started /\ table[p].need
                         THEN [device EXCEPT ![p] = [mask |-> table[p].mask,
                                                     masks |-> table[p].masks,
                                                     payloads |-> table[p].payloads]]
                         ELSE device
          /\ dropped' = IF ~table[p].started /\ table[p].need THEN dropped \ {p} ELSE dropped
          /\ UNCHANGED wanted
    BY <1>5, Zenon, ZenonT(40) DEF start_stop_port
  <2>2. p \in Ports
    BY <1>a
  <2>3. /\ DOMAIN table' = Ports /\ DOMAIN table'[p] = DOMAIN table[p]
        /\ table'[p].masks = table[p].masks /\ table'[p].started = ~table[p].started
        /\ table'[p].need = (table[p].need /\ table[p].started)
        /\ \A q \in Ports : q # p => table'[q] = table[q]
    BY <2>1, <2>2 DEF FlexInv
  <2>4. /\ DOMAIN device' = Ports
        /\ \A q \in Ports : q # p => device'[q] = device[q]
        /\ device'[p].masks = IF ~table[p].started /\ table[p].need THEN table[p].masks
                              ELSE device[p].masks
    BY <2>1, <2>2 DEF FlexInv
  <2>5. /\ table'[p].started \in BOOLEAN /\ table'[p].need \in BOOLEAN
        /\ table'[p].started => ~table'[p].need
        /\ ~table'[p].need /\ p \notin dropped' => device'[p].masks = table'[p].masks
    <3>1. CASE ~table[p].started /\ table[p].need
      BY <2>2, <2>3, <2>4, <3>1, Zenon, ZenonT(40) DEF FlexInv
    <3>2. CASE ~(~table[p].started /\ table[p].need)
      <4>1. dropped' = dropped
        BY <2>1, <3>2, Zenon, ZenonT(40)
      <4> QED BY <2>2, <2>3, <2>4, <3>2, <4>1, Zenon, ZenonT(40) DEF FlexInv
    <3> QED BY <3>1, <3>2, Zenon, ZenonT(40)
  <2>6. \A q \in Ports : q # p /\ q \notin dropped' => q \notin dropped
    BY <2>1
  <2> QED BY <2>1, <2>2, <2>3, <2>4, <2>5, <2>6, Zenon, ZenonT(40) DEF FlexInv
<1>6. CASE init_port_config_flagged
  <2>1. ASSUME NEW p \in Ports
        PROVE  /\ DOMAIN table'[p] = DOMAIN table[p] /\ table'[p].masks = <<>>
               /\ table'[p].need = TRUE /\ table'[p].started = table[p].started
               /\ ~table[p].started /\ wanted'[p] = <<>>
    BY <1>6, <2>1, Zenon, ZenonT(40) DEF init_port_config_flagged, Emptied, FlexInv
  <2>2. DOMAIN table' = Ports /\ DOMAIN wanted' = Ports /\ UNCHANGED device
    BY <1>6, Zenon, ZenonT(40) DEF init_port_config_flagged
  <2> QED BY <1>b, <2>1, <2>2, Zenon, ZenonT(40) DEF FlexInv
<1>7. CASE init_port_config_unflagged
  <2>1. ASSUME NEW p \in Ports
        PROVE  /\ DOMAIN table'[p] = DOMAIN table[p] /\ table'[p].masks = <<>>
               /\ table'[p].need = table[p].need /\ table'[p].started = table[p].started
               /\ wanted'[p] = <<>> /\ (~table[p].need => p \in dropped')
    BY <1>7, <2>1, Zenon, ZenonT(40) DEF init_port_config_unflagged, Emptied, FlexInv
  <2>2. DOMAIN table' = Ports /\ DOMAIN wanted' = Ports /\ UNCHANGED device
    BY <1>7, Zenon, ZenonT(40) DEF init_port_config_unflagged
  <2> QED BY <1>b, <2>1, <2>2, Zenon, ZenonT(40) DEF FlexInv
<1>8. CASE init_port_dcb_config_fdir
  <2>1. PICK p \in FewPorts :
          /\ Tables(p, [Emptied(table[p]) EXCEPT !.need = TRUE])
          /\ wanted' = [wanted EXCEPT ![p] = <<>>]
    BY <1>8, Zenon, ZenonT(40) DEF init_port_dcb_config_fdir
  <2>2. p \in Ports
    BY <1>a
  <2>3. /\ DOMAIN table' = Ports /\ DOMAIN table'[p] = DOMAIN table[p]
        /\ table'[p].masks = <<>> /\ table'[p].need = TRUE /\ ~table[p].started
        /\ table'[p].started = table[p].started
        /\ \A q \in Ports : q # p => table'[q] = table[q]
    BY <2>1, <2>2 DEF FlexInv, Tables, Emptied
  <2>4. /\ DOMAIN wanted' = Ports /\ wanted'[p] = <<>> /\ UNCHANGED <<device, dropped>>
        /\ \A q \in Ports : q # p => wanted'[q] = wanted[q]
    BY <2>1, <2>2 DEF FlexInv, Tables
  <2> QED BY <1>b, <2>2, <2>3, <2>4, Zenon, ZenonT(40) DEF FlexInv
<1> QED
  BY <1>1, <1>2, <1>3, <1>4, <1>5, <1>6, <1>7, <1>8, RequestsApart DEF filtvars, TableNext

\* After any sequence of flow director commands, starts and stops of ports and
\* rewritings of their settings (init_port_config, init_port_dcb_config), a started
\* port has one flexible mask for each flow type typed, the one typed last
\* (fdir_set_flex_mask), unless its table was emptied behind its device.
THEOREM FlexMasksTyped == FiltSpec => []FlexMasksAsTyped
<1>1. FiltInit => FlexInv
  <2> SUFFICES ASSUME FiltInit PROVE FlexInv
    OBVIOUS
  <2>1. Faithful(<<>>, <<>>)
    BY DEF Faithful, FlexTables, TypesOf
  <2>2. ASSUME NEW p \in Ports
        PROVE  /\ DOMAIN table[p] = {"mask", "masks", "payloads", "started", "need"}
               /\ table[p].masks = <<>> /\ table[p].need = TRUE /\ table[p].started = FALSE
               /\ wanted[p] = <<>>
    BY DEF FiltInit
  <2>3. DOMAIN table = Ports /\ DOMAIN device = Ports /\ DOMAIN wanted = Ports
    BY DEF FiltInit
  <2> QED BY <2>1, <2>2, <2>3, Zenon, ZenonT(40) DEF FlexInv
<1>2. FlexInv => FlexMasksAsTyped
  <2> SUFFICES ASSUME FlexInv, NEW p \in Ports \ dropped, table[p].started
               PROVE  LET s == device[p].masks
                      IN /\ Len(s) = Len(table[p].masks) /\ TypesOf(s) = DOMAIN wanted[p]
                         /\ \A i, j \in 1 .. Len(s) : s[i][1] = s[j][1] => i = j
                         /\ \A i \in 1 .. Len(s) : s[i][2] = wanted[p][s[i][1]]
    BY Zenon, ZenonT(40) DEF FlexMasksAsTyped
  <2>1. device[p].masks = table[p].masks /\ Faithful(table[p].masks, wanted[p])
    BY DEF FlexInv
  <2> QED BY <2>1, Zenon, ZenonT(40) DEF Faithful
<1> QED BY <1>1, <1>2, FlexKept, PTL DEF FiltSpec

-----------------------------------------------------------------------------
(* Registers *)

\* A power of two counts subsets.
LEMMA PowerCounts ==
  ASSUME NEW S, IsFiniteSet(S), NEW n, Cardinality(S) = n
  PROVE  IsFiniteSet(SUBSET S) /\ Cardinality(SUBSET S) = 2^n /\ 2^n \in Nat
BY FS_SUBSET, FS_CardinalityType

\* How many numbers an interval has.
LEMMA IntervalCount ==
  ASSUME NEW a \in Nat, NEW b \in Nat
  PROVE  IsFiniteSet(a + 1 .. a + b) /\ Cardinality(a + 1 .. a + b) = b
<1> DEFINE l == a + 1
           h == a + b
<1>1. l \in Int /\ h \in Int /\ (IF l > h THEN 0 ELSE h - l + 1) = b
  OBVIOUS
<1> HIDE DEF l, h
<1>2. IsFiniteSet(l .. h) /\ Cardinality(l .. h) = b
  BY <1>1, FS_Interval
<1> QED BY <1>2 DEF l, h

\* The powers of two that shifts multiply and divide by.
LEMMA PowerValues ==
  /\ 2^0 = 1 /\ 2^1 = 2
  /\ \A n \in Nat : 2^n \in Nat \ {0}
<1>1. 2^0 = 1
  <2>1. SUBSET {} = {{}}
    OBVIOUS
  <2>2. Cardinality(SUBSET {}) = 2^0
    BY FS_EmptySet, PowerCounts, Zenon, ZenonT(40)
  <2>3. Cardinality({{}}) = 1
    BY FS_Singleton, Zenon, ZenonT(40)
  <2> QED BY <2>1, <2>2, <2>3
<1>2. 2^1 = 2
  <2>1. IsFiniteSet({1}) /\ Cardinality({1}) = 1
    BY FS_Singleton
  <2>2. SUBSET {1} = {{}, {1}}
    OBVIOUS
  <2>3. IsFiniteSet({{}}) /\ Cardinality({{}}) = 1
    BY FS_Singleton, Zenon, ZenonT(40)
  <2>4. Cardinality({{}} \union {{1}}) = 2
    <3>1. {1} \notin {{}}
      OBVIOUS
    <3>2. Cardinality({{}} \union {{1}}) = Cardinality({{}}) + 1
      BY <2>3, <3>1, FS_AddElement, Zenon, ZenonT(40)
    <3> QED BY <2>3, <3>2
  <2>5. {{}, {1}} = {{}} \union {{1}}
    OBVIOUS
  <2> QED BY <2>1, <2>2, <2>4, <2>5, PowerCounts, Zenon, ZenonT(40)
<1>3. ASSUME NEW n \in Nat PROVE 2^n \in Nat \ {0}
  <2>1. IsFiniteSet(1 .. n) /\ Cardinality(1 .. n) = n
    BY FS_Interval
  <2>2. IsFiniteSet(SUBSET (1 .. n)) /\ Cardinality(SUBSET (1 .. n)) = 2^n /\ 2^n \in Nat
    BY <2>1, PowerCounts, Zenon, ZenonT(40)
  <2>3. SUBSET (1 .. n) # {}
    BY Zenon, ZenonT(40)
  <2> QED BY <2>2, <2>3, FS_EmptySet
<1> QED BY <1>1, <1>2, <1>3

\* Exponents add: a subset of 1 .. a + b is one of the first a numbers and one of
\* the others.
LEMMA PowerSum ==
  ASSUME NEW a \in Nat, NEW b \in Nat
  PROVE  2^(a + b) = 2^a * 2^b
<1> DEFINE A == 1 .. a
           B == a + 1 .. a + b
           C == 1 .. a + b
           f == [s \in SUBSET C |-> <<s \intersect A, s \intersect B>>]
<1>1. /\ IsFiniteSet(A) /\ Cardinality(A) = a
      /\ IsFiniteSet(B) /\ Cardinality(B) = b
      /\ IsFiniteSet(C) /\ Cardinality(C) = a + b
  <2>1. 0 \in Nat /\ a + b \in Nat /\ 0 + 1 = 1 /\ 0 + a = a /\ 0 + (a + b) = a + b
    OBVIOUS
  <2>2. IsFiniteSet(0 + 1 .. 0 + a) /\ Cardinality(0 + 1 .. 0 + a) = a
    BY <2>1, IntervalCount, Zenon, ZenonT(40)
  <2>3. IsFiniteSet(0 + 1 .. 0 + (a + b)) /\ Cardinality(0 + 1 .. 0 + (a + b)) = a + b
    BY <2>1, IntervalCount, Zenon, ZenonT(40)
  <2> QED BY <2>1, <2>2, <2>3, IntervalCount, Zenon, ZenonT(40)
<1>2. /\ IsFiniteSet(SUBSET A) /\ Cardinality(SUBSET A) = 2^a
      /\ IsFiniteSet(SUBSET B) /\ Cardinality(SUBSET B) = 2^b
      /\ IsFiniteSet(SUBSET C) /\ Cardinality(SUBSET C) = 2^(a + b)
  BY <1>1, PowerCounts, Zenon, ZenonT(40)
<1>3. C = A \union B /\ A \intersect B = {}
  BY SMTT(30), SMTT(60)
<1> HIDE DEF A, B, C
<1>4. f \in Bijection(SUBSET C, (SUBSET A) \X (SUBSET B))
  <2>1. f \in [SUBSET C -> (SUBSET A) \X (SUBSET B)]
    BY Zenon, ZenonT(40)
  <2>2. ASSUME NEW s \in SUBSET C, NEW t \in SUBSET C, f[s] = f[t] PROVE s = t
    <3>1. f[s] = <<s \intersect A, s \intersect B>> /\ f[t] = <<t \intersect A, t \intersect B>>
      BY Zenon, ZenonT(40)
    <3>2. s \intersect A = t \intersect A /\ s \intersect B = t \intersect B
      BY <2>2, <3>1
    <3> QED BY <1>3, <3>2, Zenon, ZenonT(40)
  <2>3. ASSUME NEW z \in (SUBSET A) \X (SUBSET B) PROVE \E s \in SUBSET C : f[s] = z
    <3>1. PICK x \in SUBSET A, y \in SUBSET B : z = <<x, y>>
      OBVIOUS
    <3>2. x \union y \in SUBSET C /\ (x \union y) \intersect A = x /\ (x \union y) \intersect B = y
      BY <1>3, Zenon, ZenonT(40)
    <3>3. f[x \union y] = <<x, y>>
      BY <3>2, Zenon, ZenonT(40)
    <3> QED BY <3>1, <3>2, <3>3, Zenon, ZenonT(40)
  <2> QED BY <2>1, <2>2, <2>3, Zenon, ZenonT(40) DEF Bijection, Injection, Surjection, IsInjective
<1>5. Cardinality((SUBSET A) \X (SUBSET B)) = 2^(a + b)
  BY <1>2, <1>4, FS_Bijection, Zenon, ZenonT(40) DEF ExistsBijection
<1>6. Cardinality((SUBSET A) \X (SUBSET B)) = Cardinality(SUBSET A) * Cardinality(SUBSET B)
  BY <1>2, FS_Product, Zenon, ZenonT(40)
<1> QED BY <1>2, <1>5, <1>6, Zenon, ZenonT(40)

\* What a multiple of the divisor adds to a quotient.
LEMMA QuotientSum ==
  ASSUME NEW n \in Nat \ {0}, NEW k \in Nat, NEW r \in Nat
  PROVE  (k * n + r) \div n = k + (r \div n)
<1> DEFINE q == r \div n
           m == r % n
<1>1. m \in 0 .. n - 1 /\ q \in Int /\ r = n * q + m
  BY Division
<1> HIDE DEF q, m
<1>2. k * n \in Nat /\ n * q \in Int /\ (k + q) * n = k * n + n * q
  BY <1>1, SMTT(30), SMTT(60)
<1> DEFINE x == k * n + r
           y == k + q
<1>3. x \in Int /\ y \in Int /\ y * n <= x /\ x < y * n + n
  BY <1>1, <1>2
<1> HIDE DEF x, y
<1>4. x \div n = y
  BY <1>3, Quotient
<1> QED BY <1>4 DEF x, y, q

\* Bit b of a value, as port_reg_bit_display shifts and masks it.
Bit(v, b) == (v \div 2^b) % 2

\* The value with k above the lowest l bits and r in them.
Join(k, l, r) == k * 2^l + r

\* The bits below a field do not depend on what is above them.
LEMMA LowBit ==
  ASSUME NEW k \in Nat, NEW r \in Nat, NEW l \in Nat, NEW b \in Nat, b < l
  PROVE  Bit(Join(k, l, r), b) = Bit(r, b)
<1> DEFINE d == l - (b + 1)
           p == 2^b
           e == 2^d
<1>1. d \in Nat /\ b + 1 \in Nat /\ l = (b + 1) + d
  OBVIOUS
<1>2. 2^(b + 1) = p * 2
  BY PowerSum, PowerValues, Zenon, ZenonT(40)
<1>3. 2^l = 2^(b + 1) * e
  BY <1>1, PowerSum, Zenon, ZenonT(40)
<1>4. p \in Nat \ {0} /\ e \in Nat \ {0}
  BY <1>1, PowerValues, Zenon, ZenonT(40)
<1> HIDE DEF d, p, e
<1> DEFINE y == k * e
<1>5. y \in Nat /\ k * 2^l = (2 * y) * p /\ 2 * y \in Nat
  BY <1>2, <1>3, <1>4, SMTT(30), SMTT(60)
<1> HIDE DEF y
<1>6. ((2 * y) * p + r) \div p = (2 * y) + (r \div p)
  BY <1>4, <1>5, QuotientSum, Zenon, ZenonT(40)
<1>7. r \div p \in Int
  BY <1>4, Division
<1>8. (2 * y + (r \div p)) % 2 = (r \div p) % 2
  BY <1>5, <1>7
<1> QED BY <1>5, <1>6, <1>8, Zenon, ZenonT(40) DEF Bit, Join, p

\* The bits above a field do not depend on what is in it.
LEMMA HighBit ==
  ASSUME NEW k \in Nat, NEW l \in Nat, NEW r \in Nat, r < 2^l, NEW c \in Nat
  PROVE  Bit(Join(k, l, r), l + c) = Bit(k, c)
<1> DEFINE a == 2^l
           n == 2^c
           q == k \div n
           m == k % n
           x == k * a + r
           s == a * n
<1>1. a \in Nat \ {0} /\ n \in Nat \ {0} /\ 2^(l + c) = s
  BY PowerValues, PowerSum, Zenon, ZenonT(40)
<1>2. m \in 0 .. n - 1 /\ q \in Int /\ k = n * q + m
  <2>1. k \in Int
    OBVIOUS
  <2> QED BY <1>1, <2>1, Division, Zenon, ZenonT(40)
<1>3. r < a
  OBVIOUS
<1> HIDE DEF a, n, q, m
<1>4. a * m <= a * (n - 1) /\ a * (n - 1) = a * n - a /\ a * m >= 0 /\ a * m \in Int /\ a * n \in Nat \ {0}
  BY <1>1, <1>2, SMTT(30), SMTT(60)
<1>5. x = q * s + (a * m + r) /\ q * s \in Int
  BY <1>1, <1>2, SMTT(30), SMTT(60)
<1> HIDE DEF x
<1>6. s \in Nat \ {0} /\ 0 <= a * m + r /\ a * m + r < s /\ a * m + r \in Int
  BY <1>1, <1>3, <1>4
<1> HIDE DEF s
<1>8. x \in Int /\ q * s <= x /\ x < q * s + s
  BY <1>5, <1>6
<1>7. x \div s = q
  BY <1>2, <1>6, <1>8, Quotient, Zenon, ZenonT(40)
<1> QED BY <1>1, <1>7, Zenon, ZenonT(40) DEF Bit, Join, x, a, q, n

\* A value that fits into l bits has none above them.
LEMMA NoBit ==
  ASSUME NEW l \in Nat, NEW r \in Nat, r < 2^l, NEW b \in Nat, b >= l
  PROVE  Bit(r, b) = 0
<1> DEFINE c == b - l
           n == 2^c
           z == 0
<1>1. c \in Nat /\ l + c = b
  OBVIOUS
<1> HIDE DEF c
<1>2. 2^l \in Nat /\ n \in Nat \ {0}
  BY <1>1, PowerValues, Zenon, ZenonT(40)
<1>3. Join(z, l, r) = r
  BY <1>2 DEF Join
<1>6. z \in Nat
  OBVIOUS
<1>7. c \in Nat
  BY <1>1
<1> HIDE DEF z
<1>4. Bit(Join(z, l, r), l + c) = Bit(z, c)
  BY <1>6, <1>7, HighBit
<1>5. Bit(z, c) = 0
  <2> HIDE DEF n
  <2>1. (0 \div n) % 2 = 0
    BY <1>2, SMTT(30), SMTT(60)
  <2> QED BY <2>1 DEF Bit, n, z
<1> QED BY <1>1, <1>3, <1>4, <1>5, Zenon, ZenonT(40)

\* A value is q above a field of n bits at l, m in it and r below; replacing the
\* field leaves the others.
Parts(v, l, n, q, m, r) ==
  /\ m < 2^n /\ r < 2^l
  /\ v = Join(Join(q, n, m), l, r) /\ v \div 2^l = Join(q, n, m) /\ (v \div 2^l) % 2^n = m
  /\ \A x \in Nat : ClearField(v, l, n) + x * 2^l = Join(Join(q, n, x), l, r)

\* Shifting out the bits below a field and the field finds these parts.
LEMMA Fields ==
  ASSUME NEW v \in Nat, NEW l \in Nat, NEW n \in Nat
  PROVE  \E q, m, r \in Nat : Parts(v, l, n, q, m, r)
<1> DEFINE a == 2^l
           s == 2^n
           k == v \div a
           r == v % a
           q == k \div s
           m == k % s
<1>1. a \in Nat \ {0} /\ s \in Nat \ {0} /\ 2^(l + n) = a * s
  BY PowerValues, PowerSum, Zenon, ZenonT(40)
<1>2. v \in Int
  OBVIOUS
<1>3. r \in 0 .. a - 1 /\ k \in Int /\ v = a * k + r
  BY <1>1, <1>2, Division, Zenon, ZenonT(40)
<1>4. m \in 0 .. s - 1 /\ q \in Int /\ k = s * q + m
  BY <1>1, <1>3, Division, Zenon, ZenonT(40)
<1> HIDE DEF r, k, q, m
<1>5. k \in Nat
  <2> HIDE DEF a
  <2> SUFFICES ASSUME k <= -1 PROVE FALSE
    BY <1>3
  <2>1. a * k <= a * (-1)
    BY <1>1, <1>3, SMTT(30), SMTT(60)
  <2> QED BY <1>1, <1>3, <2>1
<1>6. q \in Nat
  <2> HIDE DEF a, s
  <2> SUFFICES ASSUME q <= -1 PROVE FALSE
    BY <1>4
  <2>1. s * q <= s * (-1)
    BY <1>1, <1>4, SMTT(30), SMTT(60)
  <2> QED BY <1>1, <1>4, <1>5, <2>1
<1>7. v \div (a * s) = q
  <2> HIDE DEF a, s
  <2>1. a * m <= a * (s - 1) /\ a * (s - 1) = a * s - a /\ a * m >= 0 /\ a * m \in Int /\ a * s \in Nat \ {0}
    BY <1>1, <1>4, SMTT(30), SMTT(60)
  <2> DEFINE z == a * s
  <2>2. v = q * z + (a * m + r) /\ q * z \in Int
    BY <1>1, <1>3, <1>4, SMTT(30), SMTT(60)
  <2>3. z \in Nat \ {0} /\ 0 <= a * m + r /\ a * m + r < z /\ a * m + r \in Int
    BY <1>1, <1>3, <2>1
  <2> HIDE DEF z
  <2>4. q * z <= v /\ v < q * z + z
    BY <2>2, <2>3
  <2>5. v \div z = q
    BY <1>2, <1>4, <2>3, <2>4, Quotient, Zenon, ZenonT(40)
  <2> QED BY <2>5 DEF z
<1>8. ASSUME NEW x \in Nat PROVE ClearField(v, l, n) + x * a = (q * s + x) * a + r
  <2>1. ClearField(v, l, n) = q * (a * s) + r
    BY <1>1, <1>7, Zenon, ZenonT(40) DEF ClearField, r
  <2> HIDE DEF a, s
  <2>2. q * (a * s) + r + x * a = (q * s + x) * a + r
    BY <1>1, <1>3, <1>6, SMTT(30), SMTT(60)
  <2> QED BY <2>1, <2>2
<1>9. /\ m \in Nat /\ r \in Nat /\ m < s /\ r < a
      /\ k = q * s + m /\ v = (q * s + m) * a + r
  <2> HIDE DEF a, s
  <2> QED BY <1>1, <1>3, <1>4, <1>6, SMTT(30), SMTT(60)
<1> QED BY <1>6, <1>8, <1>9, Zenon, ZenonT(40) DEF k, m, Join, Parts

\* What a write of x to that field makes of the register.
Put(v, l, n, x) == ClearField(v, l, n) + x * 2^l

\* Writing x into a field of n bits at l changes the bits of the field and no other.
LEMMA FieldWritten ==
  ASSUME NEW v \in Nat, NEW l \in Nat, NEW n \in Nat, NEW x \in Nat, x < 2^n
  PROVE  /\ Put(v, l, n, x) \in Nat
         /\ \A b \in Nat : Bit(Put(v, l, n, x), b) =
                              IF b >= l /\ b < l + n THEN Bit(x, b - l) ELSE Bit(v, b)
<1> DEFINE w == Put(v, l, n, x)
<1>0. PICK q \in Nat, m \in Nat, r \in Nat : Parts(v, l, n, q, m, r)
  BY Fields, Zenon, ZenonT(40)
<1>1. /\ m < 2^n /\ r < 2^l
      /\ v = Join(Join(q, n, m), l, r) /\ w = Join(Join(q, n, x), l, r)
  BY <1>0, Zenon, ZenonT(40) DEF Parts, Put
<1>2. 2^n \in Nat \ {0} /\ 2^l \in Nat \ {0}
  BY PowerValues, Zenon, ZenonT(40)
<1> DEFINE kv == Join(q, n, m)
           kw == Join(q, n, x)
<1>3. kv \in Nat /\ kw \in Nat
  BY <1>2 DEF Join
<1> HIDE DEF w
<1>4. ASSUME NEW k \in Nat PROVE Join(k, l, r) \in Nat
  BY <1>2 DEF Join
<1>5. w \in Nat
  BY <1>1, <1>3, <1>4, Zenon, ZenonT(40)
<1>6. ASSUME NEW b \in Nat PROVE Bit(w, b) = IF b >= l /\ b < l + n THEN Bit(x, b - l) ELSE Bit(v, b)
  <2> HIDE DEF kv, kw
  <2>0. w = Join(kw, l, r) /\ v = Join(kv, l, r)
    BY <1>1 DEF kv, kw
  <2>1. CASE b < l
    <3>1. Bit(Join(kw, l, r), b) = Bit(r, b) /\ Bit(Join(kv, l, r), b) = Bit(r, b)
      BY <1>3, <2>1, LowBit
    <3>2. ~(b >= l /\ b < l + n)
      BY <2>1
    <3> QED BY <2>0, <3>1, <3>2, Zenon, ZenonT(40)
  <2>2. CASE b >= l
    <3> DEFINE c == b - l
    <3>1. c \in Nat /\ l + c = b /\ (b >= l /\ b < l + n <=> c < n)
      BY <2>2
    <3> HIDE DEF c
    <3>a. r < 2^l
      BY <1>1
    <3>b. c \in Nat
      BY <3>1
    <3>2. Bit(Join(kw, l, r), l + c) = Bit(kw, c) /\ Bit(Join(kv, l, r), l + c) = Bit(kv, c)
      BY <1>3, <3>a, <3>b, HighBit
    <3>3. CASE c < n
      <4>1. Bit(Join(q, n, x), c) = Bit(x, c)
        BY <3>b, <3>3, LowBit
      <4> QED BY <2>0, <3>1, <3>2, <3>3, <4>1, Zenon, ZenonT(40) DEF kw, c
    <3>4. CASE ~(c < n)
      <4> DEFINE e == c - n
      <4>1. e \in Nat /\ n + e = c
        BY <3>b, <3>4
      <4> HIDE DEF e
      <4>2. e \in Nat /\ m < 2^n
        BY <1>1, <4>1
      <4>3. Bit(Join(q, n, x), n + e) = Bit(q, e) /\ Bit(Join(q, n, m), n + e) = Bit(q, e)
        BY <4>2, HighBit
      <4>4. Bit(kw, c) = Bit(kv, c)
        BY <4>1, <4>3, Zenon, ZenonT(40) DEF kw, kv
      <4> QED BY <2>0, <3>1, <3>2, <3>4, <4>4, Zenon, ZenonT(40)
    <3> QED BY <3>3, <3>4
  <2> QED BY <2>1, <2>2
<1> QED BY <1>5, <1>6 DEF w

\* A register stays within its width when a field inside it is written.
LEMMA FieldInWidth ==
  ASSUME NEW v \in Nat, NEW l \in Nat, NEW n \in Nat, NEW x \in Nat, x < 2^n,
         l + n <= W, v < 2^W
  PROVE  Put(v, l, n, x) < 2^W
<1> DEFINE w == Put(v, l, n, x)
           d == W - (l + n)
           a == 2^l
           s == 2^n
           t == 2^d
<1>1. PICK q \in Nat, m \in Nat, r \in Nat : Parts(v, l, n, q, m, r)
  BY Fields, Zenon, ZenonT(40)
<1>2. /\ m < s /\ r < a
      /\ v = (q * s + m) * a + r /\ w = (q * s + x) * a + r
  BY <1>1, Zenon, ZenonT(40) DEF Parts, Join, Put
<1>3. d \in Nat /\ l + n \in Nat /\ W = (l + n) + d
  BY RegAssumption
<1>4. a \in Nat \ {0} /\ s \in Nat \ {0} /\ t \in Nat \ {0} /\ 2^(l + n) = a * s
  BY <1>3, PowerValues, PowerSum, Zenon, ZenonT(40)
<1>5. 2^((l + n) + d) = 2^(l + n) * t
  BY <1>3, PowerSum, Zenon, ZenonT(40)
<1>6. 2^W = (a * s) * t
  BY <1>3, <1>4, <1>5, Zenon, ZenonT(40)
<1>7. x < s /\ v < (a * s) * t
  BY <1>6
<1> HIDE DEF a, s, t, w
<1> DEFINE z == a * s
<1>8. z \in Nat \ {0} /\ v = q * z + (m * a + r) /\ w = q * z + (x * a + r)
  BY <1>2, <1>4, SMTT(30), SMTT(60)
<1>9. m * a \in Nat /\ x * a <= (s - 1) * a /\ (s - 1) * a = z - a /\ x * a \in Nat
  BY <1>4, <1>7, SMTT(30), SMTT(60)
<1>10. v < z * t
  BY <1>7
<1> HIDE DEF z
<1>11. q * z \in Nat /\ q * z < z * t
  <2>1. q * z \in Nat /\ z * t \in Nat
    BY <1>4, <1>8, SMTT(30), SMTT(60)
  <2> QED BY <1>8, <1>9, <1>10, <2>1
<1>12. q + 1 <= t
  <2> SUFFICES ASSUME q >= t PROVE FALSE
    BY <1>4
  <2>1. q * z >= z * t
    BY <1>4, <1>8, SMTT(30), SMTT(60)
  <2> QED BY <1>4, <1>8, <1>11, <2>1, SMTT(30), SMTT(60)
<1>13. q * z + z <= z * t
  BY <1>4, <1>8, <1>12, SMTT(30), SMTT(60)
<1>14. w < q * z + z
  BY <1>2, <1>4, <1>8, <1>9, <1>11, SMTT(30), SMTT(60)
<1>15. w < z * t
  <2>1. z * t \in Nat /\ w \in Nat
    BY <1>4, <1>8, <1>9, <1>11, SMTT(30), SMTT(60)
  <2> QED BY <1>8, <1>11, <1>13, <1>14, <2>1, SMTT(30), SMTT(60)
<1> QED BY <1>6, <1>15 DEF w, z

\* A bit is 0 or 1.
LEMMA BitValue ==
  ASSUME NEW v \in Nat, NEW b \in Nat
  PROVE  Bit(v, b) \in {0, 1}
<1> DEFINE n == 2^b
           q == v \div n
<1>1. n \in Nat \ {0} /\ v \in Int
  BY PowerValues
<1>2. q \in Int
  BY <1>1, Division, Zenon, ZenonT(40)
<1> HIDE DEF q
<1>3. q % 2 \in {0, 1}
  BY <1>2
<1> QED BY <1>3 DEF Bit, q, n

\* The bits of a field that was shifted down, masked or not.
LEMMA FieldShown ==
  ASSUME NEW v \in Nat, NEW l \in Nat, NEW n \in Nat, NEW c \in Nat
  PROVE  /\ Bit(v \div 2^l, c) = Bit(v, l + c)
         /\ Bit((v \div 2^l) % 2^n, c) = IF c < n THEN Bit(v, l + c) ELSE 0
<1>1. PICK q \in Nat, m \in Nat, r \in Nat : Parts(v, l, n, q, m, r)
  BY Fields, Zenon, ZenonT(40)
<1> DEFINE k == Join(q, n, m)
<1>2. /\ m < 2^n /\ r < 2^l /\ v = Join(k, l, r) /\ v \div 2^l = k /\ (v \div 2^l) % 2^n = m
  BY <1>1, Zenon, ZenonT(40) DEF Parts
<1>3. k \in Nat
  BY PowerValues DEF Join
<1>4. Bit(Join(k, l, r), l + c) = Bit(k, c)
  <2> HIDE DEF k
  <2> QED BY <1>2, <1>3, HighBit
<1>5. CASE c < n
  <2>1. Bit(k, c) = Bit(m, c)
    BY <1>5, LowBit
  <2> QED BY <1>2, <1>4, <1>5, <2>1, Zenon, ZenonT(40)
<1>6. CASE ~(c < n)
  <2>1. c >= n
    BY <1>6
  <2>2. Bit(m, c) = 0
    BY <1>2, <2>1, NoBit
  <2> QED BY <1>2, <1>4, <1>6, <2>2, Zenon, ZenonT(40)
<1> QED BY <1>5, <1>6

Valid == {off \in Offsets : ~port_reg_off_is_invalid(off)}

\* Every register is within its width and has the bits written last.
RegInv ==
  /\ regs \in [Valid -> 0 .. 2^W - 1]
  /\ bits = [off \in Valid |-> Ones(regs[off])]

\* The bits of a value, by Bit.
LEMMA OnesBits ==
  ASSUME NEW v
  PROVE  Ones(v) = {b \in 0 .. W - 1 : Bit(v, b) = 1}
BY DEF Ones, Bit

\* A write of a value with the bits recorded for it.
LEMMA Written ==
  ASSUME RegInv, NEW off \in Valid, NEW v \in Nat, v < 2^W, NEW B, B = Ones(v), WriteReg(off, v, B)
  PROVE  RegInv'
<1>1. v \in 0 .. 2^W - 1
  BY RegAssumption, PowerValues
<1>2. regs' \in [Valid -> 0 .. 2^W - 1]
  BY <1>1, Zenon, ZenonT(40) DEF RegInv, WriteReg
<1>3. bits' = [o \in Valid |-> Ones(regs'[o])]
  <2>1. regs' = [regs EXCEPT ![off] = v] /\ bits' = [bits EXCEPT ![off] = Ones(v)]
    BY Zenon, ZenonT(40) DEF WriteReg
  <2>2. DOMAIN regs = Valid /\ DOMAIN bits = Valid /\ \A o \in Valid : bits[o] = Ones(regs[o])
    BY Zenon, ZenonT(40) DEF RegInv
  <2>3. \A o \in Valid : bits'[o] = Ones(regs'[o])
    BY <2>1, <2>2, Zenon, ZenonT(40)
  <2>4. bits' = [o \in Valid |-> bits'[o]]
    BY <2>1, <2>2, Zenon, ZenonT(40)
  <2> QED BY <2>3, <2>4, Zenon, ZenonT(40)
<1>4. Valid' = Valid /\ \A o : Ones(regs[o])' = Ones(regs'[o])
  BY DEF Valid, Ones, Offsets, port_reg_off_is_invalid
<1> QED BY <1>2, <1>3, <1>4 DEF RegInv

\* The bits after a field of n bits at l was written.
LEMMA FieldOnes ==
  ASSUME NEW v \in Nat, NEW l \in Nat, NEW n \in Nat, NEW x \in Nat, x < 2^n, l + n <= W
  PROVE  Ones(Put(v, l, n, x)) = (Ones(v) \ (l .. l + n - 1)) \union {l + b : b \in Ones(x)}
<1> DEFINE w == Put(v, l, n, x)
<1>1. \A b \in Nat : Bit(w, b) = IF b >= l /\ b < l + n THEN Bit(x, b - l) ELSE Bit(v, b)
  BY FieldWritten
<1>2. \A c \in Nat : c >= n => Bit(x, c) = 0
  BY NoBit
<1> HIDE DEF w
<1>3. ASSUME NEW b \in 0 .. W - 1, Bit(w, b) = 1
      PROVE  b \in (Ones(v) \ (l .. l + n - 1)) \union {l + c : c \in Ones(x)}
  <2>1. b \in Nat
    OBVIOUS
  <2>2. CASE b >= l /\ b < l + n
    <3>1. b - l \in 0 .. W - 1 /\ b = l + (b - l) /\ Bit(x, b - l) = 1
      BY <1>1, <1>3, <2>1, <2>2, RegAssumption, SMTT(30), SMTT(60)
    <3> QED BY <3>1, OnesBits
  <2>3. CASE ~(b >= l /\ b < l + n)
    <3>1. Bit(v, b) = 1 /\ b \notin l .. l + n - 1
      BY <1>1, <1>3, <2>1, <2>3
    <3> QED BY <3>1, OnesBits
  <2> QED BY <2>2, <2>3
<1>4. ASSUME NEW b \in Ones(v), b \notin l .. l + n - 1
      PROVE  b \in 0 .. W - 1 /\ Bit(w, b) = 1
  <2>1. b \in 0 .. W - 1 /\ Bit(v, b) = 1
    BY OnesBits
  <2>2. b \in Nat /\ ~(b >= l /\ b < l + n)
    BY <1>4, <2>1, RegAssumption
  <2> QED BY <1>1, <2>1, <2>2, Zenon, ZenonT(40)
<1>5. ASSUME NEW c \in Ones(x)
      PROVE  l + c \in 0 .. W - 1 /\ Bit(w, l + c) = 1
  <2>1. c \in 0 .. W - 1 /\ Bit(x, c) = 1 /\ c \in Nat
    BY OnesBits
  <2>2. c < n
    BY <1>2, <2>1
  <2>3. l + c \in Nat /\ l + c >= l /\ l + c < l + n /\ (l + c) - l = c /\ l + c \in 0 .. W - 1
    BY <2>1, <2>2, RegAssumption
  <2> QED BY <1>1, <2>1, <2>3, Zenon, ZenonT(40)
<1>6. Ones(w) = {b \in 0 .. W - 1 : Bit(w, b) = 1}
  BY OnesBits
<1>7. Ones(w) = (Ones(v) \ (l .. l + n - 1)) \union {l + b : b \in Ones(x)}
  BY <1>3, <1>4, <1>5, <1>6, Zenon, ZenonT(40)
<1> QED BY <1>7 DEF w

\* A write command keeps the registers and the bits typed in step.
LEMMA RegStep == ASSUME RegInv, [RegNext]_regvars PROVE RegInv'
<1>0. W \in Nat \ {0} /\ PciLen \in Nat /\ 2^W \in Nat \ {0}
  BY RegAssumption, PowerValues
<1>1. CASE cmd_write_reg
  <2>1. PICK off \in Offsets, v \in 0 .. 2^W - 1 : port_reg_set(off, v)
    BY <1>1, Zenon, ZenonT(40) DEF cmd_write_reg
  <2>2. off \in Valid /\ WriteReg(off, v, Ones(v))
    BY <2>1, Zenon, ZenonT(40) DEF port_reg_set, Valid
  <2>3. v \in Nat /\ v < 2^W
    BY <1>0
  <2> QED BY <2>2, <2>3, Written, Zenon, ZenonT(40)
<1>2. CASE cmd_write_reg_bit
  <2>1. PICK off \in Offsets, b \in Positions, x \in 0 .. 2 : port_reg_bit_set(off, b, x)
    BY <1>2, Zenon, ZenonT(40) DEF cmd_write_reg_bit
  <2> DEFINE v == regs[off]
             w == Put(v, b, 1, x)
  <2>2. off \in Valid /\ WriteReg(off, w, Flip(bits[off], b, x = 1))
    BY <2>1, Zenon, ZenonT(40) DEF port_reg_bit_set, Valid, Put
  <2>3. b \in Nat /\ b + 1 <= W /\ x \in {0, 1} /\ x \in Nat /\ x < 2 /\ b + 1 - 1 = b /\ 1 \in Nat
    BY <1>0, <2>1, SMTT(30), SMTT(60) DEF port_reg_bit_set, Positions, reg_bit_pos_is_invalid
  <2>4. v \in Nat /\ v < 2^W /\ bits[off] = Ones(v)
    <3>1. v \in 0 .. 2^W - 1 /\ bits[off] = Ones(v)
      BY <2>2, Zenon, ZenonT(40) DEF RegInv
    <3> QED BY <1>0, <3>1
  <2>5. x < 2^1
    BY <2>3, PowerValues
  <2> HIDE DEF v
  <2>6. Ones(w) = (Ones(v) \ (b .. b + 1 - 1)) \union {b + c : c \in Ones(x)}
    <3> DEFINE n == 1
    <3>1. n \in Nat /\ b + n <= W /\ x < 2^n
      BY <2>3, <2>5, SMTT(30), SMTT(60)
    <3> HIDE DEF n
    <3>2. Ones(Put(v, b, n, x)) = (Ones(v) \ (b .. b + n - 1)) \union {b + c : c \in Ones(x)}
      BY <2>3, <2>4, <3>1, FieldOnes, SMTT(30), SMTT(60)
    <3> QED BY <3>2, Zenon, ZenonT(40) DEF n
  <2>7. b .. b + 1 - 1 = {b}
    BY <2>3
  <2>8. {b + c : c \in Ones(x)} = IF x = 1 THEN {b} ELSE {}
    <3>1. \A c \in Nat : c >= 1 => Bit(x, c) = 0
      BY <2>3, <2>5, NoBit, Zenon, ZenonT(40)
    <3>2. Bit(x, 0) = x
      BY <2>3, PowerValues DEF Bit
    <3>3. Ones(x) = IF x = 1 THEN {0} ELSE {}
      BY <1>0, <2>3, <3>1, <3>2, OnesBits
    <3> QED BY <2>3, <3>3
  <2>9. Flip(bits[off], b, x = 1) = Ones(w)
    BY <2>4, <2>6, <2>7, <2>8, Zenon, ZenonT(40) DEF Flip
  <2>10. w < 2^W
    BY <2>3, <2>4, <2>5, FieldInWidth, Zenon, ZenonT(40)
  <2>11. w \in Nat
    BY <2>3, <2>4, <2>5, FieldWritten, Zenon, ZenonT(40)
  <2> HIDE DEF w
  <2> QED BY <2>2, <2>9, <2>10, <2>11, Written, Zenon, ZenonT(40)
<1>3. CASE cmd_write_reg_bit_field
  <2>1. PICK off \in Offsets, b1 \in Positions, b2 \in Positions, x \in 0 .. 2^W - 1 :
          port_reg_bit_field_set(off, b1, b2, x)
    BY <1>3, Zenon, ZenonT(40) DEF cmd_write_reg_bit_field
  <2> DEFINE v == regs[off]
             l == Low(b1, b2)
             n == High(b1, b2) - l + 1
             w == Put(v, l, n, x)
             B == (bits[off] \ (l .. l + n - 1)) \union {l + b : b \in Ones(x)}
  <2>2. off \in Valid /\ WriteReg(off, w, B) /\ x <= 2^n - 1
        /\ ~reg_bit_pos_is_invalid(b1) /\ ~reg_bit_pos_is_invalid(b2)
    BY <2>1, Zenon, ZenonT(40) DEF port_reg_bit_field_set, Valid, Put
  <2>3. l \in Nat /\ n \in Nat /\ l + n <= W
    BY <1>0, <2>2 DEF Positions, reg_bit_pos_is_invalid, Low, High
  <2>4. v \in Nat /\ v < 2^W /\ bits[off] = Ones(v)
    <3>1. v \in 0 .. 2^W - 1 /\ bits[off] = Ones(v)
      BY <2>2, Zenon, ZenonT(40) DEF RegInv
    <3> QED BY <1>0, <3>1
  <2> HIDE DEF l, n, v
  <2>5. x \in Nat /\ x < 2^n
    BY <1>0, <2>2, <2>3, PowerValues
  <2>6. Ones(w) = B
    <3>1. Ones(w) = (Ones(v) \ (l .. l + n - 1)) \union {l + b : b \in Ones(x)}
      BY <2>3, <2>4, <2>5, FieldOnes
    <3> QED BY <2>4, <3>1, Zenon, ZenonT(40)
  <2>7. w < 2^W
    BY <2>3, <2>4, <2>5, FieldInWidth, Zenon, ZenonT(40)
  <2>8. w \in Nat
    BY <2>3, <2>4, <2>5, FieldWritten, Zenon, ZenonT(40)
  <2> HIDE DEF w, B
  <2> QED BY <2>2, <2>6, <2>7, <2>8, Written, Zenon, ZenonT(40)
<1>4. CASE UNCHANGED regvars
  BY <1>4 DEF regvars, RegInv, Valid, Ones, Offsets, port_reg_off_is_invalid
<1> QED BY <1>1, <1>2, <1>3, <1>4 DEF RegNext

\* The field of v from l to h, shifted down.
Slice(v, l, h) == IF h < W - 1 THEN (v \div 2^l) % 2^(h - l + 1) ELSE v \div 2^l

\* What "read regfield" shows are the bits between the two positions.
LEMMA FieldDisplayed ==
  ASSUME NEW v \in Nat, v < 2^W, NEW l \in 0 .. W - 1, NEW h \in 0 .. W - 1, l <= h
  PROVE  Ones(Slice(v, l, h)) = {b - l : b \in Ones(v) \intersect (l .. h)}
<1> DEFINE n == h - l + 1
           y == IF h < W - 1 THEN (v \div 2^l) % 2^n ELSE v \div 2^l
<1>1. W \in Nat \ {0} /\ l \in Nat /\ n \in Nat /\ l + n = h + 1 /\ h \in Nat
  BY RegAssumption
<1>2. \A c \in Nat : /\ Bit(v \div 2^l, c) = Bit(v, l + c)
                     /\ Bit((v \div 2^l) % 2^n, c) = IF c < n THEN Bit(v, l + c) ELSE 0
  <2> HIDE DEF n
  <2> QED BY <1>1, FieldShown, SMTT(30), SMTT(60)
<1>3. \A c \in Nat : l + c >= W => Bit(v, l + c) = 0
  BY <1>1, NoBit, SMTT(30), SMTT(60)
<1>4. ASSUME NEW c \in 0 .. W - 1 PROVE Bit(y, c) = 1 <=> c < n /\ Bit(v, l + c) = 1
  <2>1. c \in Nat
    OBVIOUS
  <2>2. CASE h < W - 1
    BY <1>2, <2>1, <2>2, SMTT(30), SMTT(60)
  <2>3. CASE ~(h < W - 1)
    <3>1. Bit(y, c) = Bit(v, l + c)
      BY <1>2, <2>1, <2>3, Zenon, ZenonT(40)
    <3>2. ~(c < n) => Bit(v, l + c) = 0
      BY <1>1, <1>3, <2>1, <2>3, SMTT(30), SMTT(60)
    <3> QED BY <3>1, <3>2
  <2> QED BY <2>2, <2>3
<1> HIDE DEF y
<1>5. Ones(y) = {c \in 0 .. W - 1 : Bit(y, c) = 1} /\ Ones(v) = {b \in 0 .. W - 1 : Bit(v, b) = 1}
  BY OnesBits
<1>6. ASSUME NEW c \in Ones(y) PROVE c \in {b - l : b \in Ones(v) \intersect (l .. h)}
  <2>1. c \in 0 .. W - 1 /\ c < n /\ Bit(v, l + c) = 1
    BY <1>4, <1>5
  <2>2. l + c \in 0 .. W - 1 /\ l + c \in l .. h /\ (l + c) - l = c
    BY <1>1, <2>1, SMTT(30), SMTT(60)
  <2>3. l + c \in Ones(v) \intersect (l .. h)
    BY <1>5, <2>1, <2>2
  <2> QED BY <2>2, <2>3, Zenon, ZenonT(40)
<1>7. ASSUME NEW b \in Ones(v) \intersect (l .. h) PROVE b - l \in Ones(y)
  <2>1. b \in 0 .. W - 1 /\ Bit(v, b) = 1 /\ b \in l .. h
    BY <1>5
  <2>2. b - l \in 0 .. W - 1 /\ b - l < n /\ l + (b - l) = b
    BY <1>1, <2>1
  <2> QED BY <1>4, <1>5, <2>1, <2>2, Zenon, ZenonT(40)
<1>8. Ones(y) = {b - l : b \in Ones(v) \intersect (l .. h)}
  BY <1>6, <1>7, Zenon, ZenonT(40)
<1> QED BY <1>8 DEF y, n, Slice

\* After any sequence of register, field and bit writes (port_reg_set,
\* port_reg_bit_field_set, port_reg_bit_set) the read commands show the bits
\* written last, for registers of every width.
THEOREM RegistersShown == RegSpec => []RegisterBits
<1>1. RegInit => RegInv
  <2> SUFFICES ASSUME RegInit PROVE RegInv
    OBVIOUS
  <2>1. 2^W \in Nat \ {0} /\ W \in Nat \ {0}
    BY RegAssumption, PowerValues
  <2>2. 0 \in 0 .. 2^W - 1
    BY <2>1
  <2>3. Ones(0) = {}
    <3>1. ASSUME NEW b \in Nat PROVE Bit(0, b) = 0
      <4>1. 0 \in Nat /\ 0 < 2^0 /\ b >= 0
        BY PowerValues
      <4> QED BY <4>1, NoBit, Zenon, ZenonT(40)
    <3> QED BY <2>1, <3>1, OnesBits
  <2>4. regs = [off \in Valid |-> 0] /\ bits = [off \in Valid |-> {}]
    BY Zenon, ZenonT(40) DEF RegInit, Valid
  <2> QED BY <2>2, <2>3, <2>4, Zenon, ZenonT(40) DEF RegInv
<1>2. RegInv => RegisterBits
  <2> SUFFICES ASSUME RegInv, NEW off \in DOMAIN regs, NEW b1 \in 0 .. W - 1, NEW b2 \in 0 .. W - 1
               PROVE  /\ Ones(port_reg_display(regs[off])) = bits[off] /\ regs[off] \in 0 .. 2^W - 1
                      /\ port_reg_bit_display(regs[off], b1) = (IF b1 \in bits[off] THEN 1 ELSE 0)
                      /\ Ones(port_reg_bit_field_display(regs[off], b1, b2)) =
                           {b - Low(b1, b2) : b \in bits[off] \intersect (Low(b1, b2) .. High(b1, b2))}
    <3>1. 0 \in 0 .. W - 1
      BY RegAssumption
    <3> QED BY <3>1, Zenon, ZenonT(40) DEF RegisterBits
  <2> DEFINE v == regs[off]
             l == Low(b1, b2)
             h == High(b1, b2)
  <2>1. v \in 0 .. 2^W - 1 /\ bits[off] = Ones(v)
    BY Zenon, ZenonT(40) DEF RegInv
  <2>2. v \in Nat /\ v < 2^W /\ b1 \in Nat
    BY <2>1, RegAssumption, PowerValues, SMTT(30), SMTT(60)
  <2>3. port_reg_bit_display(v, b1) = (IF b1 \in bits[off] THEN 1 ELSE 0)
    <3>1. Bit(v, b1) \in {0, 1}
      BY <2>2, BitValue, Zenon, ZenonT(40)
    <3>2. b1 \in Ones(v) <=> Bit(v, b1) = 1
      BY OnesBits
    <3>3. port_reg_bit_display(v, b1) = Bit(v, b1)
      BY Zenon, ZenonT(40) DEF port_reg_bit_display, Bit
    <3> QED BY <2>1, <3>1, <3>2, <3>3
  <2>4. l \in 0 .. W - 1 /\ h \in 0 .. W - 1 /\ l <= h
    BY RegAssumption DEF Low, High
  <2>5. port_reg_bit_field_display(v, b1, b2) = Slice(v, l, h)
    BY Zenon, ZenonT(40) DEF port_reg_bit_field_display, Slice
  <2> HIDE DEF v, l, h
  <2>6. Ones(port_reg_bit_field_display(v, b1, b2)) = {b - l : b \in Ones(v) \intersect (l .. h)}
    BY <2>2, <2>4, <2>5, FieldDisplayed
  <2> QED BY <2>1, <2>3, <2>6, Zenon, ZenonT(40) DEF v, l, h, port_reg_display
<1> QED BY <1>1, <1>2, RegStep, PTL DEF RegSpec
============================================================================
