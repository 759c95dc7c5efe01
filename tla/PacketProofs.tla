--------------------------- MODULE PacketProofs ----------------------------
(***************************************************************************)
(* Proofs about what testpmd does to single packets: the tags a port       *)
(* inserts (TxOffload), the checksums the checksum engine renews (CsumOnly)*)
(* and the replies of the echo engine (IcmpEcho).                          *)
(***************************************************************************)
EXTENDS CsumOnly, IcmpEcho, TLAPS

-----------------------------------------------------------------------------
(* VLAN insertion *)

Insertions == {"INSERT_VLAN", "INSERT_QINQ"}

PortRecord ==
  [vlan : SUBSET {"extend", "strip", "filter"}, stripq : SUBSET Nat, vft : SUBSET Nat,
   tpid : [{"inner", "outer"} -> Nat], pvid : Nat,
   flags : SUBSET (Protos \union Insertions \union {"PARSE_TUNNEL"}),
   id : Nat, outer : Nat, tso : Nat]

\* What OneInsertion says of one port.
Inserts(r) ==
  /\ ~({"INSERT_VLAN", "INSERT_QINQ"} \subseteq r.flags)
  /\ r.id < NbVlans /\ r.outer < NbVlans
  /\ "INSERT_QINQ" \notin r.flags => r.outer = 0
  /\ Insertions \intersect r.flags = {} => r.id = 0

OffInv == off \in [Ports -> PortRecord] /\ \A p \in Ports : Inserts(off[p])

\* A command that writes one port keeps the invariant if what it writes does.
LEMMA OnePortWritten ==
  ASSUME OffInv, NEW p \in Ports, NEW r \in PortRecord, Inserts(r),
         off' = [off EXCEPT ![p] = r]
  PROVE  OffInv'
BY DEF OffInv

\* A command that leaves flags and identifiers alone keeps Inserts.
LEMMA InsertionKept ==
  ASSUME NEW r \in PortRecord, NEW s \in PortRecord, Inserts(r),
         s.flags = r.flags, s.id = r.id, s.outer = r.outer
  PROVE  Inserts(s)
BY DEF Inserts

\* Other flags may be switched at will.
LEMMA FlagSwitched ==
  ASSUME NEW r \in PortRecord, Inserts(r), NEW x \in Protos \union {"PARSE_TUNNEL"},
         NEW on \in BOOLEAN
  PROVE  LET s == [r EXCEPT !.flags = Flip(@, x, on)] IN s \in PortRecord /\ Inserts(s)
<1> DEFINE s == [r EXCEPT !.flags = Flip(@, x, on)]
<1>1. s.flags = Flip(r.flags, x, on) /\ s.id = r.id /\ s.outer = r.outer
  BY DEF PortRecord
<1>2. Flip(r.flags, x, on) \in SUBSET (Protos \union Insertions \union {"PARSE_TUNNEL"})
  BY DEF Flip, PortRecord
<1>3. x \notin Insertions
  BY ProtosAssumption DEF Insertions
<1>4. \A i \in Insertions : i \in s.flags <=> i \in r.flags
  BY <1>1, <1>3 DEF Flip
<1>5. s \in PortRecord
  BY <1>2 DEF PortRecord
<1>6. Inserts(s)
  BY <1>1, <1>4 DEF Inserts, Insertions
<1> QED
  BY <1>5, <1>6

\* After a reset nothing is inserted.
LEMMA NothingInserted ==
  ASSUME NEW r \in PortRecord
  PROVE  /\ VlanReset(r) \in PortRecord
         /\ VlanReset(r).flags = r.flags \ Insertions
         /\ VlanReset(r).id = 0 /\ VlanReset(r).outer = 0
BY Zenon, ZenonT(40) DEF VlanReset, PortRecord, Insertions

\* Every VLAN and checksum command keeps the invariant.
LEMMA OffInvInductive ==
  /\ OffloadInit => OffInv
  /\ OffInv /\ [OffloadNext]_off => OffInv'
<1>1. OffloadInit => OffInv
  BY BaseAssumption DEF OffloadInit, OffInv, PortRecord, Inserts
<1>2. OffInv /\ [OffloadNext]_off => OffInv'
  <2> SUFFICES ASSUME OffInv, [OffloadNext]_off PROVE OffInv'
    OBVIOUS
  <2>1. CASE cmd_vlan_offload
    <3>1. PICK p \in Ports, on \in BOOLEAN :
            \/ \E w \in {"extend", "strip", "filter"} : VlanOffload(p, w, on)
            \/ \E q \in TypedQueues : rx_vlan_strip_set_on_queue(p, q, on)
      BY <2>1 DEF cmd_vlan_offload, vlan_extend_set, rx_vlan_strip_set, rx_vlan_filter_set
    <3>2. off[p] \in PortRecord /\ Inserts(off[p])
      BY DEF OffInv
    <3>3. ASSUME NEW w \in {"extend", "strip", "filter"}, VlanOffload(p, w, on) PROVE OffInv'
      <4> DEFINE r == [off[p] EXCEPT !.vlan = Flip(@, w, on)]
      <4>1. r \in PortRecord /\ r.flags = off[p].flags /\ r.id = off[p].id
            /\ r.outer = off[p].outer
        BY <3>2 DEF PortRecord, Flip
      <4>2. off' = [off EXCEPT ![p] = r]
        BY <3>3 DEF VlanOffload
      <4> HIDE DEF r
      <4>3. Inserts(r)
        BY <3>2, <4>1, InsertionKept
      <4> QED
        BY <4>1, <4>2, <4>3, OnePortWritten, Zenon, ZenonT(40)
    <3>4. ASSUME NEW q \in TypedQueues, rx_vlan_strip_set_on_queue(p, q, on) PROVE OffInv'
      <4> DEFINE r == [off[p] EXCEPT !.stripq = Flip(@, q, on)]
      <4>1. r \in PortRecord /\ r.flags = off[p].flags /\ r.id = off[p].id
            /\ r.outer = off[p].outer
        BY <3>2, BaseAssumption DEF PortRecord, Flip, TypedQueues
      <4>2. off' = [off EXCEPT ![p] = r]
        BY <3>4 DEF rx_vlan_strip_set_on_queue
      <4> HIDE DEF r
      <4>3. Inserts(r)
        BY <3>2, <4>1, InsertionKept
      <4> QED
        BY <4>1, <4>2, <4>3, OnePortWritten, Zenon, ZenonT(40)
    <3> QED
      BY <3>1, <3>3, <3>4
  <2>2. CASE cmd_rx_vlan_filter
    <3>1. PICK p \in Ports, v \in TypedVlans, on \in BOOLEAN :
            off' = [off EXCEPT ![p].vft = Flip(@, v, on)]
      BY <2>2, Zenon, ZenonT(40) DEF cmd_rx_vlan_filter, rx_vft_set
    <3> DEFINE r == [off[p] EXCEPT !.vft = Flip(@, v, on)]
    <3>2. off[p] \in PortRecord /\ Inserts(off[p])
      BY DEF OffInv
    <3>3. r \in PortRecord /\ r.flags = off[p].flags /\ r.id = off[p].id
          /\ r.outer = off[p].outer
      BY <3>2, BaseAssumption DEF PortRecord, TypedVlans, TypedQueues, Flip
    <3>4. off' = [off EXCEPT ![p] = r]
      BY <3>1
    <3> HIDE DEF r
    <3>5. Inserts(r)
      BY <3>2, <3>3, InsertionKept
    <3> QED
      BY <3>3, <3>4, <3>5, OnePortWritten, Zenon, ZenonT(40)
  <2>3. CASE cmd_rx_vlan_filter_all
    <3>1. PICK p \in Ports, on \in BOOLEAN, k \in 0 .. NbVlans : 
            off' = [off EXCEPT ![p].vft = IF on THEN @ \union (0 .. k - 1) ELSE @ \ (0 .. k - 1)]
      BY <2>3, Zenon, ZenonT(40) DEF cmd_rx_vlan_filter_all, rx_vlan_all_filter_set
    <3> DEFINE r == [off[p] EXCEPT !.vft = IF on THEN @ \union (0 .. k - 1) ELSE @ \ (0 .. k - 1)]
    <3>2. off[p] \in PortRecord /\ Inserts(off[p])
      BY DEF OffInv
    <3>3. r \in PortRecord /\ r.flags = off[p].flags /\ r.id = off[p].id
          /\ r.outer = off[p].outer
      BY <3>2, BaseAssumption DEF PortRecord, TypedVlans, TypedQueues, Flip
    <3>4. off' = [off EXCEPT ![p] = r]
      BY <3>1
    <3> HIDE DEF r
    <3>5. Inserts(r)
      BY <3>2, <3>3, InsertionKept
    <3> QED
      BY <3>3, <3>4, <3>5, OnePortWritten, Zenon, ZenonT(40)
  <2>4. CASE cmd_vlan_tpid
    <3>1. PICK p \in Ports, type \in {"inner", "outer"}, tp \in {0, 1} : 
            off' = [off EXCEPT ![p].tpid[type] = tp]
      BY <2>4, Zenon, ZenonT(40) DEF cmd_vlan_tpid, vlan_tpid_set
    <3> DEFINE r == [off[p] EXCEPT !.tpid[type] = tp]
    <3>2. off[p] \in PortRecord /\ Inserts(off[p])
      BY DEF OffInv
    <3>3. r \in PortRecord /\ r.flags = off[p].flags /\ r.id = off[p].id
          /\ r.outer = off[p].outer
      BY <3>2, BaseAssumption DEF PortRecord, TypedVlans, TypedQueues, Flip
    <3>4. off' = [off EXCEPT ![p] = r]
      BY <3>1
    <3> HIDE DEF r
    <3>5. Inserts(r)
      BY <3>2, <3>3, InsertionKept
    <3> QED
      BY <3>3, <3>4, <3>5, OnePortWritten, Zenon, ZenonT(40)
  <2>5. CASE cmd_tx_vlan_set_pvid
    <3>1. PICK p \in Ports, v \in TypedVlans, on \in BOOLEAN : 
            off' = [off EXCEPT ![p].pvid = IF on THEN v ELSE NbVlans]
      BY <2>5, Zenon, ZenonT(40) DEF cmd_tx_vlan_set_pvid, tx_vlan_pvid_set
    <3> DEFINE r == [off[p] EXCEPT !.pvid = IF on THEN v ELSE NbVlans]
    <3>2. off[p] \in PortRecord /\ Inserts(off[p])
      BY DEF OffInv
    <3>3. r \in PortRecord /\ r.flags = off[p].flags /\ r.id = off[p].id
          /\ r.outer = off[p].outer
      BY <3>2, BaseAssumption DEF PortRecord, TypedVlans, TypedQueues, Flip
    <3>4. off' = [off EXCEPT ![p] = r]
      BY <3>1
    <3> HIDE DEF r
    <3>5. Inserts(r)
      BY <3>2, <3>3, InsertionKept
    <3> QED
      BY <3>3, <3>4, <3>5, OnePortWritten, Zenon, ZenonT(40)
  <2>6. CASE cmd_tso_set
    <3>1. PICK p \in FewPorts, n \in {0, 1} : off' = [off EXCEPT ![p].tso = n]
      BY <2>6, Zenon, ZenonT(40) DEF cmd_tso_set
    <3> DEFINE r == [off[p] EXCEPT !.tso = n]
    <3>2. p \in Ports /\ off[p] \in PortRecord /\ Inserts(off[p])
      BY BaseAssumption DEF OffInv
    <3>3. r \in PortRecord /\ r.flags = off[p].flags /\ r.id = off[p].id
          /\ r.outer = off[p].outer
      BY <3>2, BaseAssumption DEF PortRecord, TypedVlans, TypedQueues, Flip
    <3>4. off' = [off EXCEPT ![p] = r]
      BY <3>1
    <3> HIDE DEF r
    <3>5. Inserts(r)
      BY <3>2, <3>3, InsertionKept
    <3> QED
      BY <3>2, <3>3, <3>4, <3>5, OnePortWritten, Zenon, ZenonT(40)
  <2>7. CASE cmd_csum
    <3>1. PICK p \in FewPorts, proto \in Protos, hw \in BOOLEAN :
            off' = [off EXCEPT ![p].flags = Flip(@, proto, hw)]
      BY <2>7, Zenon, ZenonT(40) DEF cmd_csum
    <3> DEFINE r == [off[p] EXCEPT !.flags = Flip(@, proto, hw)]
    <3>2. p \in Ports /\ off[p] \in PortRecord /\ Inserts(off[p])
      BY BaseAssumption DEF OffInv
    <3>3. r \in PortRecord /\ Inserts(r)
      BY <3>2, FlagSwitched
    <3>4. off' = [off EXCEPT ![p] = r]
      BY <3>1
    <3> HIDE DEF r
    <3> QED
      BY <3>2, <3>3, <3>4, OnePortWritten, Zenon, ZenonT(40)
  <2>8. CASE cmd_csum_tunnel
    <3>1. PICK p \in FewPorts, on \in BOOLEAN :
            off' = [off EXCEPT ![p].flags = Flip(@, "PARSE_TUNNEL", on)]
      BY <2>8, Zenon, ZenonT(40) DEF cmd_csum_tunnel
    <3> DEFINE r == [off[p] EXCEPT !.flags = Flip(@, "PARSE_TUNNEL", on)]
    <3>2. p \in Ports /\ off[p] \in PortRecord /\ Inserts(off[p])
      BY BaseAssumption DEF OffInv
    <3>3. r \in PortRecord /\ Inserts(r)
      BY <3>2, FlagSwitched
    <3>4. off' = [off EXCEPT ![p] = r]
      BY <3>1
    <3> HIDE DEF r
    <3> QED
      BY <3>2, <3>3, <3>4, OnePortWritten, Zenon, ZenonT(40)
  <2>9. CASE cmd_tx_vlan_reset
    <3>1. PICK p \in Ports : off' = [off EXCEPT ![p] = VlanReset(@)]
      BY <2>9, Zenon, ZenonT(40) DEF cmd_tx_vlan_reset, tx_vlan_reset
    <3> DEFINE r == VlanReset(off[p])
    <3>2. off[p] \in PortRecord
      BY DEF OffInv
    <3>3. r \in PortRecord /\ r.flags = off[p].flags \ Insertions /\ r.id = 0 /\ r.outer = 0
      BY <3>2, NothingInserted
    <3>4. off' = [off EXCEPT ![p] = r]
      BY <3>1
    <3> HIDE DEF r
    <3>5. Inserts(r)
      BY <3>3, BaseAssumption DEF Inserts, Insertions
    <3> QED
      BY <3>3, <3>4, <3>5, OnePortWritten, Zenon, ZenonT(40)
  <2>10. CASE cmd_tx_vlan_set
    <3>1. PICK p \in Ports, v \in TypedVlans : tx_vlan_set(p, v)
      BY <2>10 DEF cmd_tx_vlan_set
    <3> DEFINE e == VlanReset(off[p])
               r == [e EXCEPT !.flags = @ \union {"INSERT_VLAN"}, !.id = v]
    <3>2. v \in Nat /\ v < NbVlans
      BY <3>1, BaseAssumption DEF tx_vlan_set, vlan_id_is_invalid, TypedVlans
    <3>3. e \in PortRecord /\ e.flags = off[p].flags \ Insertions /\ e.id = 0 /\ e.outer = 0
      BY NothingInserted DEF OffInv
    <3>4. off' = [off EXCEPT ![p] = r]
      BY <3>1 DEF tx_vlan_set
    <3> HIDE DEF e
    <3>5. r \in PortRecord /\ r.flags = e.flags \union {"INSERT_VLAN"} /\ r.id = v /\ r.outer = 0
      BY <3>2, <3>3, Zenon, ZenonT(40) DEF PortRecord, Insertions
    <3> HIDE DEF r
    <3>6. Inserts(r)
      BY <3>2, <3>3, <3>5, BaseAssumption DEF Inserts, Insertions
    <3> QED
      BY <3>4, <3>5, <3>6, OnePortWritten, Zenon, ZenonT(40)
  <2>11. CASE cmd_tx_vlan_set_qinq
    <3>1. PICK p \in Ports, v \in TypedVlans, w \in TypedVlans : tx_qinq_set(p, v, w)
      BY <2>11 DEF cmd_tx_vlan_set_qinq
    <3> DEFINE e == VlanReset(off[p])
               r == [e EXCEPT !.flags = @ \union {"INSERT_QINQ"}, !.id = v, !.outer = w]
    <3>2. v \in Nat /\ v < NbVlans /\ w \in Nat /\ w < NbVlans
      BY <3>1, BaseAssumption DEF tx_qinq_set, vlan_id_is_invalid, TypedVlans
    <3>3. e \in PortRecord /\ e.flags = off[p].flags \ Insertions
      BY NothingInserted DEF OffInv
    <3>4. off' = [off EXCEPT ![p] = r]
      BY <3>1 DEF tx_qinq_set
    <3> HIDE DEF e
    <3>5. r \in PortRecord /\ r.flags = e.flags \union {"INSERT_QINQ"} /\ r.id = v /\ r.outer = w
      BY <3>2, <3>3, Zenon, ZenonT(40) DEF PortRecord, Insertions
    <3> HIDE DEF r
    <3>6. Inserts(r)
      BY <3>2, <3>3, <3>5, BaseAssumption DEF Inserts, Insertions
    <3> QED
      BY <3>4, <3>5, <3>6, OnePortWritten, Zenon, ZenonT(40)
  <2>12. CASE UNCHANGED off
    BY <2>12 DEF OffInv
  <2> QED
    BY <2>1, <2>2, <2>3, <2>4, <2>5, <2>6, <2>7, <2>8, <2>9, <2>10, <2>11, <2>12
    DEF OffloadNext, InsertNext
<1> QED
  BY <1>1, <1>2

\* The engines insert one tag or two, never both, with valid identifiers, after
\* any sequence of the VLAN and checksum commands (tx_vlan_set, tx_qinq_set,
\* tx_vlan_reset), for every number of ports and of identifiers.
THEOREM SingleInsertion == OffloadSpec => []OneInsertion
<1>1. OffInv => OneInsertion
  BY DEF OffInv, Inserts, Insertions, OneInsertion
<1> QED
  BY <1>1, OffInvInductive, PTL DEF OffloadSpec

-----------------------------------------------------------------------------
(* The checksum engine *)


\* A header as the generator of packets builds it.
HeaderOK(h) ==
  /\ h.vlan \in BOOLEAN /\ h.zero \in BOOLEAN /\ h.eth \in {"v4", "v6", "arp"}
  /\ h.proto \in {"none", "udp", "tcp", "sctp", "gre", "ipip"}
  /\ h.eth = "arp" => h.proto = "none"
  /\ h.zero => h.proto = "udp"

\* What the proofs use of a packet.
PacketOK(pkt) ==
  /\ HeaderOK(pkt.out) /\ HeaderOK(pkt.in)
  /\ pkt.tun \in {"none", "vxlan", "gre", "ipip"} /\ pkt.link \in {"eth", "ip"}
  /\ pkt.tun = "vxlan" => pkt.out.proto = "udp" /\ pkt.link = "eth"
  /\ pkt.tun = "gre" => pkt.out.proto = "gre"
  /\ pkt.tun = "ipip" => pkt.out.proto = "ipip" /\ pkt.link = "ip"
  /\ pkt.link = "ip" => pkt.in.eth # "arp"

Ethers == {"none", "v4", "v6", "arp"}
Layer4s == {"none", "udp", "tcp", "sctp", "gre", "ipip"}

Info == [ethertype : Ethers, l2_len : Int, l3_len : Int, l4_len : Int, l4_proto : Layer4s,
         is_tunnel : BOOLEAN, outer_ethertype : Ethers, outer_l2_len : Int, outer_l3_len : Int,
         outer_l4_proto : Layer4s, tso_segsz : Nat]

\* The fields that no parser of an inner header touches.
SameOuter(g, f) ==
  /\ g.is_tunnel = f.is_tunnel /\ g.tso_segsz = f.tso_segsz
  /\ g.outer_ethertype = f.outer_ethertype /\ g.outer_l2_len = f.outer_l2_len
  /\ g.outer_l3_len = f.outer_l3_len /\ g.outer_l4_proto = f.outer_l4_proto

\* The fields of a header made by Header.
LEMMA HeaderFields ==
  ASSUME NEW v, NEW e, NEW p, NEW z, NEW l
  PROVE  LET h == Header(v, e, p, z, l)
         IN h.vlan = v /\ h.eth = e /\ h.proto = p /\ h.zero = z /\ h.len = l
BY DEF Header

\* A header made of such fields is well formed.
LEMMA HeaderMade ==
  ASSUME NEW v \in BOOLEAN, NEW e \in {"v4", "v6", "arp"}, NEW z \in BOOLEAN, NEW l,
         NEW p \in {"none", "udp", "tcp", "sctp", "gre", "ipip"},
         e = "arp" => p = "none", z => p = "udp"
  PROVE  HeaderOK(Header(v, e, p, z, l))
<1> DEFINE h == Header(v, e, p, z, l)
<1>1. h.vlan = v /\ h.eth = e /\ h.proto = p /\ h.zero = z
  BY HeaderFields
<1> HIDE DEF h
<1>2. HeaderOK(h)
  BY <1>1, Zenon, ZenonT(40) DEF HeaderOK
<1> QED BY <1>2 DEF h

\* The headers of the packets are well formed.
LEMMA HeadersOK ==
  \A h \in Tcp \union Udp \union Sctp \union Carriers("gre") \union Carriers("ipip") \union {Arp} :
    HeaderOK(h)
<1>1. \A h \in Tcp : HeaderOK(h)
  BY HeaderMade, Zenon, ZenonT(40) DEF Tcp
<1>2. \A h \in Udp : HeaderOK(h)
  BY HeaderMade, Zenon, ZenonT(40) DEF Udp
<1>3. \A h \in Sctp : HeaderOK(h)
  BY HeaderMade, Zenon, ZenonT(40) DEF Sctp
<1>4. \A h \in Carriers("gre") \union Carriers("ipip") : HeaderOK(h)
  BY HeaderMade, Zenon, ZenonT(40) DEF Carriers
<1>5. HeaderOK(Arp)
  BY HeaderMade, Zenon, ZenonT(40) DEF Arp
<1> QED
  BY <1>1, <1>2, <1>3, <1>4, <1>5, Zenon, ZenonT(40)

\* So are the packets.
LEMMA PacketsOK == \A pkt \in Packets : PacketOK(pkt)
<1> SUFFICES ASSUME NEW pkt \in Packets PROVE PacketOK(pkt)
  OBVIOUS
<1>1. ASSUME NEW h \in Udp PROVE h.proto = "udp"
  BY DEF Udp, Header
<1>2. ASSUME NEW c, NEW h \in Carriers(c) PROVE h.proto = c
  BY DEF Carriers, Header
<1>3. ASSUME NEW h \in Ip PROVE h.eth # "arp"
  BY DEF Ip, Tcp, Udp, Header
<1>4. ASSUME NEW h \in Ip PROVE h \in Tcp \union Udp
  BY DEF Ip
<1>5. Arp \in {Arp}
  OBVIOUS
<1>6. CASE \E h \in Tcp \union Udp \union Sctp \union Carriers("gre") \union Carriers("ipip") \union {Arp} :
             pkt = Packet(h, "none", FALSE, "eth", Arp)
  BY <1>6, HeadersOK DEF Packet, PacketOK
<1>7. CASE \E h \in Udp, i \in Tcp \union Udp \union {Arp} : pkt = Packet(h, "vxlan", FALSE, "eth", i)
  BY <1>7, <1>1, HeadersOK DEF Packet, PacketOK
<1>8. CASE \E h \in Carriers("gre"), k \in BOOLEAN, l \in {"eth", "ip"}, i \in Ip :
             pkt = Packet(h, "gre", k, l, i)
  BY <1>8, <1>2, <1>3, <1>4, HeadersOK DEF Packet, PacketOK
<1>9. CASE \E h \in Carriers("ipip"), i \in Ip : pkt = Packet(h, "ipip", FALSE, "ip", i)
  BY <1>9, <1>2, <1>3, <1>4, HeadersOK DEF Packet, PacketOK
<1> DEFINE V(h, i) == Packet(h, "vxlan", FALSE, "eth", i)
           I(h, i) == Packet(h, "ipip", FALSE, "ip", i)
           P1 == {Packet(h, "none", FALSE, "eth", Arp) :
                    h \in Tcp \union Udp \union Sctp \union Carriers("gre") \union Carriers("ipip") \union {Arp}}
           P2 == {V(h, i) : h \in Udp, i \in Tcp \union Udp \union {Arp}}
           P3 == {Packet(h, "gre", k, l, i) :
                    h \in Carriers("gre"), k \in BOOLEAN, l \in {"eth", "ip"}, i \in Ip}
           P4 == {I(h, i) : h \in Carriers("ipip"), i \in Ip}
<1>10. Packets = P1 \union P2 \union P3 \union P4
  BY DEF Packets
<1>11. ASSUME NEW h, NEW i PROVE V(h, i) = Packet(h, "vxlan", FALSE, "eth", i) /\ I(h, i) = Packet(h, "ipip", FALSE, "ip", i)
  OBVIOUS
<1> HIDE DEF V, I
<1>12. CASE pkt \in P1
  BY <1>12, <1>6, Zenon, ZenonT(40)
<1>13. CASE pkt \in P2
  <2>1. PICK h \in Udp, i \in Tcp \union Udp \union {Arp} : pkt = V(h, i)
    BY <1>13
  <2> QED BY <2>1, <1>7, <1>11, Zenon, ZenonT(40)
<1>14. CASE pkt \in P3
  BY <1>14, <1>8, SMT
<1>15. CASE pkt \in P4
  <2>1. PICK h \in Carriers("ipip"), i \in Ip : pkt = I(h, i)
    BY <1>15
  <2> QED BY <2>1, <1>9, <1>11, Zenon, ZenonT(40)
<1> HIDE DEF P1, P2, P3, P4
<1> QED
  BY <1>10, <1>12, <1>13, <1>14, <1>15, Zenon, ZenonT(40)

\* parse_ethernet: every field but the outer ones is that of the header.
LEMMA ParsedEthernet ==
  ASSUME NEW f \in Info, NEW h, HeaderOK(h)
  PROVE  LET g == parse_ethernet(f, h)
         IN /\ g \in Info
            /\ g.ethertype = h.eth /\ g.l4_proto = h.proto
            /\ g.l2_len = IF h.vlan THEN 18 ELSE 14
            /\ h.eth # "arp" => g.l3_len = L3Len(h.eth)
            /\ SameOuter(g, f)
<1>0. /\ h.eth \in {"v4", "v6", "arp"} /\ (h.eth = "arp" => h.proto = "none")
      /\ h.proto \in {"none", "udp", "tcp", "sctp", "gre", "ipip"}
  BY Zenon, ZenonT(40) DEF HeaderOK
<1> DEFINE l2 == ETHER + (IF h.vlan THEN VLAN ELSE 0)
           l3 == L3Len(h.eth)
           l4 == TcpLen(h.proto)
           a == [f EXCEPT !.l2_len = l2, !.ethertype = h.eth]
<1>1. l2 \in Int /\ l2 = (IF h.vlan THEN 18 ELSE 14) /\ l3 \in Int /\ l4 \in Int
  BY DEF L3Len, TcpLen, ETHER, VLAN
<1>2. h.eth \in Ethers /\ h.proto \in Layer4s /\ "none" \in Layer4s
  BY <1>0 DEF Ethers, Layer4s
<1>4. parse_ethernet(f, h) = IF h.eth \in {"v4", "v6"} THEN [a EXCEPT !.l3_len = l3, !.l4_proto = h.proto, !.l4_len = l4]
                             ELSE [a EXCEPT !.l3_len = 0, !.l4_len = 0, !.l4_proto = "none"]
  BY DEF parse_ethernet, parse_ip
<1> HIDE DEF l2, l3, l4
<1>3. /\ a \in Info /\ a.ethertype = h.eth /\ a.l2_len = l2
      /\ SameOuter(a, f)
  BY <1>1, <1>2, Zenon, ZenonT(40) DEF Info, SameOuter
<1> HIDE DEF a
<1>5. CASE h.eth \in {"v4", "v6"}
  BY <1>1, <1>2, <1>3, <1>4, <1>5, ZenonT(40), ZenonT(60) DEF Info, SameOuter, l3
<1>6. CASE h.eth = "arp"
  <2>1. parse_ethernet(f, h) = [a EXCEPT !.l3_len = 0, !.l4_len = 0, !.l4_proto = "none"]
    BY <1>4, <1>6
  <2>2. h.proto = "none"
    BY <1>0, <1>6
  <2> DEFINE g == [a EXCEPT !.l3_len = 0, !.l4_len = 0, !.l4_proto = "none"]
  <2>3. g \in Info
    <3>1. a \in Info /\ 0 \in Int /\ "none" \in Layer4s
      BY <1>2, <1>3
    <3> QED
      BY <3>1, Zenon, ZenonT(40) DEF Info, Layer4s
  <2>4. /\ g.ethertype = a.ethertype /\ g.l4_proto = "none" /\ g.l2_len = a.l2_len
        /\ SameOuter(g, a)
    BY <1>3 DEF Info, SameOuter
  <2> HIDE DEF g
  <2> QED
    BY <1>1, <1>3, <1>6, <2>1, <2>2, <2>3, <2>4, ZenonT(40), ZenonT(60) DEF g, SameOuter
<1> QED
  BY <1>0, <1>5, <1>6

\* parse_encap_ip finds the inner header and keeps what was saved of the outer one.
LEMMA ParsedEncap ==
  ASSUME NEW f \in Info, NEW h, HeaderOK(h), h.eth # "arp"
  PROVE  LET g == EncapIp(f, h)
         IN /\ g \in Info
            /\ g.ethertype = h.eth /\ g.l4_proto = h.proto /\ g.l2_len = 0
            /\ g.l3_len = L3Len(h.eth) /\ SameOuter(g, f)
<1>0. h.eth \in Ethers /\ h.proto \in Layer4s
  <2>1. h.eth \in {"v4", "v6", "arp"} /\ h.proto \in {"none", "udp", "tcp", "sctp", "gre", "ipip"}
    BY Zenon, ZenonT(40) DEF HeaderOK
  <2> QED
    BY <2>1 DEF Ethers, Layer4s
<1> DEFINE l3 == L3Len(h.eth)
           l4 == TcpLen(h.proto)
           e == h.eth
           p == h.proto
           b == [f EXCEPT !.l3_len = l3, !.l4_proto = p, !.l4_len = l4]
           g == [b EXCEPT !.ethertype = e, !.l2_len = 0]
<1>1. l3 \in Int /\ l4 \in Int /\ e \in Ethers /\ p \in Layer4s /\ 0 \in Int
  BY <1>0 DEF L3Len, TcpLen
<1>2. EncapIp(f, h) = g
  BY DEF EncapIp, parse_ip
<1> HIDE DEF l3, l4, e, p
<1>3. b \in Info /\ b.l4_proto = p /\ b.l3_len = l3 /\ SameOuter(b, f)
  BY <1>1, Zenon, ZenonT(40) DEF Info, SameOuter
<1> HIDE DEF b
<1>4. g \in Info /\ g.ethertype = e /\ g.l4_proto = p /\ g.l2_len = 0 /\ g.l3_len = l3 /\ SameOuter(g, b)
  BY <1>1, <1>3, Zenon, ZenonT(40) DEF Info, SameOuter
<1> HIDE DEF g
<1> QED
  BY <1>2, <1>3, <1>4, Zenon, ZenonT(40) DEF l3, e, p, SameOuter

\* Saving the outer lengths changes no other field.
LEMMA Saved ==
  ASSUME NEW f \in Info
  PROVE  /\ LET g == SaveOuter(f)
            IN /\ g \in Info /\ g.is_tunnel = TRUE /\ g.tso_segsz = f.tso_segsz
               /\ g.outer_ethertype = f.ethertype /\ g.outer_l2_len = f.l2_len /\ g.outer_l3_len = f.l3_len
         /\ LET g == SaveOuterL4(f)
            IN /\ g \in Info /\ g.is_tunnel = TRUE /\ g.tso_segsz = f.tso_segsz
               /\ g.outer_ethertype = f.ethertype /\ g.outer_l2_len = f.l2_len /\ g.outer_l3_len = f.l3_len
               /\ g.outer_l4_proto = f.l4_proto
<1>1. LET g == SaveOuter(f)
      IN /\ g \in Info /\ g.is_tunnel = TRUE /\ g.tso_segsz = f.tso_segsz /\ g.outer_ethertype = f.ethertype
         /\ g.outer_l2_len = f.l2_len /\ g.outer_l3_len = f.l3_len /\ g.l4_proto = f.l4_proto
  BY Zenon, ZenonT(40) DEF SaveOuter, Info
<1>2. f.l4_proto \in Layer4s
  BY DEF Info
<1> DEFINE g == SaveOuter(f)
<1> HIDE DEF g
<1>3. LET k == [g EXCEPT !.outer_l4_proto = f.l4_proto]
      IN /\ k \in Info /\ k.is_tunnel = TRUE /\ k.tso_segsz = f.tso_segsz /\ k.outer_ethertype = f.ethertype
         /\ k.outer_l2_len = f.l2_len /\ k.outer_l3_len = f.l3_len /\ k.outer_l4_proto = f.l4_proto
  BY <1>1, <1>2 DEF Info, g
<1> QED
  BY <1>1, <1>3, Zenon, ZenonT(40) DEF SaveOuterL4, g

\* Adding to the length of layer 2 changes no other field.
LEMMA Shifted ==
  ASSUME NEW f \in Info, NEW n \in Int
  PROVE  LET g == AddL2(f, n)
         IN /\ g \in Info /\ g.l2_len = f.l2_len + n
            /\ g.ethertype = f.ethertype /\ g.l4_proto = f.l4_proto /\ g.l3_len = f.l3_len /\ SameOuter(g, f)
BY DEF AddL2, Info, SameOuter

\* Dissection finds the headers where the packet has them, whatever info held
\* before: only the protocol of the outer header is left over from an earlier
\* packet, and only for IP in IP.
Dissects(d, pkt, flags) ==
  /\ d.is_tunnel = Opened(pkt, flags)
  /\ ~Opened(pkt, flags) =>
       /\ d.ethertype = pkt.out.eth /\ d.l4_proto = pkt.out.proto /\ d.l2_len = OuterIp(pkt)
       /\ pkt.out.eth # "arp" => d.l3_len = L3Len(pkt.out.eth)
  /\ Opened(pkt, flags) =>
       /\ d.ethertype = pkt.in.eth /\ d.l4_proto = pkt.in.proto
       /\ pkt.in.eth # "arp" => d.l3_len = L3Len(pkt.in.eth)
       /\ d.outer_ethertype = pkt.out.eth /\ d.outer_l2_len = OuterIp(pkt)
       /\ d.outer_l3_len = L3Len(pkt.out.eth)
       /\ d.outer_l2_len + d.outer_l3_len + d.l2_len = InnerIp(pkt)
       /\ pkt.tun # "ipip" => d.outer_l4_proto = pkt.out.proto

\* The parser ends with what the headers of the packet say.
LEMMA Dissected ==
  ASSUME NEW f \in Info, NEW pkt, PacketOK(pkt), NEW flags
  PROVE  LET d == dissect(f, pkt, flags)
         IN d \in Info /\ d.tso_segsz = f.tso_segsz /\ Dissects(d, pkt, flags)
<1>0. /\ HeaderOK(pkt.out) /\ HeaderOK(pkt.in)
      /\ pkt.tun \in {"none", "vxlan", "gre", "ipip"} /\ pkt.link \in {"eth", "ip"}
      /\ pkt.tun = "vxlan" => pkt.out.proto = "udp" /\ pkt.link = "eth"
      /\ pkt.tun = "gre" => pkt.out.proto = "gre"
      /\ pkt.tun = "ipip" => pkt.out.proto = "ipip" /\ pkt.link = "ip"
      /\ pkt.link = "ip" => pkt.in.eth # "arp"
      /\ pkt.out.eth = "arp" => pkt.out.proto = "none"
      /\ pkt.out.vlan \in BOOLEAN /\ pkt.in.vlan \in BOOLEAN
  BY Zenon, ZenonT(40) DEF PacketOK, HeaderOK
<1> DEFINE c == [f EXCEPT !.is_tunnel = FALSE]
           g == parse_ethernet(c, pkt.out)
           d == dissect(f, pkt, flags)
<1>1. c \in Info /\ c.is_tunnel = FALSE /\ c.tso_segsz = f.tso_segsz
  BY Zenon, ZenonT(40) DEF Info
<1> HIDE DEF c
<1>2. /\ g \in Info /\ g.ethertype = pkt.out.eth /\ g.l4_proto = pkt.out.proto
      /\ g.l2_len = OuterIp(pkt) /\ (pkt.out.eth # "arp" => g.l3_len = L3Len(pkt.out.eth))
      /\ g.is_tunnel = FALSE /\ g.tso_segsz = f.tso_segsz
  BY <1>0, <1>1, ParsedEthernet, Zenon, ZenonT(40) DEF OuterIp, SameOuter
<1>3. d = CASE "PARSE_TUNNEL" \in flags /\ g.l4_proto = "udp" -> parse_vxlan(g, pkt)
            [] "PARSE_TUNNEL" \in flags /\ g.l4_proto = "gre" -> parse_gre(g, pkt)
            [] "PARSE_TUNNEL" \in flags /\ g.l4_proto = "ipip" -> parse_encap_ip(g, pkt)
            [] OTHER -> g
  BY DEF dissect, c
<1> HIDE DEF g, d
<1>4. CASE ~Opened(pkt, flags)
  <2>1. d = g
    BY <1>0, <1>2, <1>3, <1>4 DEF Opened, parse_vxlan, parse_gre, parse_encap_ip
  <2>2. Opened(pkt, flags) = FALSE
    BY <1>4 DEF Opened
  <2> QED
    BY <1>2, <2>1, <2>2, Zenon, ZenonT(40) DEF Dissects, d
<1>5. CASE Opened(pkt, flags)
  <2> DEFINE s == SaveOuterL4(g)
             t == SaveOuter(g)
  <2>0. "PARSE_TUNNEL" \in flags /\ pkt.out.eth # "arp" /\ pkt.tun # "none"
    BY <1>0, <1>5 DEF Opened
  <2>1. /\ s \in Info /\ s.is_tunnel = TRUE /\ s.tso_segsz = f.tso_segsz
        /\ s.outer_ethertype = pkt.out.eth /\ s.outer_l2_len = OuterIp(pkt)
        /\ s.outer_l3_len = L3Len(pkt.out.eth) /\ s.outer_l4_proto = pkt.out.proto
    BY <1>2, <2>0, Saved, Zenon, ZenonT(40)
  <2>2. /\ t \in Info /\ t.is_tunnel = TRUE /\ t.tso_segsz = f.tso_segsz
        /\ t.outer_ethertype = pkt.out.eth /\ t.outer_l2_len = OuterIp(pkt)
        /\ t.outer_l3_len = L3Len(pkt.out.eth)
    BY <1>2, <2>0, Saved, Zenon, ZenonT(40)
  <2>3. OuterIp(pkt) \in Int /\ L3Len(pkt.out.eth) \in Int
    BY DEF OuterIp, L3Len
  <2> HIDE DEF s, t
  <2>4. CASE pkt.tun = "vxlan"
    <3> DEFINE e == parse_ethernet(s, pkt.in)
    <3>1. d = AddL2(e, 16)
      BY <1>0, <1>2, <1>3, <2>0, <2>4 DEF parse_vxlan, ETHER_VXLAN_HLEN, s
    <3>2. /\ e \in Info /\ e.ethertype = pkt.in.eth /\ e.l4_proto = pkt.in.proto
          /\ e.l2_len = (IF pkt.in.vlan THEN 18 ELSE 14)
          /\ pkt.in.eth # "arp" => e.l3_len = L3Len(pkt.in.eth)
          /\ SameOuter(e, s)
      BY <1>0, <2>1, ParsedEthernet, Zenon, ZenonT(40)
    <3> HIDE DEF e
    <3>3. /\ d \in Info /\ d.l2_len = e.l2_len + 16 /\ d.ethertype = e.ethertype
          /\ d.l4_proto = e.l4_proto /\ d.l3_len = e.l3_len /\ SameOuter(d, e)
      <4>1. 16 \in Int
        OBVIOUS
      <4> QED
        BY <3>1, <3>2, <4>1, Shifted, Zenon, ZenonT(40)
    <3>4. InnerIp(pkt) = OuterIp(pkt) + L3Len(pkt.out.eth) + 16 + (IF pkt.in.vlan THEN 18 ELSE 14)
      BY <1>0, <2>3, <2>4 DEF InnerIp
    <3>5. d.outer_l2_len + d.outer_l3_len + d.l2_len = InnerIp(pkt)
      <4>1. d.outer_l2_len = OuterIp(pkt) /\ d.outer_l3_len = L3Len(pkt.out.eth)
        BY <2>1, <3>2, <3>3, Zenon, ZenonT(40) DEF SameOuter
      <4> DEFINE x == IF pkt.in.vlan THEN 18 ELSE 14
      <4>2. x \in Int /\ d.l2_len = x + 16
        BY <3>2, <3>3
      <4>3. InnerIp(pkt) = OuterIp(pkt) + L3Len(pkt.out.eth) + 16 + x
        BY <3>4
      <4> HIDE DEF x
      <4> QED
        BY <2>3, <4>1, <4>2, <4>3
    <3> QED
      BY <1>5, <2>1, <3>2, <3>3, <3>5, Zenon, ZenonT(40) DEF Dissects, SameOuter, d
  <2>5. CASE pkt.tun = "gre"
    <3> DEFINE e == IF pkt.link = "eth" THEN parse_ethernet(s, pkt.in) ELSE EncapIp(s, pkt.in)
               n == GreLen(pkt.key)
               x == IF pkt.link = "eth" THEN (IF pkt.in.vlan THEN 18 ELSE 14) ELSE 0
    <3>1. d = AddL2(e, n)
      BY <1>0, <1>2, <1>3, <2>0, <2>5 DEF parse_gre, s
    <3>2. /\ e \in Info /\ e.ethertype = pkt.in.eth /\ e.l4_proto = pkt.in.proto
          /\ e.l2_len = x
          /\ pkt.in.eth # "arp" => e.l3_len = L3Len(pkt.in.eth)
          /\ SameOuter(e, s)
      <4>1. CASE pkt.link = "eth"
        BY <1>0, <2>1, <4>1, ParsedEthernet, Zenon, ZenonT(40)
      <4>2. CASE pkt.link = "ip"
        BY <1>0, <2>1, <4>2, ParsedEncap, Zenon, ZenonT(40)
      <4> QED
        BY <1>0, <4>1, <4>2
    <3>3. n \in Int /\ x \in Int
      BY DEF GreLen
    <3>4. InnerIp(pkt) = OuterIp(pkt) + L3Len(pkt.out.eth) + n + x
      BY <1>0, <2>3, <2>5 DEF InnerIp
    <3> HIDE DEF e, n, x
    <3>5. /\ d \in Info /\ d.l2_len = x + n /\ d.ethertype = e.ethertype
          /\ d.l4_proto = e.l4_proto /\ d.l3_len = e.l3_len /\ SameOuter(d, e)
      BY <3>1, <3>2, <3>3, Shifted
    <3>6. d.outer_l2_len + d.outer_l3_len + d.l2_len = InnerIp(pkt)
      <4>1. d.outer_l2_len = OuterIp(pkt) /\ d.outer_l3_len = L3Len(pkt.out.eth)
        BY <2>1, <3>2, <3>5, Zenon, ZenonT(40) DEF SameOuter
      <4> QED
        BY <2>3, <3>3, <3>4, <3>5, <4>1
    <3> QED
      BY <1>5, <2>1, <3>2, <3>5, <3>6, Zenon, ZenonT(40) DEF Dissects, SameOuter, d
  <2>6. CASE pkt.tun = "ipip"
    <3> DEFINE e == EncapIp(t, pkt.in)
    <3>1. d = e
      BY <1>0, <1>2, <1>3, <2>0, <2>6 DEF parse_encap_ip, t
    <3>2. /\ e \in Info /\ e.ethertype = pkt.in.eth /\ e.l4_proto = pkt.in.proto /\ e.l2_len = 0
          /\ e.l3_len = L3Len(pkt.in.eth) /\ SameOuter(e, t)
      BY <1>0, <2>2, <2>6, ParsedEncap, Zenon, ZenonT(40)
    <3>3. InnerIp(pkt) = OuterIp(pkt) + L3Len(pkt.out.eth) + 0 + 0
      BY <1>0, <2>3, <2>6 DEF InnerIp
    <3> HIDE DEF e
    <3>4. d.outer_l2_len + d.outer_l3_len + d.l2_len = InnerIp(pkt)
      <4>1. d.outer_l2_len = OuterIp(pkt) /\ d.outer_l3_len = L3Len(pkt.out.eth) /\ d.l2_len = 0
        BY <2>2, <3>1, <3>2, Zenon, ZenonT(40) DEF SameOuter
      <4> QED
        BY <2>3, <3>3, <4>1
    <3> QED
      BY <1>5, <2>2, <2>6, <3>1, <3>2, <3>4, Zenon, ZenonT(40) DEF Dissects, SameOuter, d
  <2> QED
    BY <1>0, <2>0, <2>4, <2>5, <2>6
<1> QED
  BY <1>4, <1>5

\* The checksums of the headers found are the ones of the packet's headers.
LEMMA InnerSums ==
  ASSUME NEW at \in Int, NEW d \in Info, NEW h, HeaderOK(h), NEW flags,
         d.ethertype = h.eth, d.l4_proto = h.proto, h.eth # "arp" => d.l3_len = L3Len(h.eth),
         ~Misread(h)
  PROVE  process_inner_cksums(at, d, h, flags) = SumsOf(at, h, flags, d.tso_segsz)
<1>0. /\ h.eth \in {"v4", "v6", "arp"} /\ h.zero \in BOOLEAN
      /\ h.proto \in {"none", "udp", "tcp", "sctp", "gre", "ipip"}
      /\ h.eth = "arp" => h.proto = "none"
      /\ h.zero => h.proto = "udp"
  BY Zenon, ZenonT(40) DEF HeaderOK
<1> DEFINE tso == d.tso_segsz
           m == at + L3Len(h.eth)
<1>1. CASE h.eth = "arp"
  BY <1>0, <1>1 DEF process_inner_cksums, SumsOf
<1>2. CASE h.eth # "arp"
  <2>1. d.ethertype \in {"v4", "v6"} /\ at + d.l3_len = m
    BY <1>0, <1>2
  <2> HIDE DEF m, tso
  <2> DEFINE ip == IF h.eth # "v4" THEN {}
                   ELSE {Cksum(at, "ip", IF "ip" \in flags \/ (tso # 0 /\ h.proto = "tcp") THEN "hw" ELSE "sw")}
  <2>2. ip = IF d.ethertype # "v4" THEN {}
             ELSE {Cksum(at, "ip", IF d.tso_segsz # 0 /\ d.l4_proto = "tcp" THEN "hw" ELSE By("ip", flags))}
    BY DEF By, tso
  <2> DEFINE l4 == IF h.proto \notin {"udp", "tcp", "sctp"} \/ h.zero THEN {}
                   ELSE {Cksum(m, h.proto,
                           CASE h.proto = "tcp" /\ tso # 0 -> "seg"
                             [] h.proto = "sctp" /\ ("sctp" \notin flags \/ ~MultipleOf4(h.len)) -> "zeroed"
                             [] OTHER -> IF h.proto \in flags THEN "hw" ELSE "sw")}
  <2>3. l4 = CASE d.l4_proto = "udp" -> IF h.zero THEN {} ELSE {Cksum(m, "udp", By("udp", flags))}
               [] d.l4_proto = "tcp" -> {Cksum(m, "tcp", IF d.tso_segsz # 0 THEN "seg" ELSE By("tcp", flags))}
               [] d.l4_proto = "sctp" ->
                    {Cksum(m, "sctp", IF "sctp" \in flags /\ LengthTest(h.len) THEN "hw" ELSE "zeroed")}
               [] OTHER -> {}
    <3>1. CASE h.proto = "udp"
      BY <3>1 DEF By, tso
    <3>2. CASE h.proto = "tcp"
      BY <1>0, <3>2 DEF By, tso
    <3>3. CASE h.proto = "sctp"
      <4>1. LengthTest(h.len) <=> MultipleOf4(h.len)
        BY <3>3, Zenon, ZenonT(40) DEF Misread
      <4> QED
        BY <1>0, <3>3, <4>1 DEF By, tso
    <3>4. CASE h.proto \notin {"udp", "tcp", "sctp"}
      BY <3>4
    <3> QED
      BY <3>1, <3>2, <3>3, <3>4
  <2>4. process_inner_cksums(at, d, h, flags) = ip \union l4
    BY <2>1, <2>2, <2>3, Zenon, ZenonT(40) DEF process_inner_cksums
  <2>5. SumsOf(at, h, flags, tso) = ip \union l4
    BY DEF SumsOf, m
  <2> QED
    BY <2>4, <2>5 DEF tso
<1> QED
  BY <1>1, <1>2

\* The checksums of an outer header, as process_outer_cksums renews them.
RenewedOuter(at, h, flags) ==
  (IF h.eth = "v4" THEN {Cksum(at, "ip", By("outer-ip", flags))} ELSE {})
  \union (IF h.proto = "udp" /\ ~h.zero THEN {Cksum(at + L3Len(h.eth), "udp", "sw")} ELSE {})

\* process_outer_cksums renews the sums of the outer header it is given.
LEMMA OuterSums ==
  ASSUME NEW at \in Int, NEW h, HeaderOK(h), h.proto \in {"udp", "gre", "ipip"},
         NEW flags, NEW fl, "ip" \in fl <=> "outer-ip" \in flags, "udp" \notin fl
  PROVE  SumsOf(at, h, fl, 0) = RenewedOuter(at, h, flags)
<1>0. h.eth \in {"v4", "v6", "arp"} /\ h.zero \in BOOLEAN /\ (h.zero => h.proto = "udp")
  BY Zenon, ZenonT(40) DEF HeaderOK
<1> DEFINE m == at + L3Len(h.eth)
<1>1. ("ip" \in fl <=> "outer-ip" \in flags) /\ "udp" \notin fl
  OBVIOUS
<1> HIDE DEF m
<1> DEFINE ip == IF h.eth # "v4" THEN {} ELSE {Cksum(at, "ip", IF "ip" \in fl THEN "hw" ELSE "sw")}
           l4 == IF h.proto = "udp" /\ ~h.zero THEN {Cksum(m, "udp", "sw")} ELSE {}
<1>2. ip = IF h.eth = "v4" THEN {Cksum(at, "ip", By("outer-ip", flags))} ELSE {}
  BY <1>1 DEF By
<1>3. SumsOf(at, h, fl, 0) = ip \union l4
  <2>1. CASE h.proto = "udp"
    BY <1>0, <1>1, <2>1 DEF SumsOf, m
  <2>2. CASE h.proto \in {"gre", "ipip"}
    BY <1>0, <1>1, <2>2 DEF SumsOf, m
  <2> QED
    BY <2>1, <2>2
<1> HIDE DEF ip
<1> QED
  BY <1>2, <1>3 DEF m, RenewedOuter

CsumInv == OffInv /\ info \in Info /\ ChecksumsRight

\* One turn of the loop leaves the checksums of its packet right, whatever the
\* packets before it left in info.
LEMMA OnePacket ==
  ASSUME info \in Info, NEW pkt \in Packets, process_packet(pkt)
  PROVE  info' \in Info /\ ChecksumsRight'
<1> DEFINE flags == cached[1]
           d == dissect(info, pkt, flags)
           l3 == IF d.is_tunnel THEN d.outer_l2_len + d.outer_l3_len + d.l2_len ELSE d.l2_len
           inner == IF d.is_tunnel THEN pkt.in ELSE pkt.out
           zero == pkt.out.proto = "udp" /\ pkt.out.zero
           outer == IF d.is_tunnel THEN process_outer_cksums(d.outer_l2_len, d, zero, flags) ELSE {}
           sums == process_inner_cksums(l3, d, inner, flags) \union outer
           s == [pkt |-> pkt, flags |-> flags, tso |-> d.tso_segsz, left |-> d.outer_l4_proto,
                 meta |-> metadata(d, flags), sums |-> sums]
           open == Opened(pkt, flags)
<1>1. info' = d /\ processed' = s
  BY DEF process_packet
<1>2. PacketOK(pkt)
  BY PacketsOK
<1>3. d \in Info /\ Dissects(d, pkt, flags)
  BY <1>2, Dissected
<1>4. /\ HeaderOK(pkt.out) /\ HeaderOK(pkt.in)
      /\ pkt.tun \in {"none", "vxlan", "gre", "ipip"}
      /\ pkt.tun = "vxlan" => pkt.out.proto = "udp"
      /\ pkt.tun = "gre" => pkt.out.proto = "gre"
      /\ pkt.tun = "ipip" => pkt.out.proto = "ipip"
  BY <1>2, Zenon, ZenonT(40) DEF PacketOK
<1>5. d.is_tunnel = open /\ open \in BOOLEAN
  BY <1>3, Zenon, ZenonT(40) DEF Dissects, Opened
<1>6. /\ d.l2_len \in Int /\ d.l3_len \in Int /\ d.outer_l2_len \in Int /\ d.outer_l3_len \in Int
  BY <1>3 DEF Info
<1>7. s.pkt = pkt /\ s.flags = flags /\ s.tso = d.tso_segsz /\ s.meta = metadata(d, flags) /\ s.sums = sums
      /\ s.left = d.outer_l4_proto
  BY Zenon, ZenonT(40)
<1>8. processed' # <<>>
  BY <1>1, SMTT(30), SMTT(60)
<1> HIDE DEF d, s
<1>9. CASE ~open
  <2>1. /\ d.is_tunnel = FALSE /\ d.ethertype = pkt.out.eth /\ d.l4_proto = pkt.out.proto
        /\ d.l2_len = OuterIp(pkt) /\ (pkt.out.eth # "arp" => d.l3_len = L3Len(pkt.out.eth))
    BY <1>3, <1>5, <1>9, Zenon, ZenonT(40) DEF Dissects
  <2>2. sums = process_inner_cksums(OuterIp(pkt), d, pkt.out, flags)
    BY <2>1
  <2>3. ~Misread(pkt.out) => sums = SumsOf(OuterIp(pkt), pkt.out, flags, d.tso_segsz)
    <3>1. OuterIp(pkt) \in Int
      BY <1>6, <2>1
    <3> QED
      BY <1>3, <1>4, <2>1, <2>2, <3>1, InnerSums, Zenon, ZenonT(40)
  <2>4. OwnSums(s) = SumsOf(OuterIp(pkt), pkt.out, flags, d.tso_segsz)
    BY <1>7, <1>9, Zenon, ZenonT(40) DEF OwnSums
  <2>5. s.meta.outer + s.meta.l2 = OuterIp(pkt)
    BY <1>6, <1>7, <2>1 DEF metadata
  <2> HIDE DEF sums
  <2> QED
    BY <1>1, <1>3, <1>7, <1>9, <2>3, <2>4, <2>5, Zenon, ZenonT(40) DEF ChecksumsRight, StaleUdp
<1>10. CASE open
  <2>1. /\ d.is_tunnel = TRUE /\ d.ethertype = pkt.in.eth /\ d.l4_proto = pkt.in.proto
        /\ pkt.in.eth # "arp" => d.l3_len = L3Len(pkt.in.eth)
        /\ d.outer_ethertype = pkt.out.eth /\ d.outer_l2_len = OuterIp(pkt)
        /\ d.outer_l3_len = L3Len(pkt.out.eth)
        /\ d.outer_l2_len + d.outer_l3_len + d.l2_len = InnerIp(pkt)
        /\ pkt.tun # "ipip" => d.outer_l4_proto = pkt.out.proto
    BY <1>3, <1>5, <1>10, Zenon, ZenonT(40) DEF Dissects
  <2>2. InnerIp(pkt) \in Int /\ OuterIp(pkt) \in Int
    BY <1>6, <2>1
  <2>3. sums = process_inner_cksums(InnerIp(pkt), d, pkt.in, flags)
                 \union process_outer_cksums(OuterIp(pkt), d, zero, flags)
    BY <2>1
  <2>4. ~Misread(pkt.in) =>
          process_inner_cksums(InnerIp(pkt), d, pkt.in, flags) = SumsOf(InnerIp(pkt), pkt.in, flags, d.tso_segsz)
    BY <1>3, <1>4, <2>1, <2>2, InnerSums, Zenon, ZenonT(40)
  <2> DEFINE fl == IF "outer-ip" \in flags THEN {"ip"} ELSE {}
  <2>5. ~(pkt.tun = "ipip" /\ d.outer_l4_proto = "udp") =>
          process_outer_cksums(OuterIp(pkt), d, zero, flags) = SumsOf(OuterIp(pkt), pkt.out, fl, 0)
    <3> SUFFICES ASSUME ~(pkt.tun = "ipip" /\ d.outer_l4_proto = "udp")
                 PROVE  process_outer_cksums(OuterIp(pkt), d, zero, flags)
                          = SumsOf(OuterIp(pkt), pkt.out, fl, 0)
      OBVIOUS
    <3>1. pkt.out.proto \in {"udp", "gre", "ipip"}
      BY <1>4, <1>10 DEF Opened
    <3>2. ("ip" \in fl <=> "outer-ip" \in flags) /\ "udp" \notin fl
      OBVIOUS
    <3> HIDE DEF fl
    <3>3. SumsOf(OuterIp(pkt), pkt.out, fl, 0) = RenewedOuter(OuterIp(pkt), pkt.out, flags)
      BY <1>4, <2>2, <3>1, <3>2, OuterSums, ZenonT(40), ZenonT(60)
    <3>4. d.outer_ethertype = pkt.out.eth /\ d.outer_l3_len = L3Len(pkt.out.eth)
          /\ (d.outer_l4_proto = "udp" <=> pkt.out.proto = "udp")
      BY <1>4, <2>1
    <3> QED
      BY <3>3, <3>4 DEF process_outer_cksums, RenewedOuter
  <2>6. OwnSums(s) = SumsOf(InnerIp(pkt), pkt.in, flags, d.tso_segsz)
                       \union SumsOf(OuterIp(pkt), pkt.out, fl, 0)
    BY <1>7, <1>10, Zenon, ZenonT(40) DEF OwnSums
  <2>7. s.meta.outer + s.meta.l2 = InnerIp(pkt)
    BY <1>6, <1>7, <2>1 DEF metadata
  <2> HIDE DEF sums, fl
  <2> QED
    BY <1>1, <1>3, <1>7, <1>10, <2>3, <2>4, <2>5, <2>6, <2>7, Zenon, ZenonT(40) DEF ChecksumsRight, StaleUdp
<1> QED
  BY <1>9, <1>10, SMTT(30), SMTT(60)

\* pkt_burst_checksum_forward renews exactly the checksums of the packet's own
\* headers, at their places, for every sequence of packets in a burst and of
\* offload commands before it.  The packets it excepts are the two kinds of
\* ChecksumsRight: IP in IP behind VXLAN in the burst, and SCTP of a length that
\* the code's test misjudges.
THEOREM ChecksumsOfOwnHeaders == CsumSpec => []ChecksumsRight
<1>1. OffloadInit /\ CsumInit => CsumInv
  <2> SUFFICES ASSUME OffloadInit, CsumInit PROVE CsumInv
    OBVIOUS
  <2>1. info \in Info
    BY DEF CsumInit, NoInfo, Info, Ethers, Layer4s
  <2>2. ChecksumsRight
    BY DEF CsumInit, ChecksumsRight
  <2> QED
    BY <2>1, <2>2, OffInvInductive DEF CsumInv
<1>2. CsumInv /\ [CsumNext]_<<off, csumvars>> => CsumInv'
  <2> SUFFICES ASSUME CsumInv, [CsumNext]_<<off, csumvars>> PROVE CsumInv'
    OBVIOUS
  <2>1. CASE (cmd_csum \/ cmd_csum_tunnel \/ cmd_tso_set) /\ UNCHANGED csumvars
    <3>1. OffInv'
      BY <2>1, OffInvInductive DEF CsumInv, OffloadNext, InsertNext
    <3> QED
      BY <2>1, <3>1 DEF CsumInv, csumvars, ChecksumsRight
  <2>2. CASE burst_start
    <3>1. PICK p \in FewPorts : info' = [NoInfo EXCEPT !.tso_segsz = off[p].tso]
      BY <2>2 DEF burst_start
    <3> DEFINE t == off[p].tso
    <3>2. t \in Nat
      BY BaseAssumption DEF CsumInv, OffInv, PortRecord
    <3> HIDE DEF t
    <3>3. NoInfo \in Info
      BY DEF NoInfo, Info, Ethers, Layer4s
    <3>4. [NoInfo EXCEPT !.tso_segsz = t] \in Info
      BY <3>2, <3>3 DEF Info
    <3>5. off' = off /\ processed' = processed
      BY <2>2, Zenon, ZenonT(40) DEF burst_start
    <3>6. OffInv' /\ ChecksumsRight'
      BY <3>5 DEF CsumInv, OffInv, ChecksumsRight
    <3> QED
      BY <3>1, <3>4, <3>6, Zenon, ZenonT(40) DEF CsumInv, t
  <2>3. CASE burst_end
    BY <2>3 DEF burst_end, CsumInv, OffInv, ChecksumsRight
  <2>4. ASSUME NEW pkt \in Packets, process_packet(pkt) PROVE CsumInv'
    <3>1. off' = off
      BY <2>4 DEF process_packet
    <3>2. info' \in Info /\ ChecksumsRight'
      BY <2>4, OnePacket DEF CsumInv
    <3> QED
      BY <3>1, <3>2 DEF CsumInv, OffInv
  <2>5. CASE UNCHANGED <<off, csumvars>>
    BY <2>5 DEF CsumInv, OffInv, csumvars, ChecksumsRight
  <2> QED
    BY <2>1, <2>2, <2>3, <2>4, <2>5 DEF CsumNext
<1>3. CsumInv => ChecksumsRight
  BY DEF CsumInv
<1> QED
  BY <1>1, <1>2, <1>3, PTL DEF CsumSpec

-----------------------------------------------------------------------------
(* The echo engine *)

\* Division with remainder.
LEMMA Division ==
  ASSUME NEW a \in Int, NEW n \in Nat \ {0}
  PROVE  a % n \in 0 .. n - 1 /\ a \div n \in Int /\ a = n * (a \div n) + (a % n)
  BY SMTT(30), SMTT(60)

\* A quotient is found by bounds.
LEMMA Quotient ==
  ASSUME NEW x \in Int, NEW n \in Nat \ {0}, NEW k \in Int, k * n <= x, x < k * n + n
  PROVE  x \div n = k /\ x % n = x - k * n
<1> DEFINE q == x \div n
           r == x % n
<1>1. r \in 0 .. n - 1 /\ q \in Int /\ x = n * q + r
  BY Division
<1> HIDE DEF q, r
<1>2. q < k + 1
  <2> SUFFICES ASSUME q >= k + 1 PROVE FALSE
    BY <1>1
  <2>1. n * q >= n * (k + 1)
    BY <1>1, SMTT(30), SMTT(60)
  <2> QED
    BY <1>1, <2>1
<1>3. q > k - 1
  <2> SUFFICES ASSUME q <= k - 1 PROVE FALSE
    BY <1>1
  <2>1. n * q <= n * (k - 1)
    BY <1>1, SMTT(30), SMTT(60)
  <2> QED
    BY <1>1, <2>1
<1>4. q = k
  BY <1>1, <1>2, <1>3
<1> QED
  BY <1>1, <1>4 DEF q, r

\* A word has at least sixteen values.
LEMMA WordSize == EchoW \in Nat /\ EchoW >= 16
<1>1. EchoW = 16 * (EchoW \div 16) + 0 /\ EchoW \div 16 \in Int
  BY EchoAssumption, Division
<1> QED
  BY <1>1, EchoAssumption

\* Folding takes k words' worth off and adds k.
LEMMA Folded ==
  ASSUME NEW x \in Int, NEW k \in 0 .. 4, k * EchoW <= x, x < k * EchoW + EchoW
  PROVE  Fold(x) = x - k * EchoW + k
<1>1. EchoW \in Nat \ {0} /\ k \in Int
  BY EchoAssumption
<1>2. x \div EchoW = k /\ x % EchoW = x - k * EchoW
  BY <1>1, Quotient, Zenon, ZenonT(40)
<1> QED
  BY <1>2, WordSize DEF Fold

\* A word is its own remainder.
LEMMA WordMod ==
  ASSUME NEW x \in Int, 0 <= x, x < EchoW
  PROVE  x % EchoW = x
<1>1. 0 * EchoW <= x /\ x < 0 * EchoW + EchoW /\ EchoW \in Nat \ {0} /\ 0 \in Int
  BY WordSize
<1>2. x % EchoW = x - 0 * EchoW
  BY <1>1, Quotient, Zenon, ZenonT(40)
<1> QED
  BY <1>2, WordSize

\* A sum verifies exactly when it is a multiple of EchoW - 1 other than zero.
LEMMA VerifiesMultiple ==
  ASSUME NEW k \in 1 .. 4
  PROVE  Verifies(k * (EchoW - 1))
<1> DEFINE x == k * (EchoW - 1)
<1>1. x \in Int /\ (k - 1) * EchoW <= x /\ x < (k - 1) * EchoW + EchoW /\ k - 1 \in 0 .. 4
  BY WordSize, SMTT(30), SMTT(60)
<1>2. Fold(x) = x - (k - 1) * EchoW + (k - 1)
  BY <1>1, Folded
<1>3. Fold(x) = EchoW - 1
  BY <1>2, WordSize
<1>4. Fold(EchoW - 1) = EchoW - 1 - 0 * EchoW + 0
  BY WordSize, Folded
<1> QED
  BY <1>3, <1>4, WordSize DEF Verifies

\* Folding the sum of three words twice gives a word that differs from it by a
\* multiple of EchoW - 1, and is zero for zero only.
LEMMA FoldedTwice ==
  ASSUME NEW x \in Nat, x <= 3 * EchoW - 3
  PROVE  /\ Fold(Fold(x)) \in WordSet
         /\ \E j \in 0 .. 3 : Fold(Fold(x)) = x - j * (EchoW - 1)
         /\ Fold(Fold(x)) = 0 => x = 0
<1>1. PICK k \in 0 .. 2 : k * EchoW <= x /\ x < k * EchoW + EchoW
  <2>1. CASE x < EchoW
    BY <2>1, WordSize
  <2>2. CASE EchoW <= x /\ x < 2 * EchoW
    BY <2>2, WordSize
  <2>3. CASE 2 * EchoW <= x
    BY <2>3, WordSize
  <2> QED
    BY <2>1, <2>2, <2>3, WordSize
<1> DEFINE y == Fold(x)
<1>2. y = x - k * EchoW + k /\ y \in Nat /\ y < EchoW + 2 /\ (y = 0 => x = 0)
  <2>1. y = x - k * EchoW + k
    BY <1>1, Folded
  <2> HIDE DEF y
  <2>2. CASE k = 0
    BY <1>1, <2>1, <2>2, WordSize
  <2>3. CASE k = 1
    BY <1>1, <2>1, <2>3, WordSize
  <2>4. CASE k = 2
    BY <1>1, <2>1, <2>4, WordSize
  <2> QED
    BY <2>2, <2>3, <2>4
<1> HIDE DEF y
<1>3. CASE y < EchoW
  <2>1. Fold(y) = y - 0 * EchoW + 0
    BY <1>2, <1>3, WordSize, Folded
  <2>2. Fold(y) = y /\ y = x - k * (EchoW - 1) /\ k \in 0 .. 3
    BY <1>2, <2>1, WordSize
  <2>3. Fold(y) \in WordSet /\ (Fold(y) = 0 => x = 0)
    BY <1>2, <1>3, <2>2, WordSize DEF WordSet
  <2>4. \E j \in 0 .. 3 : Fold(y) = x - j * (EchoW - 1)
    BY <2>2
  <2> QED
    BY <2>3, <2>4 DEF y
<1>4. CASE y >= EchoW
  <2>1. Fold(y) = y - 1 * EchoW + 1
    BY <1>2, <1>4, WordSize, Folded
  <2>2. Fold(y) = x - (k + 1) * (EchoW - 1) /\ Fold(y) \in 1 .. 2 /\ k + 1 \in 0 .. 3
    BY <1>2, <1>4, <2>1, WordSize
  <2> QED
    BY <2>2, WordSize DEF y, WordSet
<1> QED
  BY <1>2, <1>3, <1>4, WordSize

\* ipv4_hdr_cksum makes any three words verify.
LEMMA Recomputed ==
  ASSUME NEW ip, ip.src \in WordSet, ip.dst \in WordSet, ip.rest \in WordSet
  PROVE  Verifies(ip.src + ip.dst + ip.rest + ipv4_hdr_cksum(ip))
<1> DEFINE x == ip.src + ip.dst + ip.rest
           f == Fold(Fold(x))
           c == ipv4_hdr_cksum(ip)
<1>1. x \in Nat /\ x <= 3 * EchoW - 3
  BY WordSize DEF WordSet
<1>2. c = IF Not(f % EchoW) = 0 THEN EchoW - 1 ELSE Not(f % EchoW)
  BY DEF ipv4_hdr_cksum, Complement
<1> HIDE DEF x, c
<1>3. PICK j \in 0 .. 3 : f = x - j * (EchoW - 1)
  BY <1>1, FoldedTwice
<1>4. f \in Int /\ 0 <= f /\ f < EchoW
  BY <1>1, FoldedTwice, WordSize DEF WordSet
<1> HIDE DEF f
<1>5. f % EchoW = f
  BY <1>4, WordMod
<1>6. c = IF f = EchoW - 1 THEN EchoW - 1 ELSE EchoW - 1 - f
  BY <1>2, <1>4, <1>5, WordSize DEF Not
<1>7. \E k \in 1 .. 4 : x + c = k * (EchoW - 1)
  <2>1. CASE f # EchoW - 1
    <3>1. x + c = (j + 1) * (EchoW - 1) /\ j + 1 \in 1 .. 4
      BY <1>1, <1>3, <1>6, <2>1, WordSize
    <3> QED
      BY <3>1
  <2>2. CASE f = EchoW - 1
    <3>1. x = (j + 1) * (EchoW - 1) /\ c = EchoW - 1
      BY <1>1, <1>3, <1>6, <2>2, WordSize
    <3>2. j # 3
      BY <1>1, <3>1, WordSize
    <3>3. x + c = (j + 2) * (EchoW - 1) /\ j + 2 \in 1 .. 4
      BY <3>1, <3>2, WordSize
    <3> QED
      BY <3>3
  <2> QED
    BY <2>1, <2>2
<1>8. Verifies(x + c)
  BY <1>7, VerifiesMultiple
<1> QED
  BY <1>8 DEF x, c

\* reply_icmp: the adjusted checksum verifies, unless all other words are zero.
LEMMA Adjusted ==
  ASSUME NEW m \in Messages, m.rest # 0
  PROVE  Verifies(REPLY + m.rest + reply_icmp(m).cksum)
<1> DEFINE r == m.rest
           c == m.cksum
           x == REQUEST + r + c
           y == Not(c) + Not(REQUEST) + REPLY
           f == Fold(Fold(y))
           d == reply_icmp(m).cksum
<1>1. r \in WordSet /\ c \in WordSet /\ r # 0 /\ Fold(Fold(x)) = EchoW - 1 /\ x = 8 + r + c
  BY DEF Messages, Verifies, REQUEST
<1>2. d = Not(f % EchoW)
  BY DEF reply_icmp, Complement, Messages
<1>3. y = 2 * EchoW - 10 - c
  BY <1>1, WordSize DEF Not, REQUEST, REPLY, WordSet
<1> HIDE DEF r, c, x, y, d
<1>4. x \in Nat /\ x <= 2 * EchoW + 6 /\ x <= 3 * EchoW - 3 /\ x >= 9
  BY <1>1, WordSize DEF WordSet
<1>5. x = EchoW - 1 \/ x = 2 * EchoW - 2
  <2>1. PICK j \in 0 .. 3 : EchoW - 1 = x - j * (EchoW - 1)
    BY <1>1, <1>4, FoldedTwice
  <2>2. CASE j = 0
    BY <1>4, <2>1, <2>2, WordSize
  <2>3. CASE j = 1
    BY <1>4, <2>1, <2>3, WordSize
  <2>4. CASE j \in {2, 3}
    BY <1>4, <2>1, <2>4, WordSize
  <2> QED
    BY <2>2, <2>3, <2>4
<1>6. y \in Nat /\ y < 2 * EchoW
  BY <1>1, <1>3, WordSize DEF WordSet
<1>7. f = (IF y < EchoW THEN y ELSE y - EchoW + 1) /\ f \in Nat /\ f < EchoW
  <2>1. CASE y < EchoW
    <3>1. Fold(y) = y - 0 * EchoW + 0
      BY <1>6, <2>1, WordSize, Folded
    <3>2. Fold(y) = y
      BY <3>1, <1>6, WordSize
    <3> QED
      BY <1>6, <2>1, <3>2
  <2>2. CASE y >= EchoW
    <3>1. Fold(y) = y - 1 * EchoW + 1
      BY <1>6, <2>2, WordSize, Folded
    <3> DEFINE z == Fold(y)
    <3>2. z = y - EchoW + 1 /\ z \in Nat /\ z < EchoW
      BY <1>3, <1>1, <1>6, <2>2, <3>1, WordSize DEF WordSet
    <3> HIDE DEF z
    <3>3. Fold(z) = z - 0 * EchoW + 0
      BY <3>2, WordSize, Folded
    <3>4. Fold(z) = z
      BY <3>2, <3>3, WordSize
    <3> QED
      BY <2>2, <3>2, <3>4, <1>6, WordSize DEF z
  <2> QED
    BY <1>6, <2>1, <2>2, WordSize
<1> HIDE DEF f
<1>8. f % EchoW = f
  BY <1>7, WordMod
<1>9. d = EchoW - 1 - f
  BY <1>2, <1>7, <1>8, WordSize DEF Not
<1>10. REPLY + r + d = EchoW - 1 \/ REPLY + r + d = 2 * EchoW - 2
  BY <1>1, <1>3, <1>5, <1>7, <1>9, WordSize DEF REPLY, WordSet
<1>11. Verifies(1 * (EchoW - 1)) /\ Verifies(2 * (EchoW - 1))
  BY VerifiesMultiple
<1>12. Verifies(REPLY + r + d)
  BY <1>10, <1>11, WordSize
<1> QED
  BY <1>12 DEF r, d

\* For any other words there is a header with a checksum that verifies.
LEMMA HeaderExists ==
  ASSUME NEW r \in WordSet
  PROVE  \E h \in IpHeaders : h.rest = r
<1> DEFINE h == [src |-> 0, dst |-> 0, rest |-> r, cksum |-> EchoW - 1 - r, icmp |-> TRUE]
<1>1. 0 \in WordSet /\ EchoW - 1 - r \in WordSet /\ r \in Int
  BY WordSize DEF WordSet
<1>2. 0 \in Unicast
  <2> DEFINE n == EchoW \div 4
  <2>1. n \in Nat \ {0}
    BY WordSize, Division
  <2> HIDE DEF n
  <2>2. 0 * n <= 0 /\ 0 < 0 * n + n
    BY <2>1
  <2>3. 0 \div n = 0
    BY <2>1, <2>2, Quotient
  <2> QED
    BY <1>1, <2>3 DEF Unicast, is_multicast_ipv4_addr, n
<1>3. Verifies(1 * (EchoW - 1))
  BY VerifiesMultiple
<1>4. 0 + 0 + r + (EchoW - 1 - r) = 1 * (EchoW - 1)
  BY <1>1, WordSize
<1>5. h \in [src : Unicast, dst : WordSet, rest : WordSet, cksum : WordSet, icmp : {TRUE}]
  BY <1>1, <1>2
<1>6. h.src + h.dst + h.rest + h.cksum = 1 * (EchoW - 1)
  BY <1>4
<1>7. h \in IpHeaders
  BY <1>3, <1>5, <1>6 DEF IpHeaders
<1> QED
  BY <1>7

\* The packets the engine is given: their IP headers, where they carry ICMP, verify.
GivenFrame(pkt) ==
  \E t \in {"ipv4", "ipv6", "arp"} : \E a, h, m :
    /\ pkt = EchoFrame(t, a, h, m)
    /\ t = "ipv4" /\ h.icmp => h \in IpHeaders
    /\ t = "arp" => a \in ArpPackets

\* The requests are well formed.
LEMMA FramesGiven == \A pkt \in EchoPackets : GivenFrame(pkt)
<1> SUFFICES ASSUME NEW pkt \in EchoPackets PROVE GivenFrame(pkt)
  OBVIOUS
<1>1. CASE \E h \in IpHeaders : pkt = EchoFrame("ipv4", NoArp, h, AnyMessage(h.rest))
  BY <1>1, Zenon, ZenonT(40) DEF GivenFrame
<1>2. CASE \E m \in Messages \union OtherMessages : pkt = EchoFrame("ipv4", NoArp, AnyHeader(m.rest), m)
  <2>1. PICK m \in Messages \union OtherMessages : pkt = EchoFrame("ipv4", NoArp, AnyHeader(m.rest), m)
    BY <1>2
  <2>2. m.rest \in WordSet
    BY WordSize DEF Messages, OtherMessages, WordSet
  <2>3. AnyHeader(m.rest) \in IpHeaders
    BY <2>2, HeaderExists, Zenon, ZenonT(40) DEF AnyHeader
  <2> QED
    BY <2>1, <2>3, Zenon, ZenonT(40) DEF GivenFrame
<1>3. CASE \E m \in Messages : pkt = EchoFrame("ipv4", NoArp, NoIp, m)
  <2>1. ~NoIp.icmp
    BY DEF NoIp
  <2> QED
    BY <1>3, <2>1, Zenon, ZenonT(40) DEF GivenFrame
<1>4. CASE \E a \in ArpPackets : pkt = EchoFrame("arp", a, NoIp, NoMessage)
  BY <1>4, Zenon, ZenonT(40) DEF GivenFrame
<1>5. CASE pkt = EchoFrame("ipv6", NoArp, NoIp, NoMessage)
  BY <1>5, Zenon, ZenonT(40) DEF GivenFrame
<1> QED
  BY <1>1, <1>2, <1>3, <1>4, <1>5, Zenon, ZenonT(40) DEF EchoPackets

\* reply_ip: the header of the answer verifies and leads back to the sender.
LEMMA HeaderAnswered ==
  ASSUME NEW h \in IpHeaders
  PROVE  LET r == reply_ip(h)
         IN /\ r.dst = h.src /\ (h.src # h.dst => r.src # r.dst)
            /\ Verifies(r.src + r.dst + r.rest + r.cksum)
<1>1. /\ h \in [src : Unicast, dst : WordSet, rest : WordSet, cksum : WordSet, icmp : {TRUE}]
      /\ Verifies(h.src + h.dst + h.rest + h.cksum)
  BY Zenon, ZenonT(40) DEF IpHeaders
<1>2. h.src \in WordSet /\ h.dst \in WordSet /\ h.rest \in WordSet /\ h.cksum \in WordSet
  BY <1>1 DEF Unicast
<1>3. CASE ~is_multicast_ipv4_addr(h.dst)
  <2> DEFINE r == [h EXCEPT !.src = h.dst, !.dst = h.src]
  <2>1. r.src = h.dst /\ r.dst = h.src /\ r.rest = h.rest /\ r.cksum = h.cksum
    BY <1>1
  <2>2. reply_ip(h) = r
    BY <1>3 DEF reply_ip
  <2> HIDE DEF r
  <2>3. r.src + r.dst + r.rest + r.cksum = h.src + h.dst + h.rest + h.cksum
    BY <1>2, <2>1 DEF WordSet
  <2> QED
    BY <1>1, <2>1, <2>2, <2>3
<1>4. CASE is_multicast_ipv4_addr(h.dst)
  <2> DEFINE o == OtherSource(h.src)
             n == [h EXCEPT !.src = o, !.dst = h.src]
             c == ipv4_hdr_cksum(n)
             r == [n EXCEPT !.cksum = c]
  <2>1. o \in WordSet /\ o # h.src
    <3> DEFINE s == h.src
               q == s \div 4
               w == EchoW \div 16
               m == s % 4
    <3>1. o = q * 4 + (IF m = 1 THEN 2 ELSE 1)
      BY DEF OtherSource
    <3>2. EchoW = 16 * w + 0 /\ w \in Int
      BY EchoAssumption, Division
    <3>3. s \in Int /\ s >= 0 /\ s < EchoW /\ 4 \in Nat \ {0}
      BY <1>2, WordSize DEF WordSet
    <3> HIDE DEF o, s, w
    <3>4. q \in Int /\ s = 4 * q + m /\ m \in 0 .. 4 - 1
      BY <3>3, Division, Zenon, ZenonT(40)
    <3> HIDE DEF q, m
    <3>5. o \in 0 .. EchoW - 1 /\ o # s
      BY <3>1, <3>2, <3>3, <3>4
    <3> QED
      BY <3>5 DEF WordSet, s
  <2> HIDE DEF o
  <2>2. n.src = o /\ n.dst = h.src /\ n.rest = h.rest /\ n \in [src : WordSet, dst : WordSet, rest : WordSet, cksum : WordSet, icmp : {TRUE}]
    BY <1>1, <1>2, <2>1, Zenon, ZenonT(40)
  <2>3. reply_ip(h) = r
    BY <1>4 DEF reply_ip, o
  <2> HIDE DEF n
  <2>4. Verifies(n.src + n.dst + n.rest + c)
    BY <1>2, <2>1, <2>2, Recomputed
  <2> HIDE DEF c
  <2>5. r.src = n.src /\ r.dst = n.dst /\ r.rest = n.rest /\ r.cksum = c
    BY <2>2
  <2> HIDE DEF r
  <2> QED
    BY <2>1, <2>2, <2>3, <2>4, <2>5
<1> QED
  BY <1>3, <1>4

\* The reply to a request verifies.
LEMMA Answered ==
  ASSUME NEW pkt \in EchoPackets, reply_to_icmp_echo_rqsts(pkt)
  PROVE  RepliesVerify'
<1>1. PICK t \in {"ipv4", "ipv6", "arp"} : \E a, h, m :
        /\ pkt = EchoFrame(t, a, h, m)
        /\ t = "ipv4" /\ h.icmp => h \in IpHeaders
        /\ t = "arp" => a \in ArpPackets
  BY FramesGiven, Zenon, ZenonT(40) DEF GivenFrame
<1>2. PICK a, h, m :
        /\ pkt = EchoFrame(t, a, h, m)
        /\ t = "ipv4" /\ h.icmp => h \in IpHeaders
        /\ t = "arp" => a \in ArpPackets
  BY <1>1, Zenon, ZenonT(40)
<1>3. /\ pkt.eth_type = t /\ pkt.s_addr = 1 /\ pkt.d_addr = 2 /\ pkt.arp = a /\ pkt.ip = h /\ pkt.icmp = m
      /\ DOMAIN pkt = {"eth_type", "s_addr", "d_addr", "arp", "ip", "icmp"}
  BY <1>2 DEF EchoFrame
<1>4. request' = pkt
  BY DEF reply_to_icmp_echo_rqsts
<1>5. CASE t = "arp" /\ a.ether_ipv4 /\ a.op = "request"
  <2>1. reply' = [pkt EXCEPT !.d_addr = 1, !.s_addr = PortMac, !.arp = reply_arp(a)]
    BY <1>3, <1>5 DEF reply_to_icmp_echo_rqsts
  <2>2. reply'.d_addr = 1 /\ reply'.eth_type = "arp" /\ reply'.arp = reply_arp(a)
    BY <1>2, <1>5, <2>1 DEF EchoFrame
  <2>3. reply_arp(a).op = "reply" /\ reply_arp(a).tha = a.sha /\ reply_arp(a).tip = a.sip
    BY <1>2, <1>5 DEF reply_arp, ArpPackets
  <2> QED
    BY <1>3, <1>4, <1>5, <2>2, <2>3 DEF RepliesVerify
<1>6. CASE t = "ipv4" /\ h.icmp /\ m.type = REQUEST /\ m.code = 0
  <2>1. reply' = [pkt EXCEPT !.d_addr = 1, !.s_addr = 2, !.ip = reply_ip(h), !.icmp = reply_icmp(m)]
    BY <1>3, <1>6 DEF reply_to_icmp_echo_rqsts
  <2>2. /\ reply'.d_addr = 1 /\ reply'.eth_type = "ipv4" /\ reply'.ip = reply_ip(h)
        /\ reply'.icmp = reply_icmp(m)
    BY <1>2, <1>6, <2>1 DEF EchoFrame
  <2>3. LET r == reply_ip(h)
        IN /\ r.dst = h.src /\ (h.src # h.dst => r.src # r.dst)
           /\ Verifies(r.src + r.dst + r.rest + r.cksum)
    BY <1>2, <1>6, HeaderAnswered
  <2>4. m \in Messages =>
          /\ reply_icmp(m).type = REPLY /\ reply_icmp(m).rest = m.rest
          /\ (m.rest # 0 => Verifies(REPLY + m.rest + reply_icmp(m).cksum))
    BY Adjusted DEF reply_icmp, Messages
  <2>5. REPLY # REQUEST
    BY DEF REPLY, REQUEST
  <2> QED
    BY <1>3, <1>4, <2>2, <2>3, <2>4, <2>5 DEF RepliesVerify
<1>7. CASE ~(t = "arp" /\ a.ether_ipv4 /\ a.op = "request")
           /\ ~(t = "ipv4" /\ h.icmp /\ m.type = REQUEST /\ m.code = 0)
  <2>1. reply' = <<>>
    BY <1>3, <1>7, Zenon, ZenonT(40) DEF reply_to_icmp_echo_rqsts
  <2> QED
    BY <2>1, SMTT(30), SMTT(60) DEF RepliesVerify
<1> QED
  BY <1>5, <1>6, <1>7

\* The answer of reply_to_icmp_echo_rqsts to a valid request verifies, whether its
\* checksum was recomputed or adjusted, for words of every width; the request
\* whose other words are all zero excepted.
THEOREM RepliesAccepted == EchoSpec => []RepliesVerify
<1>1. EchoInit => RepliesVerify
  BY DEF EchoInit, RepliesVerify
<1>2. RepliesVerify /\ [EchoNext]_echovars => RepliesVerify'
  <2> SUFFICES ASSUME RepliesVerify, [EchoNext]_echovars PROVE RepliesVerify'
    OBVIOUS
  <2>1. CASE EchoNext
    BY <2>1, Answered DEF EchoNext
  <2>2. CASE UNCHANGED echovars
    BY <2>2 DEF echovars, RepliesVerify
  <2> QED
    BY <2>1, <2>2
<1> QED
  BY <1>1, <1>2, PTL DEF EchoSpec
=============================================================================
