------------------------------ MODULE CsumOnly ------------------------------
(***************************************************************************)
(* The checksum engine of testpmd (test-pmd/csumonly.c): dissection of a   *)
(* packet into header positions, and the checksums it recomputes or leaves *)
(* to the device, under the flags the csum, tunnel and tso commands set.   *)
(* One testpmd_offload_info serves a whole burst.                          *)
(*                                                                         *)
(* A header is its optional VLAN tag, the protocol above Ethernet, the     *)
(* protocol above IP, whether a UDP checksum is zero, and the length field *)
(* of IPv4, as its two bytes.  A packet is an outer header and, in a       *)
(* tunnel, an inner one that starts with Ethernet or directly with IP.     *)
(***************************************************************************)
EXTENDS TxOffload

VARIABLES info,      \* struct testpmd_offload_info of the current burst
          cached,    \* testpmd_ol_flags, read once per burst; <<>> between bursts
          processed  \* the last packet of the loop and what was done to it

csumvars == <<info, cached, processed>>

ETHER == 14
VLAN == 4
L3Len(eth) == IF eth = "v4" THEN 20 ELSE 40
ETHER_VXLAN_HLEN == 16
GreLen(key) == IF key THEN 8 ELSE 4
TcpLen(proto) == IF proto = "tcp" THEN 20 ELSE 0

Header(vlan, eth, proto, zero, len) ==
  [vlan |-> vlan, eth |-> eth, proto |-> proto, zero |-> zero, len |-> len]
Short == <<0, 100>>
Lengths == {Short, <<0, 101>>, <<1, 100>>, <<1, 101>>}   \* 100, 101, 356 and 357
Arp == Header(FALSE, "arp", "none", FALSE, Short)
Carriers(proto) == {Header(FALSE, e, proto, FALSE, Short) : e \in {"v4", "v6"}}
Tcp == {Header(v, "v4", "tcp", FALSE, Short) : v \in BOOLEAN} \union {Header(FALSE, "v6", "tcp", FALSE, Short)}
Udp == {Header(FALSE, "v4", "udp", z, Short) : z \in BOOLEAN}
       \union {Header(TRUE, "v6", "udp", FALSE, Short)}
Sctp == {Header(FALSE, "v4", "sctp", FALSE, l) : l \in Lengths}

Packet(h, tun, key, link, in) == [out |-> h, tun |-> tun, key |-> key, link |-> link, in |-> in]
Ip == {h \in Tcp \union Udp : ~h.vlan}
Packets ==
  {Packet(h, "none", FALSE, "eth", Arp) :
     h \in Tcp \union Udp \union Sctp \union Carriers("gre") \union Carriers("ipip") \union {Arp}}
  \union {Packet(h, "vxlan", FALSE, "eth", i) : h \in Udp, i \in Tcp \union Udp \union {Arp}}
  \union {Packet(h, "gre", k, l, i) : h \in Carriers("gre"), k \in BOOLEAN, l \in {"eth", "ip"}, i \in Ip}
  \union {Packet(h, "ipip", FALSE, "ip", i) : h \in Carriers("ipip"), i \in Ip}

(* Dissection: each function updates info as its counterpart does. *)
parse_ip(f, h) == [f EXCEPT !.l3_len = L3Len(h.eth), !.l4_proto = h.proto, !.l4_len = TcpLen(h.proto)]

parse_ethernet(f, h) ==
  LET g == [f EXCEPT !.l2_len = ETHER + (IF h.vlan THEN VLAN ELSE 0), !.ethertype = h.eth]
  IN IF h.eth \in {"v4", "v6"} THEN parse_ip(g, h)
     ELSE [g EXCEPT !.l3_len = 0, !.l4_len = 0, !.l4_proto = "none"]

\* The fields that the tunnel parsers copy, with and without the protocol.
SaveOuter(f) == [f EXCEPT !.is_tunnel = TRUE, !.outer_ethertype = f.ethertype,
                          !.outer_l2_len = f.l2_len, !.outer_l3_len = f.l3_len]
SaveOuterL4(f) == [SaveOuter(f) EXCEPT !.outer_l4_proto = f.l4_proto]
EncapIp(f, h) == [parse_ip(f, h) EXCEPT !.ethertype = h.eth, !.l2_len = 0]
AddL2(f, n) == [f EXCEPT !.l2_len = @ + n]

parse_vxlan(f, pkt) ==
  IF pkt.tun # "vxlan" THEN f
  ELSE AddL2(parse_ethernet(SaveOuterL4(f), pkt.in), ETHER_VXLAN_HLEN)

\* Mutant: the key of a GRE header is not counted.
parse_gre_nokey(f, pkt) ==
  IF pkt.tun # "gre" THEN f
  ELSE LET g == SaveOuterL4(f)
       IN AddL2(IF pkt.link = "eth" THEN parse_ethernet(g, pkt.in) ELSE EncapIp(g, pkt.in), GreLen(FALSE))

parse_gre(f, pkt) ==
  IF pkt.tun # "gre" THEN f
  ELSE LET g == SaveOuterL4(f)
       IN AddL2(IF pkt.link = "eth" THEN parse_ethernet(g, pkt.in) ELSE EncapIp(g, pkt.in), GreLen(pkt.key))

parse_encap_ip(f, pkt) == IF pkt.tun # "ipip" THEN f ELSE EncapIp(SaveOuter(f), pkt.in)

dissect(f, pkt, flags) ==
  LET g == parse_ethernet([f EXCEPT !.is_tunnel = FALSE], pkt.out)
  IN CASE "PARSE_TUNNEL" \in flags /\ g.l4_proto = "udp" -> parse_vxlan(g, pkt)
       [] "PARSE_TUNNEL" \in flags /\ g.l4_proto = "gre" -> parse_gre(g, pkt)
       [] "PARSE_TUNNEL" \in flags /\ g.l4_proto = "ipip" -> parse_encap_ip(g, pkt)
       [] OTHER -> g

(* A checksum: where its header starts, which it is, and who computes it. *)
Cksum(at, kind, by) == [at |-> at, kind |-> kind, by |-> by]
By(flag, flags) == IF flag \in flags THEN "hw" ELSE "sw"

\* total_length & 0x3 on the field as a little-endian host loads it: the byte it
\* tests is the first in memory, the high one of the length.
LengthTest(len) == len[1] % 4 = 0

process_inner_cksums(at, f, h, flags) ==
  LET l4 == at + f.l3_len
      ip == IF f.ethertype # "v4" THEN {}
            ELSE {Cksum(at, "ip", IF f.tso_segsz # 0 /\ f.l4_proto = "tcp" THEN "hw" ELSE By("ip", flags))}
  IN IF f.ethertype \notin {"v4", "v6"} THEN {}
     ELSE ip \union
       CASE f.l4_proto = "udp" -> IF h.zero THEN {} ELSE {Cksum(l4, "udp", By("udp", flags))}
         [] f.l4_proto = "tcp" -> {Cksum(l4, "tcp", IF f.tso_segsz # 0 THEN "seg" ELSE By("tcp", flags))}
         [] f.l4_proto = "sctp" ->
              {Cksum(l4, "sctp", IF "sctp" \in flags /\ LengthTest(h.len) THEN "hw" ELSE "zeroed")}
         [] OTHER -> {}

\* zero: the two bytes where a UDP checksum would be are zero.
process_outer_cksums(at, f, zero, flags) ==
  (IF f.outer_ethertype = "v4" THEN {Cksum(at, "ip", By("outer-ip", flags))} ELSE {})
  \union (IF f.outer_l4_proto = "udp" /\ ~zero THEN {Cksum(at + f.outer_l3_len, "udp", "sw")} ELSE {})

(* The header lengths of the mbuf, from which the device finds the inner headers. *)
metadata(f, flags) ==
  IF f.is_tunnel /\ "outer-ip" \in flags
    THEN [outer |-> f.outer_l2_len + f.outer_l3_len, l2 |-> f.l2_len, l3 |-> f.l3_len, l4 |-> f.l4_len]
    ELSE [outer |-> 0, l2 |-> (IF f.is_tunnel THEN f.outer_l2_len + f.outer_l3_len ELSE 0) + f.l2_len,
          l3 |-> f.l3_len, l4 |-> f.l4_len]

NoInfo == [ethertype |-> "none", l2_len |-> 0, l3_len |-> 0, l4_len |-> 0, l4_proto |-> "none",
           is_tunnel |-> FALSE, outer_ethertype |-> "none", outer_l2_len |-> 0, outer_l3_len |-> 0,
           outer_l4_proto |-> "none", tso_segsz |-> 0]

\* The head of pkt_burst_checksum_forward: flags are read and info is cleared.
burst_start ==
  /\ cached = <<>>
  /\ \E p \in FewPorts : /\ cached' = <<off[p].flags>>
                         /\ info' = [NoInfo EXCEPT !.tso_segsz = off[p].tso]
  /\ UNCHANGED <<off, processed>>

\* One turn of its loop: steps 1 to 4 on the next packet.
process_packet(pkt) ==
  /\ cached # <<>>
  /\ LET flags == cached[1]
         f == dissect(info, pkt, flags)
         l3 == IF f.is_tunnel THEN f.outer_l2_len + f.outer_l3_len + f.l2_len ELSE f.l2_len
         inner == IF f.is_tunnel THEN pkt.in ELSE pkt.out
         zero == pkt.out.proto = "udp" /\ pkt.out.zero
     IN /\ info' = f
        /\ processed' =
             [pkt |-> pkt, flags |-> flags, tso |-> f.tso_segsz, left |-> f.outer_l4_proto,
              meta |-> metadata(f, flags),
              sums |-> process_inner_cksums(l3, f, inner, flags)
                       \union (IF f.is_tunnel
                                 THEN process_outer_cksums(f.outer_l2_len, f, zero, flags)
                                 ELSE {})]
  /\ UNCHANGED <<off, cached>>

burst_end == /\ cached # <<>> /\ cached' = <<>> /\ UNCHANGED <<off, info, processed>>

CsumInit == info = NoInfo /\ cached = <<>> /\ processed = <<>>

CsumNext ==
  \/ ((cmd_csum \/ cmd_csum_tunnel \/ cmd_tso_set) /\ UNCHANGED csumvars)
  \/ burst_start \/ burst_end
  \/ \E pkt \in Packets : process_packet(pkt)

CsumSpec == OffloadInit /\ CsumInit /\ [][CsumNext]_<<off, csumvars>>

-----------------------------------------------------------------------------
\* Reference: where the headers of a packet are, read off the packet itself.
OuterIp(pkt) == IF pkt.out.vlan THEN 18 ELSE 14
Opened(pkt, flags) == "PARSE_TUNNEL" \in flags /\ pkt.tun # "none"
InnerIp(pkt) ==
  OuterIp(pkt) + L3Len(pkt.out.eth)
    + (CASE pkt.tun = "vxlan" -> 8 + 8 [] pkt.tun = "gre" -> GreLen(pkt.key) [] OTHER -> 0)
    + (IF pkt.link = "ip" THEN 0 ELSE IF pkt.in.vlan THEN 18 ELSE 14)

\* "sctp payload must be a multiple of 4 to be offloaded" (csumonly.c:401); the
\* headers before it are whole words, so this is the length of the IP packet.
MultipleOf4(len) == (256 * len[1] + len[2]) % 4 = 0

\* The checksums of one IP header at a position and of what it carries.
SumsOf(at, h, flags, tso) ==
  (IF h.eth # "v4" THEN {}
   ELSE {Cksum(at, "ip", IF "ip" \in flags \/ (tso # 0 /\ h.proto = "tcp") THEN "hw" ELSE "sw")})
  \union
  (IF h.proto \notin {"udp", "tcp", "sctp"} \/ h.zero THEN {}
   ELSE {Cksum(at + L3Len(h.eth), h.proto,
               CASE h.proto = "tcp" /\ tso # 0 -> "seg"
                 [] h.proto = "sctp" /\ ("sctp" \notin flags \/ ~MultipleOf4(h.len)) -> "zeroed"
                 [] OTHER -> IF h.proto \in flags THEN "hw" ELSE "sw")})

OwnSums(s) ==
  IF ~Opened(s.pkt, s.flags) THEN SumsOf(OuterIp(s.pkt), s.pkt.out, s.flags, s.tso)
  ELSE SumsOf(InnerIp(s.pkt), s.pkt.in, s.flags, s.tso)
       \union SumsOf(OuterIp(s.pkt), s.pkt.out,
                (IF "outer-ip" \in s.flags THEN {"ip"} ELSE {}), 0)

\* An SCTP packet whose length the test of csumonly.c:404 judges unlike its comment.
Misread(h) == h.proto = "sctp" /\ ~(LengthTest(h.len) <=> MultipleOf4(h.len))

\* An IP in IP packet met while outer_l4_proto still says UDP, which
\* parse_encap_ip leaves from an earlier packet of the burst.
StaleUdp(s) == s.pkt.tun = "ipip" /\ s.left = "udp"

(* Each packet leaves with exactly the checksums of its own headers renewed, at
   their places, in software or by the device as the csum and tso commands said
   when its burst began; the lengths in the mbuf lead the device to the inner
   IP header.  Two kinds of packets are excepted from the first part: IP in IP
   behind a VXLAN packet of the same burst, and SCTP of a length that the code's
   test takes for a multiple of four when it is not, or the other way round. *)
ChecksumsRight ==
  processed # <<>> =>
    LET s == processed
    IN /\ s.sums = OwnSums(s) \/ StaleUdp(s) \/ Misread(s.pkt.out) \/ Misread(s.pkt.in)
       /\ s.meta.outer + s.meta.l2 = IF Opened(s.pkt, s.flags) THEN InnerIp(s.pkt) ELSE OuterIp(s.pkt)

(* The same for IP in IP behind VXLAN too: testpmd_offload_info "caches offload
   info for the current packet" (csumonly.c:92). *)
InfoOfCurrentPacket ==
  processed # <<>> =>
    processed.sums = OwnSums(processed) \/ Misread(processed.pkt.out) \/ Misread(processed.pkt.in)

(* An SCTP checksum is left to the device only for a length that is a multiple
   of four, as the comment on that branch says (csumonly.c:401). *)
SctpOffloadedAsCommented ==
  processed # <<>> =>
    \A c \in processed.sums :
      c.kind = "sctp" /\ c.by = "hw" => MultipleOf4(processed.pkt.out.len)
=============================================================================
