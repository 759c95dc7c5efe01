------------------------------ MODULE IcmpEcho ------------------------------
(***************************************************************************)
(* The echo engine of testpmd (test-pmd/icmpecho.c): which packets         *)
(* reply_to_icmp_echo_rqsts answers, how it turns a request into a reply   *)
(* in place, and the Internet checksums it recomputes or adjusts.          *)
(*                                                                         *)
(* Words have EchoW values instead of 2^16.  An IPv4 header is its two     *)
(* addresses, one word each, its checksum and the sum of its other words;  *)
(* an ICMP message its type, its checksum and the sum of its other words.  *)
(***************************************************************************)
EXTENDS Integers

CONSTANTS EchoW,     \* values of a word, a power of two
          PortMac    \* ports[tx_port].eth_addr

ASSUME EchoAssumption == EchoW \in Nat \ {0} /\ EchoW % 16 = 0

VARIABLES request,   \* the packet received, <<>> before the first
          reply      \* what is sent back, <<>> when the packet is freed

echovars == <<request, reply>>

WordSet == 0 .. EchoW - 1
REQUEST == 8
REPLY == 0
Not(x) == EchoW - 1 - x
Fold(x) == (x % EchoW) + (x \div EchoW)
\* Mutant: the carry of the first folding is lost.
Complement_once(x) == Not(Fold(x) % EchoW)

\* (~cksum) of the sum folded twice.
Complement(x) == Not(Fold(Fold(x)) % EchoW)

ipv4_hdr_cksum(ip) ==
  LET c == Complement(ip.src + ip.dst + ip.rest) IN IF c = 0 THEN EchoW - 1 ELSE c

\* The highest bits of an address tell multicast; the lowest two make the new source.
is_multicast_ipv4_addr(a) == a \div (EchoW \div 4) = 3

OtherSource(a) == ((a \div 4) * 4) + (IF a % 4 = 1 THEN 2 ELSE 1)

reply_ip(ip) ==
  IF is_multicast_ipv4_addr(ip.dst)
    THEN LET new == [ip EXCEPT !.src = OtherSource(ip.src), !.dst = ip.src]
         IN [new EXCEPT !.cksum = ipv4_hdr_cksum(new)]
    ELSE [ip EXCEPT !.src = ip.dst, !.dst = ip.src]

\* The type changes and the checksum is adjusted, not recomputed.
reply_icmp(ic) == [ic EXCEPT !.type = REPLY, !.cksum = Complement(Not(ic.cksum) + Not(REQUEST) + REPLY)]

reply_arp(a) ==
  [a EXCEPT !.op = "reply", !.tha = a.sha, !.sha = PortMac, !.sip = a.tip, !.tip = a.sip]

(* The body of the loop for one packet. *)
reply_to_icmp_echo_rqsts(pkt) ==
  /\ request' = pkt
  /\ reply' = CASE pkt.eth_type = "arp" /\ pkt.arp.ether_ipv4 /\ pkt.arp.op = "request" ->
                     [pkt EXCEPT !.d_addr = pkt.s_addr, !.s_addr = PortMac, !.arp = reply_arp(@)]
                [] pkt.eth_type = "ipv4" /\ pkt.ip.icmp /\ pkt.icmp.type = REQUEST /\ pkt.icmp.code = 0 ->
                     [pkt EXCEPT !.d_addr = pkt.s_addr, !.s_addr = pkt.d_addr,
                                 !.ip = reply_ip(@), !.icmp = reply_icmp(@)]
                [] OTHER -> <<>>

(* Packets: any header with a checksum a receiver accepts. *)
Verifies(words) == Fold(Fold(words)) = EchoW - 1
Unicast == {a \in WordSet : ~is_multicast_ipv4_addr(a)}
IpHeaders == {h \in [src : Unicast, dst : WordSet, rest : WordSet, cksum : WordSet, icmp : {TRUE}] :
                Verifies(h.src + h.dst + h.rest + h.cksum)}
Messages == {m \in [type : {REQUEST}, rest : WordSet, cksum : WordSet, code : {0}] :
               Verifies(m.type + m.rest + m.cksum)}
AnyHeader(r) == CHOOSE h \in IpHeaders : h.rest = r
AnyMessage(r) == CHOOSE m \in Messages : m.rest = r
OtherMessages == [type : {REQUEST, REPLY}, rest : {0}, cksum : {0}, code : {0, 1}]
ArpPackets == [ether_ipv4 : BOOLEAN, op : {"request", "reply"}, sha : {1}, tha : {0}, sip : {1, 2}, tip : {2, 3}]
NoArp == [ether_ipv4 |-> FALSE, op |-> "none", sha |-> 0, tha |-> 0, sip |-> 0, tip |-> 0]
NoIp == [src |-> 0, dst |-> 0, rest |-> 0, cksum |-> 0, icmp |-> FALSE]
NoMessage == [type |-> 3, rest |-> 0, cksum |-> 0, code |-> 0]
EchoFrame(type, arp, ip, icmp) ==
  [eth_type |-> type, s_addr |-> 1, d_addr |-> 2, arp |-> arp, ip |-> ip, icmp |-> icmp]

EchoPackets ==
  {EchoFrame("ipv4", NoArp, h, AnyMessage(h.rest)) : h \in IpHeaders}
  \union {EchoFrame("ipv4", NoArp, AnyHeader(m.rest), m) : m \in Messages \union OtherMessages}
  \union {EchoFrame("ipv4", NoArp, NoIp, m) : m \in Messages}
  \union {EchoFrame("arp", a, NoIp, NoMessage) : a \in ArpPackets}
  \union {EchoFrame("ipv6", NoArp, NoIp, NoMessage)}

EchoInit == request = <<>> /\ reply = <<>>
EchoNext == \E pkt \in EchoPackets : reply_to_icmp_echo_rqsts(pkt)
EchoSpec == EchoInit /\ [][EchoNext]_echovars

(* The answer to a request with valid checksums has valid checksums, both the one
   recomputed for a multicast request and the one adjusted incrementally; it goes
   back to the sender, from another address; and what answers is a request (the
   engine never answers an answer, so two echo engines cannot feed each other).
   The one exception is a request whose other words are all zero: the adjusted
   checksum is then zero, where only the other zero of one's complement verifies. *)
RepliesVerify ==
  reply # <<>> =>
    /\ reply.d_addr = request.s_addr
    /\ reply.eth_type = "arp" => /\ request.arp.op = "request" /\ reply.arp.op = "reply"
                                 /\ reply.arp.tha = request.arp.sha /\ reply.arp.tip = request.arp.sip
    /\ (reply.eth_type = "ipv4" /\ request.icmp \in Messages) =>
         /\ reply.ip.dst = request.ip.src
         /\ (request.ip.src # request.ip.dst) => reply.ip.src # reply.ip.dst
         /\ Verifies(reply.ip.src + reply.ip.dst + reply.ip.rest + reply.ip.cksum)
         /\ reply.icmp.type # REQUEST
         /\ request.icmp.rest # 0 => Verifies(reply.icmp.type + reply.icmp.rest + reply.icmp.cksum)
=============================================================================
