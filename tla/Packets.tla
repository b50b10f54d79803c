------------------------------ MODULE Packets ------------------------------
(***************************************************************************)
(* The IP packets NetTrap parses in four places and writes in one: the     *)
(* WinDivert interceptor (what it reports, and what it rewrites), the      *)
(* libpcap interceptor, the reader of capture files, and the encoder of    *)
(* the capture writer.                                                     *)
(*                                                                         *)
(* A frame keeps what the parsers compare: the link type, how many VLAN    *)
(* tags it has and the family its link header names, on a BSD loopback the *)
(* number stored and its byte order, [code, big]; the version nibble; cap, *)
(* the captured bytes from the IP header on; total, the length the IP      *)
(* header declares; the IPv6 extension headers [kind, len, frag]; and the  *)
(* lengths its transport header declares.  A packet is [proto, src, dst,   *)
(* sport, dport, flags, payload], payload its length; None is no packet.   *)
(* On a link type the code does not name ("other") IP comes first.         *)
(***************************************************************************)
EXTENDS Integers, Sequences, Functions

None == [proto |-> "none", payload |-> 0]
MAX_VLAN_DEPTH == 8
MAX_EXTENSIONS == 8            \* iterations of the loop over extension headers
U16Max == 65535
MAX_PCAP_RECORD_BYTES == U16Max

Found(f, proto, payload) ==
    [proto |-> proto, src |-> f.src, dst |-> f.dst, payload |-> payload,
     sport |-> IF proto \in {"tcp", "udp"} THEN f.sport ELSE 0,
     dport |-> IF proto \in {"tcp", "udp"} THEN f.dport ELSE 0,
     flags |-> IF proto = "tcp" THEN f.flags ELSE {}]

------------------------------------------------------------------------------
(* The end of an IPv4 packet if its header is sound, 0 if it is not.       *)
ipv4_end(f) ==
    IF f.cap >= 20 /\ f.ihl \in 20 .. 60 /\ f.cap >= f.ihl /\ f.total \in f.ihl .. f.cap /\ ~f.frag
    THEN f.total ELSE 0
ipv6_end(f) == IF f.cap >= 40 /\ f.total \in 40 .. f.cap THEN f.total ELSE 0

(* Where extension header i starts.                                        *)
ExtOffset(f, i) == FoldFunctionOnSet(+, 40, [j \in DOMAIN f.exts |-> f.exts[j].len], 1 .. i - 1)
(* The loop follows at most MAX_EXTENSIONS headers; readable bounds what   *)
(* it may look at, end what an options header may cover.                   *)
ipv6_transport_start(f, readable, end) ==
    LET sound(i) == LET e == f.exts[i]
                        o == ExtOffset(f, i)
                    IN  CASE e.kind = "options"  -> o + 2 <= readable /\ o + e.len <= end
                          [] e.kind = "fragment" -> o + 8 <= readable /\ ~e.frag
                          [] OTHER -> FALSE
    IN  IF Len(f.exts) < MAX_EXTENSIONS /\ \A i \in DOMAIN f.exts : sound(i)
        THEN ExtOffset(f, Len(f.exts) + 1) ELSE 0
transport_start(f, readable, end) ==
    IF f.version = 4 THEN f.ihl ELSE ipv6_transport_start(f, readable, end)
packet_end(f) == IF f.version = 4 THEN ipv4_end(f) ELSE ipv6_end(f)

tcp_sound(f, o, end) == o + 20 <= end /\ f.thl \in 20 .. 60 /\ o + f.thl <= end
udp_sound(f, o, end) == o + 8 <= end /\ f.udp >= 8 /\ o + f.udp <= end

------------------------------------------------------------------------------
(* nettrap-interceptor/src/platform.rs: what recv_packet reports, and what *)
(* redirect_packet needs to rewrite a packet.                              *)
WD_parse_packet(f) ==
    LET end == packet_end(f)
        o   == transport_start(f, end, end)
    IN  IF f.cap < 1 \/ f.version \notin {4, 6} \/ end = 0 \/ o = 0 THEN None
        ELSE CASE f.proto = 6  -> IF tcp_sound(f, o, end) THEN Found(f, "tcp", end - o - f.thl) ELSE None
               [] f.proto = 17 -> IF udp_sound(f, o, end) THEN Found(f, "udp", f.udp - 8) ELSE None
               [] OTHER        -> Found(f, "other", end - o)
packet_metadata(f) ==
    LET end == packet_end(f)
        o   == transport_start(f, end, end)
    IN  IF f.version \notin {4, 6} \/ end = 0 \/ o = 0 THEN None
        ELSE CASE f.proto = 6  -> IF tcp_sound(f, o, end) THEN Found(f, "tcp", 0) ELSE None
               [] f.proto = 17 -> IF o + 8 <= end THEN Found(f, "udp", 0) ELSE None
               [] OTHER        -> Found(f, "other", 0)

------------------------------------------------------------------------------
(* nettrap-interceptor/src/pcap.rs.  The link header decides the family    *)
(* and the nibble is not compared with it; extension headers are read from *)
(* the whole capture.                                                      *)
parse_transport(f, o, end) ==
    CASE end < o \/ o = 0 -> None
      [] f.proto = 6      -> IF tcp_sound(f, o, end) THEN Found(f, "tcp", end - o - f.thl) ELSE None
      [] f.proto = 17     -> IF udp_sound(f, o, end) THEN Found(f, "udp", f.udp - 8) ELSE None
      [] f.proto \in {1, 58} -> IF o + 8 <= end THEN Found(f, "icmp", end - o - 8) ELSE None
      [] OTHER            -> None
PC_parse_ipv4(f) == IF ipv4_end(f) = 0 THEN None ELSE parse_transport(f, f.ihl, ipv4_end(f))
PC_parse_ipv6(f) == IF ipv6_end(f) = 0 THEN None
                    ELSE parse_transport(f, ipv6_transport_start(f, f.cap, ipv6_end(f)), ipv6_end(f))
parse_ip_packet(f, version) ==
    CASE f.cap < 1   -> None
      [] version = 4 -> PC_parse_ipv4(f)
      [] version = 6 -> PC_parse_ipv6(f)
      [] OTHER       -> None
parse_ethernet(f) == IF f.tags > MAX_VLAN_DEPTH THEN None ELSE parse_ip_packet(f, f.family)
(* The family is in the byte order of the link type: of a little-endian    *)
(* host, or of the network.                                                *)
AF_IPV6 == {24, 28, 30}        \* the BSDs; 23 is Windows'
parse_null_loopback(f, big_endian) ==
    CASE f.family.big # big_endian -> None
      [] f.family.code = 2         -> PC_parse_ipv4(f)
      [] f.family.code \in AF_IPV6 \cup {23} -> PC_parse_ipv6(f)
      [] OTHER                     -> None
(* Of a link type without a case of its own the first nibble decides; that *)
(* of a Linux cooked header ("sll") is the one of its packet type, 0.      *)
PC_parse_packet(f) ==
    CASE f.link = "ethernet"        -> parse_ethernet(f)
      [] f.link \in {"raw", "ipv4"} -> parse_ip_packet(f, 4)
      [] f.link = "ipv6"            -> parse_ip_packet(f, 6)
      [] f.link = "null"            -> parse_null_loopback(f, FALSE)
      [] f.link = "loop"            -> parse_null_loopback(f, TRUE)
      [] f.link = "sll"             -> parse_ip_packet(f, 0)
      [] OTHER                      -> parse_ip_packet(f, f.version)

------------------------------------------------------------------------------
(* nettrap-pcap/src/pcap.rs, PcapReader.  The link header only tells that  *)
(* the frame holds IP; the nibble decides the family.                      *)
RD_parse_ipv4_packet(f) == IF f.version # 4 THEN None ELSE PC_parse_ipv4(f)
RD_parse_ipv6_packet(f) ==
    IF f.version # 6 \/ ipv6_end(f) = 0 THEN None
    ELSE parse_transport(f, ipv6_transport_start(f, ipv6_end(f), ipv6_end(f)), ipv6_end(f))
bsd_loopback_family_is_ip(f) == f.family.code \in AF_IPV6 \cup {2}    \* in either byte order
(* Mutant: one VLAN tag more is followed than by the interceptor.          *)
parse_link_packet_deep(f) ==
    LET version == CASE f.link = "ipv4" -> 4 [] f.link = "ipv6" -> 6 [] OTHER -> f.version
    IN  CASE f.cap < 1 \/ f.link = "other" -> None
          [] f.link = "ethernet" /\ (f.tags > MAX_VLAN_DEPTH + 1 \/ f.family = 0) -> None
          [] f.link \in {"null", "loop"} /\ ~bsd_loopback_family_is_ip(f) -> None
          [] f.link = "sll" /\ f.family = 0 -> None
          [] version = 4 -> RD_parse_ipv4_packet(f)
          [] version = 6 -> RD_parse_ipv6_packet(f)
          [] OTHER -> None
parse_link_packet(f) ==
    LET version == CASE f.link = "ipv4" -> 4 [] f.link = "ipv6" -> 6 [] OTHER -> f.version
    IN  CASE f.cap < 1 \/ f.link = "other" -> None
          [] f.link = "ethernet" /\ (f.tags > MAX_VLAN_DEPTH \/ f.family = 0) -> None
          [] f.link \in {"null", "loop"} /\ ~bsd_loopback_family_is_ip(f) -> None
          [] f.link = "sll" /\ f.family = 0 -> None
          [] version = 4 -> RD_parse_ipv4_packet(f)
          [] version = 6 -> RD_parse_ipv6_packet(f)
          [] OTHER -> None

(* The direction is not in the capture: a SYN tells it, else the addresses *)
(* do.  An address is [fam, host, local], local for loopback, private,     *)
(* unique local and link local ones, mapped or not.                        *)
infer_direction(src, dst) ==
    CASE src.local /\ ~dst.local -> "outbound"
      [] ~src.local /\ dst.local -> "inbound"
      [] OTHER -> "unknown"
infer_tcp_direction(p) ==
    IF "SYN" \in p.flags THEN IF "ACK" \in p.flags THEN "inbound" ELSE "outbound"
    ELSE infer_direction(p.src, p.dst)
direction_of(p) == IF p.proto = "tcp" THEN infer_tcp_direction(p) ELSE infer_direction(p.src, p.dst)

------------------------------------------------------------------------------
(* nettrap-pcap/src/pcap/encoding.rs.  The encoder refuses what a length   *)
(* field cannot hold; Refused is its error.                                *)
Refused == [cap |-> -1]
segment_len(p) == CASE p.proto = "tcp" -> 20 + p.payload
                    [] p.proto \in {"udp", "icmp"} -> 8 + p.payload
                    [] OTHER -> p.payload
encode_segment(p) ==
    IF p.proto \in {"tcp", "udp"} /\ segment_len(p) > U16Max THEN -1 ELSE segment_len(p)
tcp_flags(p) == CASE p.proto # "tcp" -> {}
                  [] p.flags # {}    -> p.flags
                  [] p.payload = 0   -> {"ACK"}
                  [] OTHER           -> {"PSH", "ACK"}
ip_protocol_for_packet(p, fam) ==
    CASE p.proto = "tcp" -> 6 [] p.proto = "udp" -> 17
      [] p.proto = "icmp" -> IF fam = 6 THEN 58 ELSE 1 [] OTHER -> 2
(* The length fields have 16 bits.                                         *)
RawFrame(p, fam, header, seg) ==
    [link |-> "raw", tags |-> 0, family |-> 0, version |-> fam, cap |-> header + seg, ihl |-> 20,
     total |-> IF fam = 4 THEN (20 + seg) % 65536 ELSE 40 + (seg % 65536), frag |-> FALSE, exts |-> <<>>,
     proto |-> ip_protocol_for_packet(p, fam), thl |-> 20, udp |-> 8 + p.payload, src |-> p.src, dst |-> p.dst, sport |-> p.sport,
     dport |-> p.dport, flags |-> tcp_flags(p)]
encode_ipv4_packet(p, seg) == IF 20 + seg > U16Max THEN Refused ELSE RawFrame(p, 4, 20, seg)
encode_ipv6_packet(p, seg) == IF seg > U16Max THEN Refused ELSE RawFrame(p, 6, 40, seg)
encode_raw_ip_packet(p) ==
    CASE encode_segment(p) = -1 -> Refused
      [] p.src.fam = 4 /\ p.dst.fam = 4 -> encode_ipv4_packet(p, encode_segment(p))
      [] p.src.fam = 6 /\ p.dst.fam = 6 -> encode_ipv6_packet(p, encode_segment(p))
      [] OTHER -> Refused

(* The one's complement sum of 16-bit words, and the checksum that makes   *)
(* it all ones.  UDP has no checksum 0: it means "not computed".           *)
Fold16(n) == LET once == (n % 65536) + (n \div 65536) IN (once % 65536) + (once \div 65536)
OnesSum(words) == Fold16(FoldFunction(+, 0, words))
(* Mutant: the carry is dropped.                                           *)
internet_checksum_no_carry(words) == U16Max - (FoldFunction(+, 0, words) % 65536)
internet_checksum(words) == U16Max - OnesSum(words)
transport_checksum(p, words) ==
    IF p = "udp" /\ internet_checksum(words) = 0 THEN U16Max ELSE internet_checksum(words)
=============================================================================
