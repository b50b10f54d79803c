---------------------------- MODULE UdpServices ----------------------------
(***************************************************************************)
(* The services that answer single datagrams (SNMP, SIP, SSDP, NTP, CoAP,  *)
(* QUIC, syslog, raw and the fixed answers) and the tasters that recognise *)
(* their datagrams.  A handler answers "" when it stays silent.            *)
(*                                                                         *)
(* A datagram is [k, f]: f holds the fields of a message of kind k.  A     *)
(* header is [name, v, n], n its value read as a number (-1 if it is none).*)
(***************************************************************************)
EXTENDS Dns, Integers

CONSTANTS CustomResponse,     \* what raw answers: "echo", "fixed", "silent" or "bad"
          default_udp         \* the router's default handler, "" for none

Is(d, k) == d.k = k
Named(headers, name) == SelectSeq(headers, LAMBDA h : h.name = name)
Unique(headers, name, ok(_)) ==
    \E v \in {Named(headers, name)} : Len(v) = 1 /\ ok(v[1])

------------------------------------------------------------------------------
(* SNMP.  A BER length is [long, n, v]: long form or not, how many octets  *)
(* it takes (the first one being zero if zero), and its value.             *)
parse_len(l) == IF ~l.long THEN l.v
                ELSE IF l.n \in 1 .. 4 /\ ~l.zero /\ l.v >= 128 THEN l.v ELSE -1
OctetsOf(v) == IF v < 256 THEN 1 ELSE IF v < 65536 THEN 2 ELSE 3
(* Mutant: the short form is used up to 255.                               *)
ber_encode_length_short(v) ==
    IF v < 256 THEN [long |-> v >= 128, n |-> v % 128, zero |-> FALSE, v |-> v % 128]
    ELSE [long |-> TRUE, n |-> OctetsOf(v), zero |-> FALSE, v |-> v]
ber_encode_length(v) ==
    IF v < 128 THEN [long |-> FALSE, n |-> 0, zero |-> FALSE, v |-> v]
    ELSE [long |-> TRUE, n |-> OctetsOf(v), zero |-> FALSE, v |-> v]
read_tlv(l, room) == parse_len(l) \in 0 .. room
MAX_SNMP_COMMUNITY_BYTES == 1024
(* An integer is [octets, neg, padded]: padded has a redundant first octet. *)
is_canonical_integer(i) == /\ i.octets \in 1 .. 4 /\ ~i.padded
                           /\ i.octets = 1 => ~i.neg
is_zero_integer(i) == is_canonical_integer(i) /\ i.zero
is_nonnegative_canonical_integer(i) == is_canonical_integer(i) /\ ~i.neg
parse_snmp(f) ==
    /\ f.size >= 10 /\ parse_len(f.len) = f.size - 2 - (IF f.len.long THEN f.len.n ELSE 0)
    /\ f.version \in {0, 1} /\ f.community <= MAX_SNMP_COMMUNITY_BYTES
    /\ f.tag \in {"get", "getnext", "set", "getbulk"}
    /\ f.tag = "getbulk" => f.version # 0
    /\ is_canonical_integer(f.id)
    /\ IF f.tag = "getbulk"
       THEN is_nonnegative_canonical_integer(f.status) /\ is_nonnegative_canonical_integer(f.index)
       ELSE is_zero_integer(f.status) /\ is_zero_integer(f.index)
    /\ f.varbinds
(* The lengths of the nested elements of a response, inside out: the       *)
(* varbind list (37 octets in all), the PDU and the message.               *)
Sized(v) == v + 2 + (IF ber_encode_length(v).long THEN ber_encode_length(v).n ELSE 0)
build_get_response(f) ==
    LET pdu == Sized(f.id.octets) + 6 + 37
    IN  [community |-> ber_encode_length(f.community), pdu |-> ber_encode_length(pdu),
         message |-> ber_encode_length(3 + Sized(f.community) + Sized(pdu))]
SnmpHandle(d) == IF Is(d, "snmp") /\ parse_snmp(d.f) THEN "get response" ELSE ""

------------------------------------------------------------------------------
(* SIP.  Compact header names stand for the long ones.                     *)
sip_header_name_matches(name, long) ==
    name = long \/ <<name, long>> \in {<<"v", "Via">>, <<"f", "From">>, <<"t", "To">>,
                                       <<"i", "Call-ID">>, <<"l", "Content-Length">>}
SipHeaders(f, name) == SelectSeq(f.headers, LAMBDA h : sip_header_name_matches(h.name, name))
extract_header(f, name)        == SipHeaders(f, name) # <<>>
extract_unique_header(f, name) == Len(SipHeaders(f, name)) = 1
request_method(f) == f.start = "request" /\ f.method # "lower" /\ f.version = "SIP/2.0"
cseq_matches_method(f) ==
    extract_unique_header(f, "CSeq")
    /\ \E h \in {SipHeaders(f, "CSeq")[1]} : h.n > 0 /\ h.v = f.method
message_sections(f) == f.ended /\ f.lines = "crlf" /\ ~f.toolong
content_length_matches_body(f) ==
    LET cl == SipHeaders(f, "Content-Length")
    IN  /\ \A i \in DOMAIN cl : cl[i].n >= 0 /\ cl[i].n = cl[1].n
        /\ f.body = IF cl = <<>> THEN 0 ELSE cl[1].n
headers_are_well_formed(f) == \A i \in DOMAIN f.headers : f.headers[i].name # "bad name"
sip_status(method) == CASE method \in {"REGISTER", "INVITE"}            -> "401"
                        [] method \in {"OPTIONS", "BYE", "ACK", "CANCEL"} -> "200"
                        [] OTHER                                        -> "405"
SipHandle(d) ==
    IF /\ Is(d, "sip") /\ message_sections(d.f) /\ content_length_matches_body(d.f)
       /\ headers_are_well_formed(d.f) /\ request_method(d.f)
       /\ extract_header(d.f, "Via")
       /\ \A name \in {"From", "To", "Call-ID"} : extract_unique_header(d.f, name)
       /\ cseq_matches_method(d.f)
    THEN sip_status(d.f.method) ELSE ""

------------------------------------------------------------------------------
(* SSDP, the datagram half of UPnP.  The answer advertises the address the *)
(* datagram was sent to, so that one has to be fit for a URL.              *)
safe_listen_host(ip) == ip \in {"v4", "v6", "mapped", "name"}
bounded_upnp_request_text(f) == f.ended /\ ~f.toolong /\ f.body = 0
upnp_headers_are_well_formed(f) == f.lines = "crlf" /\ \A i \in DOMAIN f.headers : f.headers[i].name # "bad name"
request_line(f) == f.start = "request" /\ f.version \in {"HTTP/1.0", "HTTP/1.1"}
is_supported_search_target(h) == h.v \in {"ssdp:all", "upnp:rootdevice", "uuid", "device", "service"}
is_valid_ssdp_host(h)         == h.v \in {"239.255.255.250:1900", "[ff02::c]:1900"}
parse_ssdp_mx(h)              == h.n > 0
is_discover(h)                == h.v = "ssdp:discover"
is_ssdp_m_search(f) ==
    /\ request_line(f) /\ f.method = "M-SEARCH" /\ f.target = "*"
    /\ Unique(f.headers, "HOST", is_valid_ssdp_host) /\ Unique(f.headers, "MX", parse_ssdp_mx)
    /\ Unique(f.headers, "MAN", is_discover) /\ Unique(f.headers, "ST", is_supported_search_target)
ssdp_response_identity(target) == IF target = "ssdp:all" THEN "upnp:rootdevice" ELSE target
handle_ssdp(d) ==
    IF /\ Is(d, "ssdp") /\ bounded_upnp_request_text(d.f)
       /\ upnp_headers_are_well_formed(d.f) /\ is_ssdp_m_search(d.f)
    THEN ssdp_response_identity(Named(d.f.headers, "ST")[1].v) ELSE ""

------------------------------------------------------------------------------
(* NTP, CoAP.  What follows a CoAP token is a sequence of octets.          *)
NtpHandle(d) == IF /\ Is(d, "ntp") /\ d.f.size >= 48 /\ d.f.size % 4 = 0
                   /\ d.f.version \in {3, 4} /\ d.f.mode = 3
                THEN "time" ELSE ""
(* The position after an option's extended delta or length, and its value. *)
Component(value, next) == [value |-> value, next |-> next]
NoComponent == Component(-1, 0)
read_option_component(nibble, data, pos) ==
    CASE nibble <= 12 -> Component(nibble, pos)
      [] nibble = 13  -> IF pos <= Len(data) THEN Component(13 + data[pos], pos + 1) ELSE NoComponent
      [] nibble = 14  -> IF pos + 1 <= Len(data)
                         THEN Component(269 + 256 * data[pos] + data[pos + 1], pos + 2) ELSE NoComponent
      [] OTHER        -> NoComponent
OptionEnd(data, length) == IF length.value < 0 THEN 0 ELSE length.next + length.value
OptionLength(data, nibble, delta) ==
    IF delta.value < 0 THEN NoComponent ELSE read_option_component(nibble, data, delta.next)
options_are_well_formed(data) ==
    LET WellFormed[pos \in Int] ==
          IF pos = Len(data) + 1 THEN TRUE
          ELSE IF data[pos] = 255 THEN pos < Len(data)
          ELSE LET end == OptionEnd(data, OptionLength(data, data[pos] % 16,
                                          read_option_component(data[pos] \div 16, data, pos + 1)))
               IN  pos < end /\ end <= Len(data) + 1 /\ WellFormed[end]
    IN  WellFormed[1]
CoapHandle(d) ==
    LET f == d.f
        empty == f.class = 0 /\ f.detail = 0
    IN  IF ~Is(d, "coap") THEN ""
        ELSE IF f.version # 1 \/ f.tkl > 8 \/ ~f.token THEN ""
        ELSE IF empty THEN IF f.tkl = 0 /\ f.rest = <<>> /\ f.type = 0 THEN "ping" ELSE ""
        ELSE IF f.class # 0 \/ ~options_are_well_formed(f.rest) \/ f.type \notin {0, 1} THEN ""
        ELSE CASE f.detail = 1 -> "2.05" [] f.detail = 2 -> "2.01" [] f.detail = 3 -> "2.04"
               [] f.detail = 4 -> "2.02" [] OTHER -> "4.05"

------------------------------------------------------------------------------
(* QUIC and syslog are recorded and not answered.                          *)
MAX_QUIC_CONNECTION_ID_BYTES == 20
quic_long_header_is_well_formed(f) ==
    LET ids   == 5 + 1 + f.dcid + 1 + f.scid
        token == IF f.type = 0 THEN 1 + f.token ELSE 0
        left  == f.size - ids - token - 1
    IN  /\ f.dcid <= MAX_QUIC_CONNECTION_ID_BYTES /\ f.scid <= MAX_QUIC_CONNECTION_ID_BYTES
        /\ ids <= f.size
        /\ IF f.type = 3 THEN f.size - ids >= 17
           ELSE left >= 0 /\ f.payload >= f.pn /\ f.payload <= left
detect_quic(d) == /\ Is(d, "quic") /\ d.f.size >= 9 /\ d.f.long /\ d.f.fixed /\ d.f.version = 1
                  /\ quic_long_header_is_well_formed(d.f)
extract_sni(d) == IF detect_quic(d) THEN d.f.sni ELSE ""

MAX_SYSLOG_PACKET_BYTES == 1024
DEFAULT_SYSLOG_PRI == 13
(* pri is the text between < and >: "none", "open" and "empty" when the    *)
(* brackets are not there, "bad" when it is no number without leading zero. *)
syslog_line(f) == f.size <= MAX_SYSLOG_PACKET_BYTES /\ f.ending \in {"", "crlf"} /\ f.inner = "ok"
(* Mutant: the bound is that of three octal digits.                        *)
syslog_pri_octal(f) == IF f.pri = "number" /\ f.n <= 199 THEN f.n ELSE DEFAULT_SYSLOG_PRI
syslog_pri(f) == IF f.pri = "number" /\ f.n <= 191 THEN f.n ELSE DEFAULT_SYSLOG_PRI
SyslogHandle(d) ==      \* <<facility, severity>>, or <<>> for an invalid message
    IF Is(d, "syslog") /\ syslog_line(d.f)
    THEN <<syslog_pri(d.f) \div 8, syslog_pri(d.f) % 8>> ELSE <<>>

(* RawHandler: an unreadable file or a bad encoding answers an error text. *)
from_custom_response(custom) ==
    CASE custom = "echo" -> "echo" [] custom = "fixed" -> "custom"
      [] custom = "silent" -> "" [] OTHER -> "ERROR"

------------------------------------------------------------------------------
(* The tasters.                                                            *)
dns_opt_record_is_well_formed(q) == q.opt = "opt" /\ ~q.extra
looks_like_dns_query(d) ==
    /\ Is(d, "dns") /\ d.f.kind = "query"
    /\ d.f.counts[1] = 1 /\ d.f.counts[2] = 0 /\ d.f.counts[3] = 0
    /\ \/ d.f.counts[4] = 0 /\ ~d.f.extra
       \/ d.f.counts[4] = 1 /\ dns_opt_record_is_well_formed(d.f)
tftp_options_are_well_formed(f) == f.options \in {"none", "good"}
looks_like_tftp_request(d) ==
    /\ Is(d, "tftp") /\ d.f.opcode \in {1, 2} /\ d.f.mode \in {"netascii", "octet", "mail"}
    /\ d.f.filename = "safe" /\ tftp_options_are_well_formed(d.f)
looks_like_quic_v1_long_header(d) == detect_quic(d)
looks_like_snmp_request(d) == Is(d, "snmp") /\ parse_snmp(d.f)
sip_headers_are_well_formed(f) == f.lines = "crlf" /\ headers_are_well_formed(f)
looks_like_sip_request_line(d) ==
    /\ Is(d, "sip") /\ d.f.ended /\ sip_headers_are_well_formed(d.f)
    /\ content_length_matches_body(d.f) /\ request_method(d.f)
    /\ extract_header(d.f, "Via")
    /\ \A name \in {"From", "To", "Call-ID"} : extract_unique_header(d.f, name)
    /\ cseq_matches_method(d.f)
looks_like_ssdp_request(d) ==
    /\ Is(d, "ssdp") /\ d.f.ended /\ d.f.body = 0 /\ d.f.version = "HTTP/1.1"
    /\ upnp_headers_are_well_formed(d.f) /\ is_ssdp_m_search(d.f)
looks_like_ntp_client_request(d) ==
    Is(d, "ntp") /\ d.f.size >= 48 /\ d.f.size % 4 = 0 /\ d.f.version \in {3, 4} /\ d.f.mode = 3
coap_options_are_well_formed(data) == options_are_well_formed(data)
(* Mutant: only the four methods the service knows are taken for CoAP.     *)
looks_like_plain_coap_request_known(d) ==
    Is(d, "coap") /\ d.f.version = 1 /\ d.f.class = 0 /\ d.f.detail \in 1 .. 4 /\ d.f.type <= 1
looks_like_plain_coap_request(d) ==
    LET f == d.f
    IN  /\ Is(d, "coap") /\ f.version = 1 /\ f.class = 0
        /\ IF f.detail = 0 THEN f.tkl = 0 /\ f.rest = <<>> /\ f.type \in {0, 2, 3}
           ELSE /\ f.type <= 1 /\ f.tkl <= 8 /\ f.token /\ f.detail \in 1 .. 31
                /\ coap_options_are_well_formed(f.rest)
(* Without a priority only a BSD timestamp tells a syslog line; with one   *)
(* something has to follow it.                                             *)
looks_like_bsd_syslog_timestamp(f) == f.stamp
looks_like_syslog_pri(d) ==
    /\ Is(d, "syslog") /\ syslog_line(d.f)
    /\ IF d.f.pri = "none" THEN looks_like_bsd_syslog_timestamp(d.f)
       ELSE d.f.pri \in {"bad", "number"} /\ d.f.tail

udp_taste(name, d, p) ==
    CASE name = "dns"  -> IF ~looks_like_dns_query(d) THEN 0 ELSE IF p = 53 THEN 90 ELSE 70
      [] name = "tftp" -> IF ~looks_like_tftp_request(d) THEN 0 ELSE IF p = 69 THEN 90 ELSE 75
      [] name = "quic" -> IF ~looks_like_quic_v1_long_header(d) THEN 0 ELSE IF p = 443 THEN 85 ELSE 80
      [] name = "snmp" -> IF p \in {161, 162} THEN 90 ELSE IF looks_like_snmp_request(d) THEN 60 ELSE 0
      [] name = "sip"  -> IF ~looks_like_sip_request_line(d) THEN 0 ELSE IF p \in {5060, 5061} THEN 90 ELSE 85
      [] name = "upnp" -> IF ~looks_like_ssdp_request(d) THEN 0 ELSE IF p = 1900 THEN 90 ELSE 75
      [] name = "ntp"  -> IF ~looks_like_ntp_client_request(d) THEN 0 ELSE IF p = 123 THEN 90 ELSE 60
      [] name = "coap" -> IF ~looks_like_plain_coap_request(d) THEN 0 ELSE IF p = 5683 THEN 90 ELSE 50
      [] name = "syslogrecv" -> IF ~looks_like_syslog_pri(d) THEN 0 ELSE IF p = 514 THEN 90 ELSE 75
      [] name = "daytime" -> IF p = 13 THEN 90 ELSE 0
      [] name = "time"    -> IF p = 37 THEN 90 ELSE 0
      [] name = "chargen" -> IF p = 19 THEN 90 ELSE 0
      [] name = "quotd"   -> IF p = 17 THEN 90 ELSE 0
      [] OTHER            -> 1

(* In the order they are registered; of equal scores the first.            *)
is_udp_supported_handler == <<"dns", "tftp", "quic", "snmp", "sip", "upnp", "ntp", "coap", "daytime",
                              "time", "chargen", "quotd", "syslogrecv", "raw">>
Best(d, p) ==
    LET scored == {[at |-> i, name |-> is_udp_supported_handler[i],
                    score |-> udp_taste(is_udp_supported_handler[i], d, p)] :
                      i \in DOMAIN is_udp_supported_handler}
    IN  CHOOSE b \in scored : \A c \in scored \ {b} :
            c.score < b.score \/ (c.score = b.score /\ b.at < c.at)
udp_default_or(b) ==
    IF b.score > 1 \/ default_udp = "" THEN b
    ELSE IF \E i \in DOMAIN is_udp_supported_handler : is_udp_supported_handler[i] = default_udp
    THEN [name |-> default_udp, score |-> 0] ELSE [name |-> "", score |-> 0]
route_udp(d, p) == CHOOSE r \in {udp_default_or(b) : b \in {Best(d, p)}} : TRUE
==============================================================================
