---------------------------- MODULE MCTransfers ----------------------------
(***************************************************************************)
(* An instance of the UDP listener and one of the FTP service.  They share *)
(* nothing, so a behaviour is one of either (part): the other one is idle. *)
(***************************************************************************)
EXTENDS UdpListener, Ftp

VARIABLE part
allVars == <<part, vars, ftpVars>>

FtpIdle ==
    /\ conn = [c \in Clients |-> "closed"] /\ reads = [c \in Clients |-> 0]
    /\ queue = [c \in Clients |-> <<>>] /\ resp = [c \in Clients |-> <<>>]
    /\ passive = [c \in Clients |-> NoData] /\ busy = [c \in Clients |-> "none"]
    /\ permits = MAX_FTP_PASSIVE_TRANSFERS
    /\ asked = [c \in Clients |-> <<>>] /\ written = [c \in Clients |-> <<>>]

MCInit == \/ part = "udp" /\ Init /\ FtpIdle
          \/ part = "ftp" /\ FtpInit /\ Init /\ in = <<>> /\ lis = CHOOSE l \in UdpListeners : TRUE
MCNext == \/ part = "udp" /\ Next /\ UNCHANGED <<part, ftpVars>>
          \/ part = "ftp" /\ FtpNext /\ UNCHANGED <<part, vars>>
MCSpec == MCInit /\ [][MCNext]_allVars /\ Fairness /\ FtpFairness

------------------------------------------------------------------------------
(* The UDP side: three hosts, one of them outside the network that is      *)
(* allowed, datagrams of every service that is answered, right and wrong.  *)
Host(net, host) == [net |-> net, host |-> host, mapped |-> FALSE]
alice == Host("lan", "alice")
bob   == Host("lan", "bob")
Mapped(a) == [a EXCEPT !.mapped = TRUE]
eve   == Host("wan", "eve")

MCDnsConfig == [nxdomains |-> 1, wildcard |-> FALSE, default_ip |-> "v4", default_mx |-> "", default_txt |-> ""]
Query(kind, domain, qtype) ==
    [k |-> "dns", f |-> [counts |-> <<1, 0, 0, 0>>, opt |-> "none", extra |-> FALSE, kind |-> kind,
                         domain |-> domain, qtype |-> qtype]]
Edns(opt, extra) == [Query("query", <<"a">>, "A") EXCEPT !.f.counts[4] = IF opt = "none" THEN 0 ELSE 1,
                                                         !.f.opt = opt, !.f.extra = extra]
Short(n) == [long |-> FALSE, n |-> 0, zero |-> FALSE, v |-> n]
Long(n, v) == [long |-> TRUE, n |-> n, zero |-> FALSE, v |-> v]
Num(octets, zero) == [octets |-> octets, neg |-> FALSE, padded |-> FALSE, zero |-> zero]
Snmp(size, len, tag, community, status) ==
    [k |-> "snmp", f |-> [size |-> size, len |-> len, version |-> 1, community |-> community, tag |-> tag,
                          id |-> Num(2, FALSE), status |-> status, index |-> Num(1, TRUE), varbinds |-> TRUE]]
H(name, v, n) == [name |-> name, v |-> v, n |-> n]
Text(k, method, target, version, headers, body) ==
    [k |-> k, f |-> [start |-> "request", method |-> method, target |-> target, version |-> version,
                     headers |-> headers, ended |-> TRUE, lines |-> "crlf", toolong |-> FALSE, body |-> body]]
SipHead(method) == <<H("v", "hop", -1), H("From", "a", -1), H("To", "b", -1), H("i", "id", -1),
                     H("CSeq", method, 1)>>
Search == <<H("HOST", "239.255.255.250:1900", -1), H("MAN", "ssdp:discover", -1), H("MX", "2", 2),
            H("ST", "ssdp:all", -1)>>
Ntp(size, mode) == [k |-> "ntp", f |-> [size |-> size, version |-> 4, mode |-> mode]]
Coap(type, tkl, class, detail, rest) ==
    [k |-> "coap", f |-> [version |-> 1, type |-> type, tkl |-> tkl, token |-> TRUE, class |-> class,
                          detail |-> detail, rest |-> rest]]
Quic(type, dcid, payload) ==
    [k |-> "quic", f |-> [size |-> 60, long |-> TRUE, fixed |-> TRUE, version |-> 1, type |-> type,
                          dcid |-> dcid, scid |-> 0, token |-> 0, payload |-> payload, pn |-> 1, sni |-> "host"]]
Syslog(pri, n, tail, stamp) ==
    [k |-> "syslog", f |-> [size |-> 40, ending |-> "crlf", inner |-> "ok", pri |-> pri, n |-> n, tail |-> tail,
                            stamp |-> stamp]]
Tftp(opcode, filename) ==
    [k |-> "tftp", f |-> [opcode |-> opcode, mode |-> "octet", filename |-> filename, options |-> "none"]]

MCData == <<
    Query("query", <<"a">>, "A"),
    Query("query", NCSI, "A"),
    Query("query", <<"a">>, "MX"),
    Query("garbled", <<"a">>, "A"),
    Snmp(39, Short(37), "get", 6, Num(1, TRUE)),
    Snmp(200, Long(1, 197), "get", 130, Num(1, TRUE)),
    Snmp(39, Short(36), "get", 6, Num(1, TRUE)),
    Snmp(39, Short(37), "getbulk", 6, Num(1, FALSE)),
    Text("sip", "INVITE", "b", "SIP/2.0", SipHead("INVITE"), 0),
    Text("sip", "OPTIONS", "b", "SIP/2.0", SipHead("INVITE"), 0),
    Text("sip", "PUBLISH", "b", "SIP/2.0", SipHead("PUBLISH") \o <<H("l", "3", 3)>>, 3),
    Text("ssdp", "M-SEARCH", "*", "HTTP/1.1", Search, 0),
    Text("ssdp", "M-SEARCH", "*", "HTTP/1.0", Search, 0),
    Ntp(48, 3), Ntp(50, 3),
    Coap(0, 0, 0, 0, <<>>),
    Coap(1, 2, 0, 5, <<209, 3, 7, 255, 1>>),
    Coap(0, 0, 0, 1, <<255>>),
    Quic(0, 8, 40), Quic(0, 21, 40),
    Syslog("number", 191, TRUE, TRUE), Syslog("number", 199, TRUE, TRUE), Syslog("none", -1, TRUE, TRUE),
    Tftp(1, "safe"),
    [k |-> "noise", f |-> <<>>],
    Edns("opt", FALSE), Edns("empty", FALSE), Edns("opt", TRUE), Edns("none", TRUE) >>

Datum(src, ip, x) == [src |-> src, ip |-> ip, port |-> 53, data |-> x]
MCTraffic ==
    {<<Datum(alice, "v4", x)>> : x \in DOMAIN MCData}
    \cup {<<>>, <<Datum(alice, "multicast", 12)>>, <<Datum(eve, "v4", 1)>>, <<Datum(alice, "name", 1)>>,
          <<Datum(alice, "v4", 1), [Datum(alice, "v4", 3) EXCEPT !.port = 54]>>,
          <<Datum(alice, "v4", 1), Datum(alice, "v4", 1), Datum(alice, "v4", 3)>>,
          <<Datum(alice, "v4", 1), Datum(Mapped(bob), "v4", 1), Datum(bob, "v4", 3)>>}
Rule(source, port, p, outcome) ==
    [listener |-> "", protocol |-> "", source_host |-> source, destination_host |-> "",
     destination_port |-> port, process_name |-> p, decision |-> outcome]
Listener(name, port, default, rules, emulate) ==
    [name |-> name, port |-> port, default |-> default, rules |-> rules, emulate |-> emulate]
MCUdpListeners == {
    Listener("dns", 53, "emulate", <<>>, TRUE),
    Listener("any", 9999, "emulate", <<
        Rule(to_string(bob), 0, "", "block"), Rule(AnyHost, 0, "tool", "sinkhole"),
        Rule(to_string(bob), 0, "", "pass"), Rule(AnyHost, 54, "", "block")>>, TRUE),
    Listener("any", 9999, "emulate", <<Rule(to_string(Mapped(bob)), 0, "", "block")>>, FALSE) }
MCEmpty == <<>>
MCHostWhitelist == << [kind |-> "cidr", net |-> "lan"] >>
MCFilter == [global_whitelist |-> <<>>, global_blacklist |-> <<{"agent"}>>, whitelist |-> <<>>, blacklist |-> <<>>]

------------------------------------------------------------------------------
(* The FTP side.                                                           *)
Command(verb, arg) == [verb |-> verb, arg |-> arg]
MCCommands == {Command("PASV", "none"), Command("PORT", "own"), Command("PORT", "other"),
               Command("RETR", "file"), Command("ABOR", "none"), Command("QUIT", "none")}

(* The code that reads or writes a datagram agrees with the code on the    *)
(* other side: a detected datagram is answered by its handler, the lengths *)
(* of an SNMP reply parse, a syslog priority is in its range.              *)
DatagramsUnderstood == UdpDetectionAgrees /\ SnmpReplyParses /\ SyslogInRange

(* Every task of a datagram ends, and every FTP transfer ends and gives    *)
(* its permit back: each of their waits has a timeout.                     *)
WorkEnds == TasksEnd /\ PermitsReturn
=============================================================================
