----------------------------- MODULE UdpListener -----------------------------
(***************************************************************************)
(* The UDP listener (listeners/udp_listener.rs): the receive loop, the     *)
(* task of each datagram from the filters to the answer, and what the      *)
(* tasks share: the DNS handler, the session table, the permits and the    *)
(* slots for commands.  Module ListenerSessions opens up the session table *)
(* and the destinations, module Tftp the transfers.                        *)
(***************************************************************************)
EXTENDS UdpServices

-----------------------------------------------------------------------------
(***************************************************************************)
(* What decides whether and how traffic is served: the host filter         *)
(* (host_filter.rs), the process filter (process_filter.rs), the flow      *)
(* policy (nettrap-engine/src/policy.rs) and the command run for a new     *)
(* session (execute.rs).                                                   *)
(*                                                                         *)
(* An address is [net, host, mapped]: mapped when it is an IPv4 address in *)
(* IPv6 clothes.  A process pattern is the set of names it matches.        *)
(***************************************************************************)

(* A rule is [kind, net, host, addresses].                                 *)
host_ip_candidates(a) == {a, [a EXCEPT !.mapped = ~@]}
HostRuleMatches(rule, a) ==
    CASE rule.kind = "ip"   -> \E c \in host_ip_candidates(a) :
                                   c = [net |-> rule.net, host |-> rule.host, mapped |-> FALSE]
      [] rule.kind = "cidr" -> \E c \in host_ip_candidates(a) : c.net = rule.net /\ ~c.mapped
      [] rule.kind = "name" -> host_ip_candidates(a) \cap rule.addresses # {}
is_host_allowed_with_rules(a, whitelist, blacklist) ==
    /\ whitelist # <<>> => \E i \in DOMAIN whitelist : HostRuleMatches(whitelist[i], a)
    /\ \A i \in DOMAIN blacklist : ~HostRuleMatches(blacklist[i], a)

(* Both the global lists and those of the listener have to agree.          *)
Matched(patterns, name) == \E i \in DOMAIN patterns : name \in patterns[i]
is_process_allowed(filter, name) ==
    /\ filter.global_whitelist # <<>> => Matched(filter.global_whitelist, name)
    /\ ~Matched(filter.global_blacklist, name)
    /\ filter.whitelist # <<>> => Matched(filter.whitelist, name)
    /\ ~Matched(filter.blacklist, name)

(* A flow rule names what it asks for; "", AnyHost or port 0 asks for      *)
(* nothing.  Texts are compared, so a host has two: its address as such    *)
(* and in IPv6 clothes.  The first rule that matches decides, else the     *)
(* default: emulation becomes capture on a listener that is not to answer. *)
to_string(a) == [host |-> a.host, mapped |-> a.mapped]
AnyHost == [host |-> "", mapped |-> FALSE]
RuleMatches(rule, context) ==
    /\ \A field \in {"listener", "protocol", "destination_host", "process_name"} :
          rule[field] \in {"", context[field]}
    /\ rule.source_host \in {AnyHost, context.source_host}
    /\ rule.destination_port \in {0, context.destination_port}
default_resolve(default, emulate_response) ==
    IF default = "emulate" /\ ~emulate_response THEN "capture" ELSE default
(* Mutant: the last matching rule decides.                                 *)
resolve_for_context_last(default, rules, context, emulate_response) ==
    LET hits == {i \in DOMAIN rules : RuleMatches(rules[i], context)}
    IN  IF hits = {} THEN default_resolve(default, emulate_response)
        ELSE rules[CHOOSE i \in hits : \A j \in hits : j <= i].decision
resolve_for_context(default, rules, context, emulate_response) ==
    LET hits == {i \in DOMAIN rules : RuleMatches(rules[i], context)}
    IN  IF hits = {} THEN default_resolve(default, emulate_response)
        ELSE rules[CHOOSE i \in hits : \A j \in hits : i <= j].decision

-----------------------------------------------------------------------------
CONSTANTS Traffic,             \* sequences of datagrams, records [src, ip, port, data]
          Data,                \* Data[x]: the datagram x, a record [k, f]
          UdpListeners,        \* records [name, port, default, rules, emulate]
          HostWhitelist, HostBlacklist, Filter, Processes,
          MaxTasks,            \* permits of udp_semaphore: 1024 in the code
          MAX_ACTIVE_COMMANDS,
          MaxExpiries          \* bound: how often a session expires

Decisions == {"pass", "capture", "sinkhole", "block", "emulate"}    \* FlowDecision

ASSUME UdpAssumption ==
    /\ \A t \in Traffic : Len(t) \in Nat /\ DOMAIN t = 1 .. Len(t)
    /\ \A l \in UdpListeners :
          /\ l.default \in Decisions /\ Len(l.rules) \in Nat /\ DOMAIN l.rules = 1 .. Len(l.rules)
          /\ \A i \in DOMAIN l.rules : l.rules[i].decision \in Decisions
    /\ DnsConfig.nxdomains \in Nat
    /\ MaxTasks \in Nat /\ MAX_ACTIVE_COMMANDS \in Nat /\ MaxExpiries \in Nat

VARIABLES lis, in,    \* the listener and the traffic, chosen at the start
          pc,         \* per datagram: "new", "filter", "decide", "forward", "answer", "done"
          isnew,      \* datagrams that registered their session
          sessions,   \* keys of the session table
          process,    \* the process noted for each session, "" for none
          dns,        \* the DNS handler's state
          decision,   \* what was decided for each datagram
          answer,     \* the answer chosen for it
          sent,       \* datagrams whose answer went out
          counted,    \* totals of update_session_bytes, in datagrams: [in, out]
          recorded,   \* datagrams with an event
          captured,   \* datagrams in the PCAP file
          fired,      \* commands started for each session
          commands,   \* ACTIVE_COMMANDS
          opened,     \* how often each session was registered (history)
          expiries
vars == <<lis, in, pc, isnew, sessions, process, dns, decision, answer, sent, counted, recorded,
          captured, fired, commands, opened, expiries>>

(* SessionTracker::session_key: the source out of its IPv6 clothes.        *)
session_key(x) == [src |-> [x.src EXCEPT !.mapped = FALSE], ip |-> x.ip, port |-> x.port]
Key(d)   == session_key(in[d])
AllKeys  == UNION {{session_key(t[i]) : i \in DOMAIN t} : t \in Traffic}
Datagrams == UNION {DOMAIN t : t \in Traffic}
Running  == {d \in Datagrams : pc[d] \notin {"new", "done"}}
Goto(d, label) == pc' = [pc EXCEPT ![d] = label]

Init ==
    /\ lis \in UdpListeners /\ in \in Traffic
    /\ pc = [d \in Datagrams |-> IF d \in DOMAIN in THEN "new" ELSE "done"] /\ isnew = {} /\ sessions = {}
    /\ process = [k \in AllKeys |-> ""]
    /\ dns = DnsNew(<<>>)
    /\ decision = [d \in Datagrams |-> ""] /\ answer = [d \in Datagrams |-> ""]
    /\ sent = {} /\ counted = [k \in AllKeys |-> [in |-> 0, out |-> 0]]
    /\ recorded = {} /\ captured = {}
    /\ fired = [k \in AllKeys |-> 0] /\ commands = 0
    /\ opened = [k \in AllKeys |-> 0] /\ expiries = 0

------------------------------------------------------------------------------
(* The receive loop: the host filter, the session, then a permit or the    *)
(* datagram is dropped, its session registered all the same.               *)
Register(d) ==
    /\ isnew' = IF Key(d) \in sessions THEN isnew ELSE isnew \cup {d}
    /\ opened' = IF Key(d) \in sessions THEN opened ELSE [opened EXCEPT ![Key(d)] = @ + 1]
    /\ sessions' = sessions \cup {Key(d)}
(* Mutant: one task too many.                                              *)
HasPermit_one_more == Cardinality(Running) <= MaxTasks
HasPermit == Cardinality(Running) < MaxTasks
recv_udp_packet(d) ==
    /\ pc[d] = "new"
    /\ IF ~is_host_allowed_with_rules(in[d].src, HostWhitelist, HostBlacklist)
       THEN Goto(d, "done") /\ UNCHANGED <<isnew, sessions, opened>>
       ELSE Register(d) /\ Goto(d, IF HasPermit THEN "filter" ELSE "done")
    /\ UNCHANGED <<lis, in, process, dns, decision, answer, sent, counted, recorded, captured,
                   fired, commands, expiries>>

(* SessionTracker::cleanup_expired_keys, which any use of the table runs.  *)
SessionExpires(k) ==
    /\ k \in sessions /\ expiries < MaxExpiries
    /\ sessions' = sessions \ {k} /\ process' = [process EXCEPT ![k] = ""]
    /\ expiries' = expiries + 1
    /\ UNCHANGED <<lis, in, pc, isnew, dns, decision, answer, sent, counted, recorded, captured,
                   fired, commands, opened>>

(* Attribution finds the process and notes it for the session, or finds    *)
(* none or takes too long: then the datagram passes.                       *)
apply_udp_process_filter(d) ==
    /\ pc[d] = "filter"
    /\ \/ Goto(d, "decide") /\ UNCHANGED process
       \/ \E p \in Processes :
            /\ process' = IF Key(d) \in sessions THEN [process EXCEPT ![Key(d)] = p] ELSE process
            /\ Goto(d, IF is_process_allowed(Filter, p) THEN "decide" ELSE "done")
    /\ UNCHANGED <<lis, in, isnew, sessions, dns, decision, answer, sent, counted, recorded,
                   captured, fired, commands, opened, expiries>>

(* fire_execute_cmd_for_session, only for the datagram that registered the *)
(* session; no more than a limit of commands at once.                      *)
(* Mutant: every datagram runs the command.                                *)
FireIfNew_each(d, run) ==
    IF run /\ commands < MAX_ACTIVE_COMMANDS
    THEN fired' = [fired EXCEPT ![Key(d)] = @ + 1] /\ commands' = commands + 1
    ELSE UNCHANGED <<fired, commands>>
FireIfNew(d, run) ==
    IF run /\ d \in isnew /\ commands < MAX_ACTIVE_COMMANDS
    THEN fired' = [fired EXCEPT ![Key(d)] = @ + 1] /\ commands' = commands + 1
    ELSE UNCHANGED <<fired, commands>>
CommandEnds ==
    /\ commands > 0 /\ commands' = commands - 1
    /\ UNCHANGED <<lis, in, pc, isnew, sessions, process, dns, decision, answer, sent, counted,
                   recorded, captured, fired, opened, expiries>>

(* Mutant: only the answer is counted.                                     *)
update_session_bytes_out(d, bytes_in, bytes_out) ==
    counted' = [counted EXCEPT ![Key(d)].out = @ + bytes_out]
update_session_bytes(d, bytes_in, bytes_out) ==
    counted' = [counted EXCEPT ![Key(d)] = [in |-> @.in + bytes_in, out |-> @.out + bytes_out]]

------------------------------------------------------------------------------
(* The handlers: h = [dns, answer, event, count].                          *)
Result(s, a, event, count) == [dns |-> s, answer |-> a, event |-> event, count |-> count]
handle_dns(s, x, r) ==
    IF r.rcode = "err" THEN Result(s, "", FALSE, TRUE)
    ELSE Result(r.s, r.rcode, parse_query_summary(x.f), TRUE)
handle_udp_generic(s, a) == Result(s, a, TRUE, TRUE)
handle_upnp_udp(s, x, ip) ==
    IF safe_listen_host(ip) THEN handle_udp_generic(s, handle_ssdp(x)) ELSE Result(s, "", FALSE, FALSE)
handle_raw_udp(s, x) == handle_udp_generic(s, from_custom_response(CustomResponse))
handle_unclassified_udp(s) == Result(s, "", TRUE, TRUE)

(* A listener's name may stand for a protocol; then nothing is detected.   *)
canonical_udp_protocol_alias(name) ==
    CASE name = "echo" -> "raw" [] name = "qotd" -> "quotd" [] OTHER -> name
explicit_udp_protocol_name(name) ==
    \E i \in DOMAIN is_udp_supported_handler :
        is_udp_supported_handler[i] = canonical_udp_protocol_alias(name)
handle_explicit_udp_protocol(name, s, x, ip) ==
    CASE name = "dns"  -> IF Is(x, "dns") THEN handle_dns(s, x, handle_query(s, x.f))
                          ELSE Result(s, "", FALSE, TRUE)
      [] name = "snmp" -> handle_udp_generic(s, SnmpHandle(x))
      [] name = "sip"  -> handle_udp_generic(s, SipHandle(x))
      [] name = "upnp" -> handle_upnp_udp(s, x, ip)
      [] name = "ntp"  -> handle_udp_generic(s, NtpHandle(x))
      [] name = "coap" -> handle_udp_generic(s, CoapHandle(x))
      [] name \in {"quic", "syslogrecv"} -> handle_udp_generic(s, "")
      [] name = "raw"  -> handle_raw_udp(s, x)
      [] name = ""     -> handle_unclassified_udp(s)
      [] OTHER         -> handle_udp_generic(s, name)     \* daytime, time, chargen, quotd, tftp
(* The router's choice if it is sure enough.                               *)
sure(b) == b.score >= 50 \/ b.name \in {default_udp, "raw"}
handle_detected_udp(x, p) ==
    CHOOSE name \in {IF sure(b) THEN b.name ELSE "" : b \in {route_udp(x, p)}} : TRUE
ProtocolOf(l, x) == IF explicit_udp_protocol_name(l.name) THEN canonical_udp_protocol_alias(l.name)
                    ELSE handle_detected_udp(x, l.port)

Context(d) == [listener |-> lis.name, protocol |-> "udp", source_host |-> to_string(in[d].src),
               destination_host |-> in[d].ip, destination_port |-> in[d].port,
               process_name |-> process[Key(d)]]

(* The task after the filters, up to its next wait: the decision, and for  *)
(* an emulated datagram the handler, which has its answer before the delay. *)
Decide(d) ==
    /\ pc[d] = "decide"
    /\ \E c \in {resolve_for_context(lis.default, lis.rules, Context(d), lis.emulate)} :
        /\ decision' = [decision EXCEPT ![d] = c]
        /\ captured' = IF c \in {"sinkhole", "emulate"} THEN captured \cup {d} ELSE captured
        /\ IF c = "sinkhole" THEN update_session_bytes(d, 1, 0) ELSE UNCHANGED counted
        /\ Goto(d, CASE c \in {"pass", "capture"} -> "forward" [] c = "emulate" -> "answer" [] OTHER -> "done")
        /\ FireIfNew(d, c = "sinkhole")
        /\ IF c # "emulate" THEN UNCHANGED <<dns, answer, recorded>>
           ELSE \E x \in {Data[in[d].data]} : \E name \in {ProtocolOf(lis, x)} :
                \E h \in {handle_explicit_udp_protocol(name, dns, x, in[d].ip)} :
                /\ dns' = h.dns
                /\ answer' = [answer EXCEPT ![d] = IF h.count THEN h.answer ELSE "silent"]
                /\ recorded' = IF h.event THEN recorded \cup {d} ELSE recorded
    /\ UNCHANGED <<lis, in, isnew, sessions, process, sent, opened, expiries>>

(* The answer after the delay; the send may fail.                          *)
Answer(d, ok) ==
    /\ pc[d] = "answer"
    /\ ok => answer[d] \notin {"", "silent"}
    /\ sent' = IF ok THEN sent \cup {d} ELSE sent
    /\ IF answer[d] = "silent" THEN UNCHANGED counted
       ELSE update_session_bytes(d, 1, IF ok THEN 1 ELSE 0)
    /\ FireIfNew(d, TRUE)
    /\ Goto(d, "done")
    /\ UNCHANGED <<lis, in, isnew, sessions, process, dns, decision, answer, recorded, captured,
                   opened, expiries>>

(* forward_udp_datagram: the real destination answers in time or not.  The *)
(* capture has both directions before the answer is passed on.             *)
resolve_udp_forward_target(ip) == ip \in {"v4", "v6", "mapped", "loopback"}
(* Mutant: the wait for the real destination has no timeout.               *)
ForwardEnds_untimed(d, answered) == answered /\ resolve_udp_forward_target(in[d].ip)
ForwardEnds(d, answered) == answered => resolve_udp_forward_target(in[d].ip)
forward_udp_datagram(d, answered, ok) ==
    /\ pc[d] = "forward" /\ ForwardEnds(d, answered)
    /\ ok => answered
    /\ captured' = IF answered /\ decision[d] = "capture" THEN captured \cup {d} ELSE captured
    /\ sent' = IF ok THEN sent \cup {d} ELSE sent
    /\ IF ok THEN update_session_bytes(d, 1, 1) ELSE UNCHANGED counted
    /\ FireIfNew(d, TRUE)
    /\ Goto(d, "done")
    /\ UNCHANGED <<lis, in, isnew, sessions, process, dns, decision, answer, recorded, opened,
                   expiries>>

Next ==
    \/ \E d \in Datagrams :
         \/ recv_udp_packet(d) \/ apply_udp_process_filter(d) \/ Decide(d)
         \/ \E ok \in BOOLEAN : Answer(d, ok)
         \/ \E answered, ok \in BOOLEAN : forward_udp_datagram(d, answered, ok)
    \/ \E k \in AllKeys : SessionExpires(k)
    \/ CommandEnds

(* A task runs on: its waits have timeouts (attribution, forwarding), the  *)
(* delay ends, a datagram is sent or refused at once.                      *)
TaskStep(d) == \/ apply_udp_process_filter(d) \/ Decide(d) \/ \E ok \in BOOLEAN : Answer(d, ok)
               \/ \E answered, ok \in BOOLEAN : forward_udp_datagram(d, answered, ok)
Fairness == \A d \in Datagrams : WF_vars(TaskStep(d))
Spec == Init /\ [][Next]_vars /\ Fairness

------------------------------------------------------------------------------
(* Properties                                                              *)

Served(d) == pc[d] = "done" /\ decision[d] # ""
Counts(d) == \/ decision[d] = "sinkhole"
             \/ decision[d] = "emulate" /\ answer[d] # "silent"
             \/ decision[d] \in {"pass", "capture"} /\ d \in sent

(* The types; and the permits and command slots in use stay within their   *)
(* limits.                                                                 *)
TypeOK ==
    /\ isnew \subseteq Datagrams /\ sessions \subseteq AllKeys
    /\ process \in [AllKeys -> Processes \cup {""}]
    /\ dns.nxdomains_count \in 0 .. DnsConfig.nxdomains
    /\ decision \in [Datagrams -> Decisions \cup {""}]
    /\ sent \subseteq Datagrams /\ recorded \subseteq captured
    /\ commands \in 0 .. MAX_ACTIVE_COMMANDS
    /\ Cardinality(Running) <= MaxTasks

(* Number of initial DNS queries answered as NXDOMAIN (nxdomains): over    *)
(* UDP one handler serves every task, so it is exactly that many of the    *)
(* address queries handled, whichever tasks run at once; all of the first  *)
(* ones, and none once a real answer has been given.                       *)
NxdomainsExact ==
    LET asked == {d \in DOMAIN in : /\ answer[d] \in {"NXDomain", "NoError"}
                                    /\ Data[in[d].data].f.qtype = "A"
                                    /\ Data[in[d].data].f.domain # NCSI}
        gone  == {d \in asked : answer[d] = "NXDomain"}
    IN  Cardinality(gone) = IF Cardinality(asked) < DnsConfig.nxdomains
                            THEN Cardinality(asked) ELSE DnsConfig.nxdomains

(* When no task runs, a session's totals are those of its datagrams that   *)
(* were sinkholed, emulated or forwarded with success, each once: nothing  *)
(* is counted for one that was blocked, dropped or lost on the way to its  *)
(* real destination, nor for a search the UPnP service could not answer    *)
(* because of the address it was sent to.                                  *)
CountedOnce ==
    Running = {} =>
      \A k \in AllKeys :
        LET mine == {d \in DOMAIN in : Served(d) /\ Key(d) = k}
        IN  /\ counted[k].in = Cardinality({d \in mine : Counts(d)})
            /\ counted[k].out = Cardinality(mine \cap sent)

(* The command runs at most once for each time the session was registered, *)
(* however many of its datagrams are served at once; with a free slot and  *)
(* no session lost to the filters it runs exactly once.                    *)
CommandOncePerSession ==
    \A k \in AllKeys :
        /\ fired[k] <= opened[k]
        /\ (Running = {} /\ MAX_ACTIVE_COMMANDS >= Len(in)) =>
             fired[k] = Cardinality({d \in isnew : Key(d) = k /\ Served(d) /\ decision[d] # "block"})

(* What the policy keeps in is kept in: only an emulated or forwarded      *)
(* datagram is ever answered, and one that a rule for the text of its own  *)
(* source blocks or sinks is not, whatever later rules say.  Unlike the    *)
(* host filter, a rule for an IPv4 address does not reach the same host    *)
(* where its address arrives mapped into IPv6: that is another text.       *)
PolicyContains ==
    \A d \in DOMAIN in :
        /\ d \in sent => decision[d] \in {"pass", "capture", "emulate"}
        /\ \A i \in DOMAIN lis.rules :
             (/\ lis.rules[i].source_host = to_string(in[d].src) /\ lis.rules[i].destination_port = 0
              /\ lis.rules[i].decision \in {"block", "sinkhole"}
              /\ \A field \in {"listener", "protocol", "destination_host", "process_name"} :
                    lis.rules[i][field] = ""
              /\ \A j \in 1 .. i - 1 : lis.rules[j].decision \in {"block", "sinkhole"})
             => d \notin sent

(* What is counted of datagrams is what they did, with their tasks         *)
(* interleaved: bytes once, one command per session, as many NXDOMAIN      *)
(* answers as configured, and nothing the policy or a filter refuses is    *)
(* answered (run_udp_listener_with_flow_policy).                           *)
DatagramsAccounted ==
    TypeOK /\ NxdomainsExact /\ CountedOnce /\ CommandOncePerSession /\ PolicyContains

(* A datagram that a service answers on its own listener is taken to it on *)
(* a listener that detects; except what the taster refuses and the handler *)
(* takes: SSDP over HTTP/1.0, and a DNS query with bytes after its last    *)
(* record or an OPT record that leaves no room for a payload.              *)
Answers(name, x) == handle_explicit_udp_protocol(name, DnsNew(<<>>), x, "v4").answer
UdpDetectionAgrees ==
    \A d \in DOMAIN in : pc[d] = "decide" => \E x \in {Data[in[d].data]} :
        \A name \in {"dns", "snmp", "sip", "upnp", "ntp", "coap"} :
            Answers(name, x) # "" =>
                \/ handle_detected_udp(x, 9999) = name
                \/ name = "upnp" /\ x.f.version = "HTTP/1.0"
                \/ name = "dns" /\ (x.f.extra \/ (x.f.counts[4] = 1 /\ x.f.opt = "empty"))

(* The nested lengths of an SNMP response are what a parser like the       *)
(* service's own reads, for every community the service accepts.           *)
SnmpReplyParses ==
    \A d \in DOMAIN in : answer[d] = "get response" =>
        \E x \in {Data[in[d].data]} :
            \E r \in {build_get_response(x.f)} :
                /\ parse_len(r.community) = x.f.community
                /\ parse_len(r.message) = 3 + Sized(x.f.community) + Sized(parse_len(r.pdu))

(* The facility and severity of a syslog message index their tables.       *)
SyslogInRange ==
    \A d \in recorded : \E r \in {SyslogHandle(Data[in[d].data])} :
        r = <<>> \/ (r[1] \in 0 .. 23 /\ r[2] \in 0 .. 7)

(* Every task ends and gives its permit back.                              *)
TasksEnd == \A d \in Datagrams : pc[d] = "filter" ~> pc[d] = "done"
==============================================================================
