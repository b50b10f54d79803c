-------------------------------- MODULE Dns --------------------------------
(***************************************************************************)
(* The DNS service: nettrap-proto-dns's DnsHandler.  A query's fields are  *)
(* [counts, opt, extra, kind, domain, qtype]; a domain is a sequence of    *)
(* labels, opt the additional record ("none", "opt", or "empty": an OPT    *)
(* record that leaves no room for a payload), extra whether bytes follow   *)
(* the last record: the library's parser, which is external, reads no      *)
(* further.                                                                *)
(* The handler's own state is the number of NXDOMAIN answers it has given  *)
(* and its table of custom responses.                                      *)
(***************************************************************************)
EXTENDS Naturals, Sequences, FiniteSets

CONSTANTS DnsConfig,   \* [nxdomains, wildcard, default_ip, default_mx, default_txt]
          MAX_DNS_CUSTOM_RESPONSE_DOMAINS,
          MAX_DNS_CUSTOM_RESPONSE_IPS

DnsNew(custom) == [nxdomains_count |-> 0, custom |-> custom]

------------------------------------------------------------------------------
(* Which messages are queries the service answers: one question, no other  *)
(* records but an EDNS one.                                                *)
has_only_edns_additional(q) == q.counts[4] = 0 \/ q.opt # "none"
safe_message_from_vec(q) ==
    /\ q.counts[1] = 1 /\ q.counts[2] = 0 /\ q.counts[3] = 0 /\ q.counts[4] <= 1
    /\ has_only_edns_additional(q)
    /\ q.kind # "garbled"
parse_query_summary(q) == safe_message_from_vec(q) /\ q.kind = "query"

------------------------------------------------------------------------------
(* The custom responses: a function from patterns to sequences of          *)
(* addresses ("v4", "v6", "mapped", "special", "bad").                     *)
is_usable_dns_response_ip(ip) == ip \in {"v4", "v6", "mapped"}
canonical_dns_response_ip(ip) == IF ip = "mapped" THEN "v4" ELSE ip
normalize_domain_key(d) == IF \E i \in DOMAIN d : d[i] = "bad" THEN <<>> ELSE d
add_custom_response(custom, domain, ips) ==
    LET key == normalize_domain_key(domain)
    IN  IF \/ key = <<>> \/ ips = <<>> \/ Len(ips) > MAX_DNS_CUSTOM_RESPONSE_IPS
           \/ \E i \in DOMAIN ips : ~is_usable_dns_response_ip(ips[i])
           \/ key \notin DOMAIN custom
              /\ Cardinality(DOMAIN custom) >= MAX_DNS_CUSTOM_RESPONSE_DOMAINS
        THEN custom
        ELSE [k \in DOMAIN custom \cup {key} |->
                IF k = key THEN [i \in DOMAIN ips |-> canonical_dns_response_ip(ips[i])]
                ELSE custom[k]]
remove_custom_response(custom, domain) ==
    [k \in DOMAIN custom \ {normalize_domain_key(domain)} |-> custom[k]]

(* A '*' matches one label; the fewer of them the better the match, and of *)
(* two equally good the one that sorts first (LabelOrder).                 *)
LabelOrder(l) == CHOOSE i \in 1 .. 4 : <<"*", "a", "b", "c">>[i] = l
Before(p, q) == \E i \in DOMAIN p : /\ p[i] # q[i] /\ LabelOrder(p[i]) < LabelOrder(q[i])
                                    /\ \A j \in 1 .. i - 1 : p[j] = q[j]
Wildcards(p) == Cardinality({i \in DOMAIN p : p[i] = "*"})
wildcard_domain_match_score(p, d) ==
    IF Len(p) = Len(d) /\ \A i \in DOMAIN p : p[i] \in {"*", d[i]} THEN Wildcards(p) ELSE 0
custom_response_for_domain(custom, domain) ==
    LET d == normalize_domain_key(domain)
        M == {p \in DOMAIN custom : wildcard_domain_match_score(p, d) > 0}
        best == CHOOSE p \in M : \A q \in M \ {p} :
                   \/ Wildcards(p) < Wildcards(q)
                   \/ Wildcards(p) = Wildcards(q) /\ Before(p, q)
    IN  IF d = <<>> THEN <<>>
        ELSE IF d \in DOMAIN custom THEN custom[d]
        ELSE IF M = {} THEN <<>> ELSE custom[best]

------------------------------------------------------------------------------
(* Records of each type: custom addresses first (A and AAAA only, and only *)
(* those of the family asked for), then the configured default, then the   *)
(* wildcard.                                                               *)
Addresses(custom, domain, family, wildcard) ==
    LET mine == custom_response_for_domain(custom, domain)
        ips  == IF mine # <<>> THEN mine
                ELSE IF DnsConfig.default_ip # "" THEN <<DnsConfig.default_ip>>
                ELSE IF DnsConfig.wildcard THEN <<wildcard>> ELSE <<>>
    IN  SelectSeq(ips, LAMBDA ip : ip = family)
build_a_records(custom, domain)    == Addresses(custom, domain, "v4", "v4")
build_aaaa_records(custom, domain) == Addresses(custom, domain, "v6", "v6")
Configured(value, wildcard) ==
    IF value # "" THEN <<value>> ELSE IF DnsConfig.wildcard THEN <<wildcard>> ELSE <<>>
build_mx_records  == Configured(DnsConfig.default_mx, "mail")
build_txt_records == Configured(DnsConfig.default_txt, "spf")
build_ns_records    == IF DnsConfig.wildcard THEN <<"ns1", "ns2">> ELSE <<>>
build_cname_records == IF DnsConfig.wildcard THEN <<"nettrap.local">> ELSE <<>>
build_soa_records   == IF DnsConfig.wildcard THEN <<"soa">> ELSE <<>>
build_response(custom, q) ==
    CASE q.qtype = "A"     -> build_a_records(custom, q.domain)
      [] q.qtype = "AAAA"  -> build_aaaa_records(custom, q.domain)
      [] q.qtype = "MX"    -> build_mx_records
      [] q.qtype = "TXT"   -> build_txt_records
      [] q.qtype = "NS"    -> build_ns_records
      [] q.qtype = "CNAME" -> build_cname_records
      [] q.qtype = "SOA"   -> build_soa_records
      [] OTHER             -> <<>>

(* The answer to a query and the handler's state after it: rcode "err" when *)
(* the message is refused.  The first nxdomains queries for an address get *)
(* NXDOMAIN, but never those of the connectivity check.                    *)
DnsReply(s, rcode, answers) == [s |-> s, rcode |-> rcode, answers |-> answers]
NCSI == <<"ncsi">>
(* Mutant: the counter is compared after it is advanced.                   *)
nxdomain_due_after(s, q) == q.qtype = "A" /\ s.nxdomains_count + 1 < DnsConfig.nxdomains
nxdomain_due(s, q) == q.qtype = "A" /\ s.nxdomains_count < DnsConfig.nxdomains
handle_query(s, q) ==
    IF ~safe_message_from_vec(q) \/ q.kind # "query" THEN DnsReply(s, "err", <<>>)
    ELSE IF q.domain = NCSI
    THEN DnsReply(s, "NoError", IF q.qtype = "A" THEN <<"ncsi ip">> ELSE <<>>)
    ELSE IF nxdomain_due(s, q)
    THEN DnsReply([s EXCEPT !.nxdomains_count = @ + 1], "NXDomain", <<>>)
    ELSE DnsReply(s, "NoError", build_response(s.custom, q))
==============================================================================
