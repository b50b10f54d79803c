-------------------------------- MODULE Taste --------------------------------
(***************************************************************************)
(* Protocol detection on TCP (nettrap-proxy): a taster for each protocol   *)
(* gives the bytes of a sample a score, the router takes the best.  The    *)
(* tasters parse the protocols again, with code of their own; they read    *)
(* the same fields here as the handlers do in their modules.               *)
(***************************************************************************)
EXTENDS Http, Redis, BinaryServices

CONSTANT default_tcp     \* the router's default handler, "" for none

(* The sample is one line of text, whole or without its end yet.           *)
OneLine(d) == /\ d # <<>> /\ d[1] \notin {CRLF, LF}
              /\ Len(d) = 1 \/ d = <<d[1], CRLF>>
              /\ d[1].a \notin {"badline", "utf8", "trail", "control"}
(* The sample is one packet, header and the units it declares.             *)
OnePacket(d, kinds) == Starts(d, kinds) /\ Len(d) = Declared(d)

------------------------------------------------------------------------------
(* Text protocols, from strict_command_parts.                              *)
smtp_command_matches(d) ==
    LET w == d[1]
    IN  /\ OneLine(d)
        /\ \/ /\ w.a = "none"
              /\ w.k \in {"DATA", "QUIT", "STARTTLS", "RSET", "NOOP", "HELP"}
           \/ w.a = "one" /\ w.k \in {"EHLO", "HELO", "VRFY", "MAIL", "RCPT"}
           \/ w.a # "none" /\ w.k = "AUTH"
(* A verb of the list, or anything that looks like one on a whole line.    *)
looks_like_unknown_ftp_command(d) == OneLine(d) /\ Len(d) = 2 /\ d[1].k \notin {"ports", "*"}
ftp_command_token_matches(d) ==
    OneLine(d) /\ d[1].k \in {"USER", "PASS", "LIST", "STAT", "NOOP", "HELP", "QUIT", "RETR",
                              "CWD", "PASV", "PORT"}
pop3_command_score(d) ==
    LET w == d[1]
        valid == /\ OneLine(d)
                 /\ \/ /\ w.a = "none"
                       /\ w.k \in {"STAT", "LIST", "UIDL", "CAPA", "AUTH", "STLS", "NOOP",
                                   "RSET", "QUIT"}
                    \/ w.a # "none" /\ w.k \in {"USER", "PASS", "AUTH"}
                    \/ w.a = "number" /\ w.k \in {"LIST", "UIDL", "RETR", "DELE"}
    IN  IF ~valid THEN 0 ELSE IF w.k \in {"USER", "PASS", "LIST", "QUIT"} THEN 65 ELSE 80
looks_like_irc_command_line(d) == OneLine(d) /\ Len(d) = 2 /\ d[1].k \notin {"ports", "*"}
command_token_matches(d) ==
    OneLine(d) /\ d[1].k \in {"NICK", "USER", "JOIN", "PING", "CAP", "PONG", "PART", "PRIVMSG",
                              "NOTICE", "MODE", "LIST", "QUIT", "WHO", "WHOIS"}
IdentQuery(d) == OneLine(d) /\ d[1].k = "ports"

(* Memcached: the arguments of each command, and the body of those that    *)
(* store.                                                                  *)
MemcachedVerbs == MemcachedStorage \cup {"stats", "version", "quit", "get", "gets", "gat", "gats",
                                         "delete", "flush_all", "touch", "incr", "decr",
                                         "verbosity"}
memcached_storage_command_end(d, args) ==
    /\ storage_command_is_complete(d[1].k, args)
    /\ Len(d) = 3 + d[1].n /\ d[Len(d)] = CRLF
memcached_text_command_end(d, args) ==
    LET k == d[1].k
        n == Len(args)
        Keys(from) == n >= from /\ \A i \in from .. n : is_valid_key_token(args[i])
    IN  /\ \A i \in DOMAIN d : d[i] # LF
        /\ IF k \in MemcachedStorage THEN memcached_storage_command_end(d, args)
           ELSE /\ Len(d) = 2
                /\ CASE k = "stats" -> args = <<>> \/ (n = 2 /\ args[1] = "detail"
                                                       /\ args[2] \in {"on", "off", "dump"})
                     [] k \in {"version", "quit"} -> args = <<>>
                     [] k \in {"get", "gets"}     -> Keys(1)
                     [] k \in {"gat", "gats"}     -> Keys(2) /\ args[1] = "num"
                     [] k = "delete"              -> delete_command_is_valid(args)
                     [] k = "flush_all"           -> flush_all_command_is_valid(args)
                     [] k \in {"touch", "incr", "decr"} -> touch_command_is_valid(args)
                     [] k = "verbosity"           -> args = <<"num">>
looks_like_memcached_text_request(d) ==
    /\ Starts(d, MemcachedVerbs) /\ d[1].a # "badline"
    /\ LineEnd(d) = 2 /\ memcached_text_command_end(d, Body[d[1].a].args)
memcached_binary_request_shape_is_valid(b) ==
    /\ b.extras + b.key <= b.body /\ b.key <= 250
    /\ b.op <= 30 => binary_request_shape_is_valid(b.op, b)
looks_like_memcached_binary_request(d) ==
    OnePacket(d, {"bin"}) /\ ~Body[d[1].a].reserved
    /\ memcached_binary_request_shape_is_valid(Body[d[1].a])

(* Redis: an array of bulks, or an inline command of those the taster      *)
(* knows; more commands of either kind may follow.                         *)
redis_hello_args_are_valid(args) ==
    \/ args = <<>>
    \/ /\ args[1] \in {"2", "3"}
       /\ Options(args, 2, [AUTH |-> Option("auth", <<"any", "any">>),
                            SETNAME |-> Option("name", <<"any">>)]).r = ""
redis_set_args_are_valid(args) ==
    /\ Len(args) >= 2
    /\ Options(args, 3, [EX |-> Option("expiry", <<"p">>), PX |-> Option("expiry", <<"p">>),
                         NX |-> Option("condition", <<>>), XX |-> Option("condition", <<>>)]).r = ""
redis_expire_args_are_valid(args) ==
    /\ Len(args) \in {2, 3} /\ parse_unsigned_decimal_bytes(args[2])
    /\ Len(args) = 3 => args[3] \in {"NX", "XX", "GT", "LT"}
redis_config_args_are_valid(args) ==
    args # <<>> /\ <<args[1], Len(args)>> \in {<<"GET", 2>>, <<"SET", 3>>}
redis_replication_args_are_valid(args) ==
    args = <<"NO", "ONE">> \/ (Len(args) = 2 /\ args[1] = "host" /\ Kind("p", args[2]))
redis_eval_args_are_valid(args) ==
    /\ Len(args) >= 2 /\ parse_unsigned_decimal_bytes(args[2])
    /\ Number(args[2]) <= Len(args) - 2
redis_inline_request_end(words) ==
    LET verb == words[1]
        args == Tail(words)
        n    == Len(args)
    IN  /\ \A i \in DOMAIN words : words[i] \notin {"", "bin"}
        /\ CASE verb = "PING"   -> n <= 1
             [] verb = "INFO"   -> n <= 1
             [] verb = "HELLO"  -> redis_hello_args_are_valid(args)
             [] verb \in {"TIME", "ROLE", "DBSIZE", "QUIT", "COMMAND", "SAVE"} -> n = 0
             [] verb = "AUTH"   -> n \in {1, 2}
             [] verb = "SET"    -> redis_set_args_are_valid(args)
             [] verb \in {"ECHO", "GET", "GETDEL", "TTL", "PTTL", "EXPIRETIME", "PEXPIRETIME",
                          "TYPE", "STRLEN", "INCR", "DECR"} -> n = 1
             [] verb \in {"GETSET", "SETNX", "APPEND"} -> n = 2
             [] verb \in {"DEL", "EXISTS", "MGET"} -> n >= 1
             [] verb \in {"SETEX", "PSETEX"} -> n = 3 /\ Kind("p", args[2])
             [] verb \in {"MSET", "MSETNX"}  -> n > 0 /\ n % 2 = 0
             [] verb \in {"INCRBY", "DECRBY"} -> n = 2 /\ parse_signed_decimal_bytes(args[2])
             [] verb \in {"EXPIRE", "PEXPIRE", "EXPIREAT", "PEXPIREAT"} ->
                  redis_expire_args_are_valid(args)
             [] verb = "CONFIG" -> redis_config_args_are_valid(args)
             [] verb \in {"SLAVEOF", "REPLICAOF"} -> redis_replication_args_are_valid(args)
             [] verb \in {"EVAL", "EVALSHA"}      -> redis_eval_args_are_valid(args)
             [] verb \in {"FLUSHALL", "FLUSHDB"}  -> args \in {<<>>, <<"ASYNC">>, <<"SYNC">>}
             [] verb = "SELECT" -> n = 1 /\ parse_unsigned_decimal_bytes(args[1])
             [] verb = "BGSAVE" -> args \in {<<>>, <<"SCHEDULE">>}
             [] verb \in {"MODULE", "CLUSTER", "CLIENT"} -> TRUE
             [] OTHER           -> FALSE
redis_resp_array_end(d) ==
    LET r == extract_redis_resp_array_frame(d)
    IN  IF r.r = "complete" THEN r.n ELSE 0
RedisRequestEnd(d) ==
    CASE Starts(d, {"array"})  -> redis_resp_array_end(d)
      [] Starts(d, {"inline"}) -> IF Len(d) >= 2 /\ OneLine(SubSeq(d, 1, 2))
                                     /\ redis_inline_request_end(Body[d[1].a]) THEN 2 ELSE 0
      [] OTHER -> 0
redis_sample_tail_is_plausible(d) ==
    LET At[k \in 0 .. Len(d)] ==
          IF k = 0 THEN d
          ELSE LET r == At[k-1]
                   e == IF r # <<>> /\ r[1] = CRLF /\ r # d THEN 1 ELSE RedisRequestEnd(r)
               IN  SubSeq(r, e + 1, Len(r))
    IN  d # <<>> /\ At[Len(d)] = <<>>

------------------------------------------------------------------------------
(* HTTP: the request line only, and no bare line feed in the headers.      *)
header_line_endings_are_plausible(d) ==
    LET e == FirstAt(d, LAMBDA i : i < Len(d) /\ d[i] = CRLF /\ d[i+1] = CRLF)
    IN  \A i \in 1 .. (IF e = 0 THEN Len(d) ELSE e) : d[i] # LF
looks_like_http_request_line_shape(d) ==
    /\ Starts(d, {"REQ"}) /\ header_line_endings_are_plausible(d)
    /\ Body[d[1].a].method # "bad" /\ Body[d[1].a].version \in {"1.0", "1.1"}
looks_like_http_start_line(d) ==
    looks_like_http_request_line_shape(d) /\ is_valid_http_target_for_method(Body[d[1].a])

looks_like_ssh_client_version(d) == d = Line("SSH-2.0", "none")
looks_like_complete_tls_client_hello(d) == OnePacket(d, {"TLS"}) /\ d[1].a = "hello"

(* MySQL, PostgreSQL.                                                      *)
mysql_handshake_response_41_is_well_formed(b) ==
    "PROTOCOL_41" \in b.cap /\ b.zeros /\ handshake_response_41_tail_is_valid(b)
mysql_handshake_response_320_is_well_formed(b) == b.fields = <<>> /\ b.cap = {}
looks_like_mysql_client_packet(d) ==
    LET h == d[1]
    IN  /\ OnePacket(d, {"LOGIN", "COM_QUIT", "COM_PING", "COM_INIT_DB", "COM_QUERY",
                         "COM_FIELD_LIST"})
        /\ CASE h.k = "LOGIN" -> \/ mysql_handshake_response_41_is_well_formed(Body[h.a])
                                 \/ mysql_handshake_response_320_is_well_formed(Body[h.a])
             [] h.k \in {"COM_QUIT", "COM_PING"} -> h.a = "none"
             [] h.k = "COM_INIT_DB" -> h.a = "one"
             [] h.k = "COM_QUERY"   -> h.a \notin {"none", "bad"}
             [] h.k = "COM_FIELD_LIST" -> field_list_request_is_valid(Body[h.a])
looks_like_postgres_startup_message(d) ==
    LET h == d[1]
    IN  /\ OnePacket(d, {"Startup", "SSLRequest", "GSSENCRequest"})
        /\ h.a \notin {"bad", "short"}
        /\ h.k = "Startup" => startup_parameters_are_complete(Body[h.a].params)
looks_like_postgres_cancel_request(d) == OnePacket(d, {"Cancel"}) /\ d[1].a # "bad"
looks_like_postgres_typed_message(d) ==
    LET h == d[1]
    IN  /\ d # <<>> /\ is_postgres_typed_message(h) /\ Len(d) = Declared(d)
        /\ h.a \notin {"short", "bad"} /\ typed_message_body_is_valid(h.k, Body[h.a])

------------------------------------------------------------------------------
(* MQTT.  The taster does not know the connection's level.                 *)
mqtt_connect_properties_are_well_formed(props) ==
    PropertiesOk(props, {17, 21, 22, 23, 25, 33, 34, 39})
mqtt_will_properties_are_well_formed(props) == PropertiesOk(props, {1, 2, 8, 9, 24, 35})
(* Mutant: the taster only knows level 4.                                  *)
mqtt_connect_is_well_formed_4(b) == b.proto = <<"MQTT", 4>> /\ ~b.reserved /\ b.id # "bad" /\ ~b.rest
mqtt_connect_is_well_formed(b) ==
    /\ b.proto \in {<<"MQTT", 4>>, <<"MQTT", 5>>, <<"MQIsdp", 3>>}
    /\ ~b.reserved /\ (b.pass => b.user)
    /\ b.will_qos # 3 /\ (~b.will => b.will_qos = 0 /\ ~b.will_retain)
    /\ b.proto[2] = 5 => mqtt_connect_properties_are_well_formed(b.props)
    /\ b.id # "bad" /\ ~(b.proto[2] \in {3, 4} /\ ~b.clean /\ b.id = "")
    /\ b.will /\ b.proto[2] = 5 => mqtt_will_properties_are_well_formed(b.will_props)
    /\ ~b.rest
mqtt_publish_is_well_formed(b) ==
    /\ valid_publish_topic_name(b.topic) /\ b.qos # 3 /\ (b.qos >= 1 => b.packet_id # 0)
mqtt_subscribe_topics_are_well_formed(topics) ==
    /\ topics # <<>>
    /\ \A i \in DOMAIN topics :
         /\ valid_subscribe_topic_filter(topics[i].filter)
         /\ ~topics[i].options.reserved /\ topics[i].options.qos # 3
         /\ topics[i].options.retain # 3
mqtt_subscribe_is_well_formed(b) ==
    /\ b.packet_id # 0 /\ (b.form = 5 => PropertiesOk(b.props, {11}))
    /\ mqtt_subscribe_topics_are_well_formed(b.topics)
mqtt_unsubscribe_topics_are_well_formed(topics) ==
    topics # <<>> /\ \A i \in DOMAIN topics : valid_subscribe_topic_filter(topics[i].filter)
mqtt_unsubscribe_is_well_formed(b) ==
    /\ b.packet_id # 0 /\ (b.form = 5 => PropertiesOk(b.props, {}))
    /\ mqtt_unsubscribe_topics_are_well_formed(b.topics)
mqtt_pubrel_is_well_formed(b) ==
    b.packet_id # 0 /\ b.reason \in {0, 146} /\ PropertiesOk(b.props, {31})
mqtt_disconnect_reason_code_is_valid(r) ==
    r \in {0, 4} \cup 128 .. 131 \cup {135, 137, 139} \cup 141 .. 144 \cup 147 .. 162
mqtt_disconnect_is_well_formed(h) ==
    h.n = 0 \/ /\ mqtt_disconnect_reason_code_is_valid(Body[h.a].reason)
               /\ PropertiesOk(Body[h.a].props, {17, 28, 31})
MqttPackets == {"CONNECT", "PUBLISH", "PUBREL", "SUBSCRIBE", "UNSUBSCRIBE", "PINGREQ", "DISCONNECT"}
looks_like_mqtt_client_packet(d) ==
    /\ OnePacket(d, MqttPackets) /\ d[1].a # "flags"
    /\ LET h == d[1]
           b == Body[h.a]
       IN  CASE h.k = "CONNECT"     -> mqtt_connect_is_well_formed(b)
             [] h.k = "PUBLISH"     -> mqtt_publish_is_well_formed(b)
             [] h.k = "PUBREL"      -> mqtt_pubrel_is_well_formed(b)
             [] h.k = "SUBSCRIBE"   -> mqtt_subscribe_is_well_formed(b)
             [] h.k = "UNSUBSCRIBE" -> mqtt_unsubscribe_is_well_formed(b)
             [] h.k = "PINGREQ"     -> h.n = 0
             [] h.k = "DISCONNECT"  -> mqtt_disconnect_is_well_formed(h)

------------------------------------------------------------------------------
(* LDAP (of a search only that it has a body), SOCKS, SMB, RDP, NKN.       *)
ldap_control_is_plausible(c) ==
    /\ c.type # "" /\ c.criticality \in {"absent", "one"}
    /\ c.value \in {"absent", "octets"} /\ ~c.rest
ldap_message_id_is_valid(v) == v \notin {"zero", "negative", "long", "padded"}
ldap_sasl_auth_choice_is_plausible(b) == b.mechanism \notin {"", "bad"} /\ ~b.rest
ldap_bind_request_is_plausible(b) ==
    /\ ldap_message_id_is_valid(b.version) /\ b.auth \in {"simple", "sasl"}
    /\ b.auth = "sasl" => ldap_sasl_auth_choice_is_plausible(b)
ldap_app_tag_offset(d) ==
    /\ OnePacket(d, {"LDAP"}) /\ d[1].a # "bad"
    /\ LET b == Body[d[1].a]
       IN  /\ ldap_message_id_is_valid(b.id)
           /\ b.op \in {"bind", "search", "unbind"}
           /\ \A i \in DOMAIN b.controls : ldap_control_is_plausible(b.controls[i])
           /\ b.op = "bind" => ldap_bind_request_is_plausible(b)
looks_like_socks4_request(d) ==
    OnePacket(d, {"SOCKS4"}) /\ LET b == Body[d[1].a]
                                IN  b.cmd \in {1, 2} /\ b.dest \in {"ip", "domain"} /\ ~b.rest
socks5_request_is_well_formed(d) ==
    /\ Len(d) >= 3 /\ d[1].n \in 1 .. 3 /\ d[2] = Unit /\ d[3].k = "addr"
    /\ Len(d) = 3 + d[3].n /\ parse_socks5_address(Body[d[3].a])
looks_like_socks5_message(d) ==
    /\ Starts(d, {"SOCKS5"})
    /\ \/ d[1].n > 0 /\ Len(d) = Declared(d)
       \/ socks5_request_is_well_formed(d)
looks_like_socks_message(d) == looks_like_socks4_request(d) \/ looks_like_socks5_message(d)
looks_like_direct_smb_payload(b) ==
    b.whole /\ (b.magic = "SMB1" \/ (b.magic = "SMB2" /\ b.size64 /\ ~b.response))
looks_like_smb_message(d) == OnePacket(d, {"NBSS", "SMB"}) /\ looks_like_direct_smb_payload(Body[d[1].a])
looks_like_rdp_tpkt(d) ==
    /\ OnePacket(d, {"TPKT"}) /\ d[1].a # "bad"
    /\ LET b == Body[d[1].a]
       IN  b.fits /\ (b.type = "DT" \/ (b.type = "CR" /\ b.class = 0))
nkn_json_rpc_request(d) == OnePacket(d, {"json"}) /\ d[1].a # "bad" /\ parse_json_rpc(Body[d[1].a])
looks_like_nkn_json_rpc(d) == nkn_json_rpc_request(d) /\ is_known_nkn_method(Body[d[1].a].method)

------------------------------------------------------------------------------
(* The score of each taster for a sample on port p.  Some look at the port *)
(* first and take whatever arrives there.                                  *)
Else(p, ports, atport, other) == IF p \in ports THEN atport ELSE other
If(b, score) == IF b THEN score ELSE 0
taste(name, d, p) ==
    CASE name = "http" -> IF looks_like_http_start_line(d) THEN 95
                          ELSE IF looks_like_http_request_line_shape(d) THEN 0
                          ELSE Else(p, {80, 8080}, 30, 0)
      [] name = "tls"  -> IF looks_like_complete_tls_client_hello(d) THEN 95
                          ELSE Else(p, {443, 8443, 9443}, 40, 0)
      [] name = "smtp" -> Else(p, {25, 465, 587}, 85, If(smtp_command_matches(d), 90))
      [] name = "ftp"  -> Else(p, {21}, 85, If(ftp_command_token_matches(d)
                                               \/ looks_like_unknown_ftp_command(d), 80))
      [] name = "pop3" -> Else(p, {110, 995}, 85, pop3_command_score(d))
      [] name = "irc"  -> Else(p, {994, 6667, 6697}, 85, If(command_token_matches(d)
                                               \/ looks_like_irc_command_line(d), 80))
      [] name = "telnet" -> If(~Starts(d, {"SSH-2.0"}), Else(p, {23}, 90, 0))
      [] name = "ssh"  -> IF looks_like_ssh_client_version(d) THEN 95
                          ELSE If(~Starts(d, {"SSH-2.0"}), Else(p, {22}, 85, 0))
      [] name = "smb"  -> Else(p, {139, 445}, 85, If(looks_like_smb_message(d), 95))
      [] name = "rdp"  -> IF looks_like_rdp_tpkt(d) THEN Else(p, {3389}, 95, 70)
                          ELSE Else(p, {3389}, 40, 0)
      [] name = "redis" -> Else(p, {6379}, 90, If(redis_sample_tail_is_plausible(d), 80))
      [] name = "mysql" -> Else(p, {3306}, 90, If(looks_like_mysql_client_packet(d),
                                                  IF d[1].k = "LOGIN" THEN 75 ELSE 80))
      [] name = "ldap" -> Else(p, {389, 636}, 90, If(ldap_app_tag_offset(d), 55))
      [] name = "mqtt" -> Else(p, {1883}, 90, If(looks_like_mqtt_client_packet(d), 95))
      [] name = "socks" -> Else(p, {1080}, 85, If(looks_like_socks_message(d), 70))
      [] name = "memcached" -> Else(p, {11211}, 90,
                                    IF looks_like_memcached_text_request(d) THEN 85
                                    ELSE If(looks_like_memcached_binary_request(d), 75))
      [] name = "nkn"  -> IF p \in 30001 .. 30003 /\ nkn_json_rpc_request(d) THEN 95
                          ELSE If(looks_like_nkn_json_rpc(d), 90)
      [] name = "postgres" -> Else(p, {5432}, 90,
                                   IF looks_like_postgres_startup_message(d)
                                      \/ looks_like_postgres_cancel_request(d) THEN 85
                                   ELSE If(looks_like_postgres_typed_message(d), 80))
      [] name = "finger" -> Else(p, {79}, 90, 0)
      [] name = "ident" -> Else(p, {113}, 90, If(IdentQuery(d), 75))
      [] name = "raw"  -> 1
      [] OTHER         -> 0

(* The tasters in the order they are registered; of equal scores the first. *)
with_default_tastes == <<"http", "tls", "smtp", "ftp", "pop3", "irc", "telnet", "ssh", "smb",
                         "rdp", "redis", "mysql", "ldap", "mqtt", "socks", "memcached", "nkn",
                         "postgres", "finger", "ident", "raw">>
Better(b, name, score) == IF score > b.score THEN [name |-> name, score |-> score] ELSE b
route_filtered(d, p) ==
    LET Best[i \in 0 .. Len(with_default_tastes)] ==
          IF i = 0 THEN [name |-> "", score |-> 0]
          ELSE Better(Best[i-1], with_default_tastes[i], taste(with_default_tastes[i], d, p))
    IN  Best[Len(with_default_tastes)]
(* A score of 1 yields to the default handler.                             *)
route_with_default(b) == IF b.score > 1 \/ (b.score = 1 /\ default_tcp = "") THEN b
                         ELSE [name |-> default_tcp, score |-> 0]
route_tcp(d, p) == route_with_default(route_filtered(d, p))
==============================================================================
