---------------------------- MODULE BinaryServices ----------------------------
(***************************************************************************)
(* The services whose requests are packets rather than lines: LDAP, SOCKS, *)
(* SSH, SMB, RDP and NKN, the MySQL, PostgreSQL and Memcached services,    *)
(* and MQTT.  SSH and MQTT keep state; a MySQL packet with sequence number *)
(* 1 is a login, any other a command, whether or not anybody has logged    *)
(* in.                                                                     *)
(***************************************************************************)
EXTENDS TcpFraming, Integers

CONSTANT MAX_LDAP_FILTER_DEPTH

(* LDAP.  A search filter is a list of nodes, each after its parent (0 for *)
(* the root); parts are the tags of a leaf's elements.                     *)
FilterDepth(nodes) ==
    LET Depth[i \in DOMAIN nodes] ==
            IF nodes[i].parent = 0 THEN 0 ELSE LET d == Depth[nodes[i].parent] IN d + 1
    IN  Depth
attribute_value_assertion_filter_is_well_formed(parts) == parts = <<"octets", "octets">>
substring_filter_is_well_formed(parts) ==
    /\ Len(parts) > 1 /\ parts[1] = "octets"
    /\ \A i \in 2 .. Len(parts) : parts[i] \in {"initial", "any", "final"}
filter_is_well_formed(nodes) ==
    LET Children(i) == Cardinality({j \in DOMAIN nodes : nodes[j].parent = i})
    IN  \A i \in DOMAIN nodes :
          /\ FilterDepth(nodes)[i] <= MAX_LDAP_FILTER_DEPTH
          /\ LET t == nodes[i].tag IN
             CASE t \in {"and", "or"} -> Children(i) > 0
               [] t = "not"           -> Children(i) = 1
               [] t \in {"present", "extensible"} -> nodes[i].parts # <<>>
               [] t \in {"equality", "greater", "less", "approx"} ->
                    attribute_value_assertion_filter_is_well_formed(nodes[i].parts)
               [] t = "substrings"    -> substring_filter_is_well_formed(nodes[i].parts)
               [] OTHER               -> FALSE
control_is_well_formed(c) ==
    /\ c.type # "" /\ c.criticality \in {"absent", "one"}
    /\ c.value \in {"absent", "octets"} /\ ~c.rest
message_tail_is_valid(b) == \A i \in DOMAIN b.controls : control_is_well_formed(b.controls[i])
(* Positive, at most 31 bits, without leading zeros.                       *)
parse_message_id(b) == b.id \notin {"zero", "negative", "long", "padded"}
is_canonical_non_negative_integer(v) == v \notin {"negative", "long", "padded"}
sasl_auth_choice_is_well_formed(b) == b.mechanism \notin {"", "bad"} /\ ~b.rest
bind_request_is_well_formed(b) ==
    /\ is_canonical_non_negative_integer(b.version)
    /\ b.auth \in {"simple", "sasl"}
    /\ b.auth = "sasl" => sasl_auth_choice_is_well_formed(b)
search_request_is_well_formed(b) ==
    /\ b.scope \in 0 .. 2 /\ b.deref \in 0 .. 3
    /\ is_canonical_non_negative_integer(b.size) /\ is_canonical_non_negative_integer(b.time)
    /\ b.filter # <<>> /\ filter_is_well_formed(b.filter)
    /\ ~b.rest
ldap_handle(s, f) ==
    LET b == Body[f[1].a]
    IN  Step(s, IF f[1].k # "LDAP" \/ ~parse_message_id(b) \/ ~message_tail_is_valid(b)
                THEN <<>>
                ELSE CASE b.op = "bind" /\ bind_request_is_well_formed(b)     -> <<"bindResponse">>
                       [] b.op = "search" /\ search_request_is_well_formed(b) -> <<"searchResDone">>
                       [] OTHER                                               -> <<>>, 1)

------------------------------------------------------------------------------
(* SOCKS.  Domains are usable names, addresses usable ones.                *)
handle_socks4(h) ==
    LET b == Body[h.a]
    IN  IF b.dest \notin {"ip", "domain"} \/ b.rest THEN <<>>
        ELSE IF b.port = 0 \/ b.cmd # 1 THEN <<"4 rejected">> ELSE <<"4 granted">>
parse_socks5_address(b) == b.dest \in {"ip", "domain", "ip6"}
handle_socks5(f) ==
    LET nmethods == f[1].n
        b == Body[f[3].a]
    IN  IF Len(f) = 1 + nmethods
        THEN <<IF \E i \in 2 .. Len(f) : f[i] = Unit THEN "5 no auth" ELSE "5 no method">>
        ELSE IF nmethods = 0 \/ Len(f) < 3 \/ f[3].k # "addr" THEN <<>>
        ELSE IF b.dest = "unknown type" THEN <<"5 type not supported">>
        ELSE IF ~parse_socks5_address(b) THEN <<>>
        ELSE IF b.port = 0 THEN <<"5 failure">>
        ELSE IF nmethods = 1 THEN <<"5 success">> ELSE <<"5 command not supported">>
socks_handle(s, f) ==
    Step(s, CASE f[1].k = "SOCKS4" -> handle_socks4(f[1])
              [] f[1].k = "SOCKS5" -> handle_socks5(f)
              [] OTHER             -> <<>>, 1)

------------------------------------------------------------------------------
(* SSH.  Whatever the first line says it is answered with the key exchange *)
(* (the banner went out at accept); every packet after it is refused as a  *)
(* login.                                                                  *)
SshNew == [first |-> TRUE]
handle_ssh(s, f) ==
    IF s.first THEN Step([first |-> FALSE], <<"KEXINIT">>, 1)
    ELSE Step(s, <<"USERAUTH_FAILURE">>, 1)
(* A disconnect message with its reason and both strings, properly padded. *)
ssh_frame_closes_session(h) == h.k = "SSH_MSG_DISCONNECT" /\ h.a = "good"

------------------------------------------------------------------------------
(* SMB.  Body: the magic, whether the header is whole, the command, and    *)
(* whether it claims to be a response.                                     *)
handle_smb1(b) ==
    CASE ~b.whole                  -> <<>>
      [] b.command = "negotiate"   -> <<"SMB2 negotiate">>
      [] b.command = "session"     -> <<"SMB1 logon failure">>
      [] b.command = "tree"        -> <<"SMB1 access denied">>
      [] OTHER                     -> <<>>
handle_smb2(b) ==
    CASE ~b.whole \/ ~b.size64 \/ b.response -> <<>>
      [] b.command = "negotiate"   -> <<"SMB2 negotiate">>
      [] b.command = "session"     -> <<"SMB2 logon failure">>
      [] OTHER                     -> <<"SMB2 access denied">>
smb_handle(s, f) ==
    LET b == Body[f[1].a]
    IN  Step(s, IF f[1].k \notin {"NBSS", "SMB"} THEN <<>>
                ELSE CASE b.magic = "SMB1" -> handle_smb1(b)
                       [] b.magic = "SMB2" -> handle_smb2(b)
                       [] OTHER            -> <<>>, 1)

(* RDP.  The X.224 length must fill the frame; class 0 only.               *)
rdp_handle(s, f) ==
    LET b == Body[f[1].a]
    IN  Step(s, CASE b.fits /\ b.type = "CR" /\ b.class = 0 -> <<"connection confirm">>
                  [] b.fits /\ b.type = "DT"                -> <<"MCS disconnect">>
                  [] OTHER                                  -> <<>>, 1)

(* NKN.  keys are the members of the JSON object, in order.                *)
parse_json_rpc(b) ==
    LET Count(k) == Cardinality({i \in DOMAIN b.keys : b.keys[i] = k})
    IN  /\ \A k \in {"jsonrpc", "method", "id"} : Count(k) <= 1
        /\ Count("jsonrpc") = 1 /\ b.version = "2.0"
        /\ Count("method") = 1 /\ b.method \notin {"", "long"}
        /\ Count("id") = 1 => b.id \in {"null", "number", "string"}
is_known_nkn_method(m) == m \in {"getlatestblockheight", "getnodestate", "getwsaddr"}
nkn_handle(s, f) ==
    LET b == Body[f[1].a]
    IN  Step(s, IF f[1].k # "json" \/ ~parse_json_rpc(b) THEN <<>>
                ELSE IF ~\E i \in DOMAIN b.keys : b.keys[i] = "id" THEN <<>>
                ELSE IF is_known_nkn_method(b.method) THEN <<"result">>
                ELSE <<"-32601">>, 1)
------------------------------------------------------------------------------

(* MySQL.  A login's body: cap (its capability flags), zeros (the reserved *)
(* bytes are), user, and fields: what follows the user name, in order.     *)
field_list_token_is_safe(t) == t # "unsafe"
connect_attrs_are_well_formed(attrs) ==
    \A i \in DOMAIN attrs : /\ attrs[i][1] # "" /\ field_list_token_is_safe(attrs[i][1])
                            /\ field_list_token_is_safe(attrs[i][2])
(* The flags announce which fields follow; each must be there, and no more. *)
handshake_response_41_tail_is_valid(b) ==
    LET Announced(flag, field) == IF flag \in b.cap THEN <<field>> ELSE <<>>
    IN  /\ b.fields = <<"auth">> \o Announced("CONNECT_WITH_DB", "db")
                                 \o Announced("PLUGIN_AUTH", "plugin")
                                 \o Announced("CONNECT_ATTRS", "attrs")
        /\ "PLUGIN_AUTH" \in b.cap => b.plugin \notin {"", "unsafe"}
        /\ "CONNECT_ATTRS" \in b.cap => connect_attrs_are_well_formed(b.attrs)
handle_login(b) ==
    LET ok == /\ b.user # ""
              /\ IF "PROTOCOL_41" \in b.cap
                 THEN b.zeros /\ handshake_response_41_tail_is_valid(b)
                 ELSE b.fields = <<>>
    IN  IF ok THEN <<"OK">> ELSE <<"ERR 1043">>

(* Comments in front of the statement are skipped, and a version comment's *)
(* content taken as the statement.                                         *)
query_produces_resultset(b) ==
    b.verb \in {"select", "with", "call", "table", "values", "help", "show", "describe",
                "desc", "explain", "check", "analyze", "optimize", "repair"}
strip_leading_sql_comments(b) ==
    LET words == SelectSeq(b.words, LAMBDA w : w # "comment")
    IN  [verb |-> IF words = <<>> THEN "" ELSE words[1]]
build_single_value_resultset == <<"1", "column", "EOF", "row", "EOF">>
field_list_request_is_valid(b) ==
    /\ b.table \notin {"", "unterminated"}
    /\ field_list_token_is_safe(b.table) /\ field_list_token_is_safe(b.wildcard)
handle_mysql_command(h) ==
    CASE h.k = "COM_QUERY" ->
           CASE h.a = "none" -> <<"ERR 1065">>
             [] h.a = "bad"  -> <<"ERR 1064">>
             [] OTHER -> IF query_produces_resultset(strip_leading_sql_comments(Body[h.a]))
                         THEN build_single_value_resultset ELSE <<"OK">>
      [] h.k = "COM_QUIT"       -> IF h.a = "none" THEN <<>> ELSE <<"ERR 1047">>
      [] h.k = "COM_INIT_DB"    -> IF h.a = "one" THEN <<"OK">> ELSE <<"ERR 1049">>
      [] h.k = "COM_FIELD_LIST" ->
           IF field_list_request_is_valid(Body[h.a]) THEN <<"OK">> ELSE <<"ERR 1146">>
      [] h.k = "COM_PING"       -> IF h.a = "none" THEN <<"OK">> ELSE <<"ERR 1047">>
      [] OTHER                  -> <<"ERR 1047">>
mysql_handle(s, f) ==
    Step(s, IF f[1].k = "LOGIN" THEN handle_login(Body[f[1].a])
            ELSE IF f[1].k = "EMPTY" THEN <<>>
            ELSE handle_mysql_command(f[1]), 1)
is_mysql_ssl_request(h) == h.k = "LOGIN" /\ h.a = "sslrequest"
mysql_frame_closes_session(h) == h.k = "COM_QUIT" /\ h.a = "none"

------------------------------------------------------------------------------
(* PostgreSQL.  Counts in a body must agree with the values that follow.   *)
consume_format_codes(codes)      == codes.count = codes.given
consume_parameter_values(params) == /\ params.count = Len(params.lengths)
                                    /\ \A i \in DOMAIN params.lengths : params.lengths[i] >= -1
typed_message_body_is_valid(k, b) ==
    CASE k = "Parse"               -> b.terminated /\ b.count = b.given
      [] k \in {"Bind", "FunctionCall"} ->
           /\ k = "Bind" => b.terminated
           /\ consume_format_codes(b.formats) /\ consume_parameter_values(b.params)
           /\ consume_format_codes(b.results)
      [] k \in {"Describe", "Close"} -> b.what \in {"S", "P"} /\ b.terminated
      [] k = "Execute"             -> b.terminated
      [] OTHER                     -> TRUE
typed_message_is_complete(h) == h.a # "bad" /\ typed_message_body_is_valid(h.k, Body[h.a])
(* Names and values alternate, every name and the list itself ended.       *)
startup_parameters_are_complete(params) ==
    /\ params # <<>> /\ params[Len(params)] = "end"
    /\ Len(params) % 2 = 1
    /\ \A i \in 1 .. Len(params) - 1 : i % 2 = 1 => params[i] # ""
postgres_error_response == <<"ErrorResponse", "ReadyForQuery">>
PostgresStartup(h) ==
    CASE h.a = "bad"         -> postgres_error_response
      [] h.k = "Cancel"      -> <<>>
      [] h.k \in {"SSLRequest", "GSSENCRequest"} -> <<"N">>
      [] h.k = "Startup"     -> IF startup_parameters_are_complete(Body[h.a].params)
                                THEN <<"AuthenticationOk", "ReadyForQuery">>
                                ELSE postgres_error_response
      [] OTHER               -> <<>>
postgres_handle(s, f) ==
    LET h == f[1]
    IN  Step(s, CASE h.k = "Query" -> IF h.a = "bad" THEN postgres_error_response
                                      ELSE <<"CommandComplete", "ReadyForQuery">>
                  [] h.k # "Query" /\ is_postgres_typed_message(h) ->
                       IF ~typed_message_is_complete(h) THEN postgres_error_response
                       ELSE IF h.k = "Terminate" THEN <<>> ELSE <<"ReadyForQuery">>
                  [] h.a = "short" -> IF Len(f) < 2 THEN <<>> ELSE postgres_error_response
                  [] OTHER -> PostgresStartup(h), 1)
postgres_frame_closes_session(h) == h.k = "Terminate" /\ h.n = 0

------------------------------------------------------------------------------
(* Memcached.  A text command's arguments are Body[a], words of the kinds  *)
(* "key", "num", "noreply" and "bad"; numbers and "noreply" are keys too.  *)
is_valid_key_token(t) == t # "bad"
command_has_noreply(args) == args # <<>> /\ args[Len(args)] = "noreply"
Shape(args, least, P(_, _)) ==
    LET n == Len(args)
    IN  /\ n = least \/ (n = least + 1 /\ args[n] = "noreply")
        /\ \A i \in 1 .. least : P(i, args[i])
KeyThen(i, t) == IF i = 1 THEN is_valid_key_token(t) ELSE t = "num"
delete_command_is_valid(args)    == Shape(args, 1, KeyThen)
touch_command_is_valid(args)     == Shape(args, 2, KeyThen)
counter_command_is_valid(args)   == Shape(args, 2, KeyThen)
flush_all_command_is_valid(args) ==
    args \in {<<>>, <<"noreply">>, <<"num">>, <<"num", "noreply">>}
verbosity_command_is_valid(args) == args = <<"num">>
storage_command_is_complete(verb, args) ==
    Shape(args, IF verb = "cas" THEN 5 ELSE 4, KeyThen)
stats_response(args) ==
    CASE args = <<>> -> <<"STAT", "END">>
      [] args \in {<<"detail", "on">>, <<"detail", "off">>} -> <<"OK">>
      [] args = <<"detail", "dump">> -> <<"END">>
      [] OTHER -> <<"ERROR">>
Unless(valid, args, reply) ==
    IF ~valid THEN <<"ERROR">> ELSE IF command_has_noreply(args) THEN <<>> ELSE <<reply>>
memcached_text(h, args) ==
    CASE h.k = "stats"          -> stats_response(args)
      [] h.k \in {"get", "gets"} ->
           IF args # <<>> /\ \A i \in DOMAIN args : is_valid_key_token(args[i])
           THEN <<"END">> ELSE <<"ERROR">>
      [] h.k \in {"gat", "gats"} ->
           IF /\ Len(args) >= 2 /\ args[1] = "num"
              /\ \A i \in 2 .. Len(args) : is_valid_key_token(args[i])
           THEN <<"END">> ELSE <<"ERROR">>
      [] h.k \in MemcachedStorage ->
           Unless(storage_command_is_complete(h.k, args), args,
                  CASE h.k = "cas" -> "NOT_FOUND"
                    [] h.k \in {"replace", "append", "prepend"} -> "NOT_STORED"
                    [] OTHER -> "STORED")
      [] h.k = "delete"         -> Unless(delete_command_is_valid(args), args, "DELETED")
      [] h.k = "flush_all"      -> Unless(flush_all_command_is_valid(args), args, "OK")
      [] h.k = "touch"          -> Unless(touch_command_is_valid(args), args, "TOUCHED")
      [] h.k \in {"incr", "decr"} -> Unless(counter_command_is_valid(args), args, "NOT_FOUND")
      [] h.k = "verbosity"      ->
           <<IF verbosity_command_is_valid(args) THEN "OK" ELSE "ERROR">>
      [] h.k = "version" /\ args = <<>> -> <<"VERSION">>
      [] h.k = "quit" /\ args = <<>>    -> <<>>
      [] OTHER                  -> <<"ERROR">>

(* A binary request: opcode, the sizes of its extras, key and value, and   *)
(* whether the reserved byte is zero.                                      *)
binary_request_shape_is_valid(op, b) ==
    LET key == b.key \in 1 .. 250
        Is(extras, k, v) == b.extras \in extras /\ (k <=> key) /\ (~k => b.key = 0)
                            /\ (v => b.value = 0)
    IN  CASE op \in {0, 4, 9, 12, 13, 20}      -> Is({0}, TRUE, TRUE)
          [] op \in {1, 2, 3, 17, 18, 19}      -> Is({8}, TRUE, FALSE)
          [] op \in {5, 6, 21, 22}             -> Is({20}, TRUE, TRUE)
          [] op \in {7, 10, 11, 16, 23}        -> Is({0}, FALSE, TRUE)
          [] op \in {8, 24}                    -> Is({0, 4}, FALSE, TRUE)
          [] op \in {14, 15, 25, 26}           -> Is({0}, TRUE, FALSE)
          [] op = 27                           -> Is({4}, FALSE, TRUE)
          [] op \in {28, 29, 30}               -> Is({4}, TRUE, TRUE)
is_quiet_binary_opcode(op) == op \in {9, 13, 30} \cup 17 .. 26
binary_stats_response == [i \in 1 .. 8 |-> "stat"]
handle_binary(b) ==
    LET status == IF b.reserved \/ b.extras + b.key > b.body THEN 4
                  ELSE IF b.op > 30 THEN 129
                  ELSE IF binary_request_shape_is_valid(b.op, b) THEN 0 ELSE 4
    IN  IF b.op = 16 /\ status = 0 THEN binary_stats_response
        ELSE IF status = 0 /\ is_quiet_binary_opcode(b.op) THEN <<>>
        ELSE <<CASE status = 0 -> "ok" [] status = 4 -> "Invalid arguments"
                 [] OTHER -> "Unknown command">>
memcached_handle(s, f) ==
    LET h == f[1]
    IN  Step(s, IF h.k = "bin" THEN handle_binary(Body[h.a])
                ELSE IF h \in {CRLF, LF} \/ h.a = "badline" THEN <<"ERROR">>
                ELSE memcached_text(h, Body[h.a].args), 1)
memcached_frame_closes_session(h) ==
    IF h.k = "bin"
    THEN LET b == Body[h.a] IN b.op \in {7, 23} /\ b.key = 0 /\ b.extras = 0 /\ b.body = 0
    ELSE h.k = "quit" /\ Body[h.a].args = <<>>

-----------------------------------------------------------------------------
(***************************************************************************)
(* The MQTT service: nettrap-proto-mqtt's MqttHandler and its parsers.     *)
(* Body[a] holds the fields of a packet as they lie on the wire; a         *)
(* property is [id, ok], ok when its value can be read, a topic a sequence *)
(* of levels.                                                              *)
(***************************************************************************)

MqttNew == [state |-> "WaitingConnect", level |-> 0]

(* Every property is one its context knows, can be read, and comes once,   *)
(* except user properties (38).                                            *)
PropertiesOk(props, ids) ==
    /\ \A i \in DOMAIN props : props[i].ok /\ props[i].id \in ids \cup {38}
    /\ \A i, j \in DOMAIN props : i # j /\ props[i].id = props[j].id => props[i].id = 38
parse_property_block(props, context) ==
    PropertiesOk(props, CASE context = "Connect"    -> {17, 21, 22, 23, 25, 33, 34, 39}
                          [] context = "Will"       -> {1, 2, 8, 9, 24, 35}
                          [] context = "Disconnect" -> {17, 28, 31})
parse_subscribe_properties(props)   == PropertiesOk(props, {11})
parse_unsubscribe_properties(props) == PropertiesOk(props, {})
parse_pubrel_properties(props)      == PropertiesOk(props, {31})

valid_mqtt_utf8_string(s) == s # "bad"
valid_publish_topic_name(topic) ==
    topic # <<>> /\ \A i \in DOMAIN topic : topic[i] \in {"", "a"}
(* '#' is a whole level and the last, '+' a whole level.                   *)
valid_subscribe_topic_filter(filter) ==
    /\ filter # <<>>
    /\ \A i \in DOMAIN filter : filter[i] \in {"", "a", "+"} \/ (filter[i] = "#" /\ i = Len(filter))

(* parse_connect: the protocol, the flags that go together, the strings    *)
(* the flags announce, and nothing after them.                             *)
parse_connect(b) ==
    /\ b.proto \in {<<"MQTT", 4>>, <<"MQTT", 5>>, <<"MQIsdp", 3>>}
    /\ ~b.reserved
    /\ b.pass => b.user
    /\ b.will_qos # 3
    /\ ~b.will => b.will_qos = 0 /\ ~b.will_retain
    /\ b.proto[2] = 5 => parse_property_block(b.props, "Connect")
    /\ valid_mqtt_utf8_string(b.id)
    /\ b.will /\ b.proto[2] = 5 => parse_property_block(b.will_props, "Will")
    /\ ~b.rest
client_id_rejected(b) == b.proto[2] \in {3, 4} /\ b.id = "" /\ ~b.clean

parse_publish(b) == valid_publish_topic_name(b.topic) /\ (b.qos > 0 => b.packet_id # 0)

valid_subscription_options(o, level) ==
    /\ o.qos # 3 /\ ~o.reserved
    /\ IF level = 5 THEN o.retain # 3 ELSE o.retain = 0
parse_subscribe_topics(topics, level) ==
    /\ topics # <<>>
    /\ \A i \in DOMAIN topics : /\ valid_subscribe_topic_filter(topics[i].filter)
                                /\ valid_subscription_options(topics[i].options, level)
parse_unsubscribe_topics(topics) ==
    topics # <<>> /\ \A i \in DOMAIN topics : valid_subscribe_topic_filter(topics[i].filter)
(* A packet of another level than the connection's is misread, and refused. *)
parse_subscribe_packet_for_level(b, level) ==
    /\ b.packet_id # 0 /\ b.form = (IF level = 5 THEN 5 ELSE 4)
    /\ level = 5 => parse_subscribe_properties(b.props)
    /\ parse_subscribe_topics(b.topics, level)
parse_unsubscribe_packet_for_level(b, level) ==
    /\ b.packet_id # 0 /\ b.form = (IF level = 5 THEN 5 ELSE 4)
    /\ level = 5 => parse_unsubscribe_properties(b.props)
    /\ parse_unsubscribe_topics(b.topics)
parse_pubrel_packet(b) ==
    b.packet_id # 0 /\ b.reason \in {0, 146} /\ parse_pubrel_properties(b.props)
is_valid_disconnect_reason_code(r) ==
    r \in {0, 4} \cup 128 .. 131 \cup {135, 137, 139} \cup 141 .. 144 \cup 147 .. 162
parse_disconnect_packet_for_level(h, level) ==
    h.n = 0 \/ /\ level \notin {3, 4}
               /\ is_valid_disconnect_reason_code(Body[h.a].reason)
               /\ parse_property_block(Body[h.a].props, "Disconnect")

(* valid_fixed_header: the types the handler knows and their flags.        *)
valid_fixed_header(h) ==
    /\ h.a # "flags"
    /\ h.k \in {"CONNECT", "PUBLISH", "PUBREL", "SUBSCRIBE", "UNSUBSCRIBE", "PINGREQ",
                "PINGRESP", "DISCONNECT"}
    /\ h.k \in {"PINGREQ", "PINGRESP"} => h.n = 0

(* What a connected client is answered.                                    *)
MqttAnswer(h, level) ==
    LET b == Body[h.a]
    IN  CASE h.k = "PUBLISH" /\ parse_publish(b) /\ b.qos > 0 ->
               <<IF b.qos = 2 THEN "PUBREC" ELSE "PUBACK">>
          [] h.k = "SUBSCRIBE" /\ parse_subscribe_packet_for_level(b, level)     -> <<"SUBACK">>
          [] h.k = "UNSUBSCRIBE" /\ parse_unsubscribe_packet_for_level(b, level) -> <<"UNSUBACK">>
          [] h.k = "PUBREL" /\ parse_pubrel_packet(b) -> <<"PUBCOMP">>
          [] h.k = "PINGREQ"                          -> <<"PINGRESP">>
          [] OTHER                                    -> <<>>
(* Mutant: a packet before CONNECT is answered.                            *)
handle_packet_eager(s, h) ==
    [s |-> s, out |-> IF h.k = "CONNECT" THEN <<"CONNACK">> ELSE MqttAnswer(h, s.level)]
handle_packet(s, h) ==
    LET b == Body[h.a]
    IN  IF ~valid_fixed_header(h) \/ s.state = "Disconnected"
           \/ (s.state = "WaitingConnect") # (h.k = "CONNECT")
        THEN [s |-> s, out |-> <<>>]
        ELSE IF h.k = "CONNECT"
        THEN IF ~parse_connect(b) THEN [s |-> s, out |-> <<>>]
             ELSE IF client_id_rejected(b)
             THEN [s |-> [s EXCEPT !.state = "Disconnected"], out |-> <<"CONNACK 2">>]
             ELSE [s |-> [state |-> "Connected", level |-> b.proto[2]], out |-> <<"CONNACK">>]
        ELSE IF h.k = "DISCONNECT" /\ parse_disconnect_packet_for_level(h, s.level)
        THEN [s |-> [s EXCEPT !.state = "Disconnected"], out |-> <<>>]
        ELSE [s |-> s, out |-> MqttAnswer(h, s.level)]

(* handle_mqtt_named records the packet and the handler's own event.       *)
handle_mqtt(s, f) == LET r == handle_packet(s, f[1]) IN Step(r.s, r.out, 2)
is_valid_disconnect_frame(h) ==
    /\ h.k = "DISCONNECT" /\ valid_fixed_header(h)
    /\ parse_disconnect_packet_for_level(h, 0)
==============================================================================
