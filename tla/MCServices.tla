----------------------------- MODULE MCServices -----------------------------
(***************************************************************************)
(* An instance of TcpSession: for every service what its clients send,     *)
(* well formed and not, and the messages behind the argument classes; and  *)
(* beside it the services for operators, and the commands run on the host. *)
(* They share no state: a behaviour is one of them (part).                 *)
(***************************************************************************)
EXTENDS TcpSession, NodeServices, TLC

VARIABLE part
allVars == <<part, vars, nodeVars, commandVars>>
SessionIdle == Init /\ lis = (CHOOSE l \in Listeners : TRUE) /\ disk
NodeIdle == NodeInit /\ server.kind = "Health" /\ status = "Ok"
CommandIdle == CommandInit /\ ~grandchild /\ output = [s \in Streams |-> 0]
MCInit ==
    \/ part = "session" /\ Init /\ NodeIdle /\ CommandIdle
    \/ part = "node" /\ SessionIdle /\ NodeInit /\ CommandIdle
    \/ part = "command" /\ SessionIdle /\ NodeIdle /\ CommandInit
OfNode(A) == part = "node" /\ A /\ UNCHANGED <<part, vars, commandVars>>
OfCommand(A) == part = "command" /\ A /\ UNCHANGED <<part, vars, nodeVars>>
SessionNext == part = "session" /\ Next /\ UNCHANGED <<part, nodeVars, commandVars>>
OperatorNext == OfNode(NodeNext)
HostNext == OfCommand(CommandNext)

(* A service or a command may be over; a session is never stuck.           *)
Over == part # "session" /\ UNCHANGED allVars
MCNext == SessionNext \/ OperatorNext \/ HostNext \/ Over
MCSpec == /\ MCInit /\ [][MCNext]_allVars
          /\ WF_allVars(OfNode(TasksAborted)) /\ \A c \in Connections : WF_allVars(OfNode(ProbeStep(c)))
          /\ WF_allVars(OfCommand(ReaderStep)) /\ WF_allVars(OfCommand(wait_for_command))
          /\ WF_allVars(OfCommand(join_limited_reader))

(* No client keeps a task of the probe server for ever                     *)
(* (handle_probe_connection).                                              *)
MCProbesEnd == part = "node" => ProbesEnd

(* A call of a command of the host ends, unless a process that is not its  *)
(* child holds its pipes (run_command_with_limited_output).                *)
MCCommandEnds == part = "command" => CommandEnds

------------------------------------------------------------------------------
MCRequests == {[whole |-> whole, endings |-> TRUE, utf8 |-> TRUE, method |-> "GET", path |-> path,
                version |-> "HTTP/1.1"] : whole \in BOOLEAN, path \in {"/ready", "/metrics"}}

Stateful  == {"smtp", "pop3", "telnet", "irc", "mqtt", "redis"}
Stateless == {"imap", "finger", "ident", "http", "dns", "mysql", "postgres", "memcached",
              "ldap", "socks", "ssh", "smb", "rdp", "nkn", "raw", "auto", "daytime"}
MCServicesSet == Stateful \cup Stateless
MCListeners == [svc : MCServicesSet, ssl : {FALSE}, port : {9999}]
               \cup [svc : {"finger", "imap", "mysql", "daytime"}, ssl : {TRUE}, port : {9999}]
MCMaxPackets == [s \in MCServicesSet |-> IF s \in Stateful THEN 3 ELSE 2]

Seg(name) == <<name, FALSE>>
Prop(id)  == [id |-> id, ok |-> TRUE]
Topic(filter, qos) == [filter |-> filter, options |-> [qos |-> qos, reserved |-> FALSE, retain |-> 0]]
Connect(level, id, clean) ==
    [proto |-> <<"MQTT", level>>, reserved |-> FALSE, user |-> FALSE, pass |-> FALSE,
     will |-> FALSE, will_qos |-> 0, will_retain |-> FALSE, clean |-> clean,
     props |-> <<Prop(17)>>, will_props |-> <<>>, id |-> id, rest |-> FALSE]
Login(user, cap, fields) ==
    [cap |-> cap, zeros |-> TRUE, user |-> user, fields |-> fields, plugin |-> "p", attrs |-> <<>>]
Bin(op, extras, key) ==
    [op |-> op, extras |-> extras, key |-> key, value |-> 0, body |-> extras + key, reserved |-> FALSE]
Ldap(op, id, filter) ==
    [id |-> id, controls |-> <<>>, op |-> op, version |-> "3", auth |-> "simple", mechanism |-> "",
     rest |-> FALSE, scope |-> 0, deref |-> 0, size |-> "0", time |-> "0", filter |-> filter]
Node(parent, tag) == [parent |-> parent, tag |-> tag, parts |-> <<"octets", "octets">>]
Request(method, form, host, path, version) ==
    [method |-> method, form |-> form, host |-> host, path |-> path, version |-> version]
Query(qtype, domain) ==
    [counts |-> <<1, 0, 0, 0>>, opt |-> "none", extra |-> FALSE, kind |-> "query", domain |-> domain, qtype |-> qtype]

MCBody ==
       "get"      :> Request("GET", "origin", "", <<Seg("page")>>, "1.1")
    @@ "old"      :> Request("GET", "origin", "", <<Seg("dir"), Seg(".."), Seg("page")>>, "1.0")
    @@ "up"       :> Request("GET", "origin", "", <<Seg("%2e%2e"), Seg("page")>>, "1.0")
    @@ "params"   :> Request("GET", "origin", "", << <<"%2e%2e", TRUE>>, Seg("page")>>, "1.0")
    @@ "badver"   :> Request("GET", "origin", "", <<>>, "2.0")
    @@ "host"     :> [kind |-> "name", port |-> "", domain |-> "a"]
    @@ "c5"       :> Connect(5, "id", TRUE)
    @@ "c4"       :> Connect(4, "id", TRUE)
    @@ "noid"     :> Connect(4, "", FALSE)
    @@ "cbad"     :> [Connect(4, "id", TRUE) EXCEPT !.pass = TRUE]
    @@ "p1"       :> [topic |-> <<"a">>, qos |-> 1, packet_id |-> 1]
    @@ "s5"       :> [packet_id |-> 1, form |-> 5, props |-> <<>>, topics |-> <<Topic(<<"a", "#">>, 1)>>]
    @@ "s4"       :> [packet_id |-> 1, form |-> 4, props |-> <<>>, topics |-> <<Topic(<<"#", "a">>, 1)>>]
    @@ "none"     :> [words |-> <<>>, args |-> <<>>, terminated |-> TRUE]
    @@ "login"    :> Login("u", {"PROTOCOL_41", "PLUGIN_AUTH"}, <<"auth", "plugin">>)
    @@ "nouser"   :> Login("", {}, <<>>)
    @@ "sslrequest" :> Login("", {"PROTOCOL_41"}, <<>>)
    @@ "select"   :> [words |-> <<"comment", "select">>]
    @@ "params2"  :> [params |-> <<"user", "u", "end">>]
    @@ "params1"  :> [params |-> <<"user", "end">>]
    @@ "bind2"    :> [terminated |-> TRUE, formats |-> [count |-> 0, given |-> 0],
                      params |-> [count |-> 2, lengths |-> <<1>>], results |-> [count |-> 0, given |-> 0]]
    @@ "set"      :> [args |-> <<"key", "num", "num", "num">>]
    @@ "setq"     :> [args |-> <<"key", "num", "num", "num", "noreply">>]
    @@ "key"      :> [args |-> <<"key">>]
    @@ "binget"   :> Bin(0, 0, 1)
    @@ "binquit"  :> Bin(7, 0, 0)
    @@ "bind"     :> Ldap("bind", "1", <<>>)
    @@ "search"   :> Ldap("search", "1", <<Node(0, "and"), Node(1, "not"), Node(2, "equality")>>)
    @@ "deep"     :> Ldap("search", "1", <<Node(0, "not"), Node(1, "not"), Node(2, "not"), Node(3, "equality")>>)
    @@ "v4"       :> [dest |-> "ip", rest |-> FALSE, port |-> 80, cmd |-> 1]
    @@ "ip"       :> [dest |-> "ip", port |-> 80]
    @@ "smb1"     :> [magic |-> "SMB1", whole |-> TRUE, command |-> "negotiate", size64 |-> FALSE, response |-> FALSE]
    @@ "smb2"     :> [magic |-> "SMB2", whole |-> TRUE, command |-> "tree", size64 |-> TRUE, response |-> FALSE]
    @@ "cr"       :> [fits |-> TRUE, type |-> "CR", class |-> 0]
    @@ "cr2"      :> [fits |-> TRUE, type |-> "CR", class |-> 2]
    @@ "height"   :> [keys |-> <<"jsonrpc", "method", "id">>, version |-> "2.0",
                      method |-> "getlatestblockheight", id |-> "number"]
    @@ "twice"    :> [keys |-> <<"jsonrpc", "method", "method">>, version |-> "2.0", method |-> "x", id |-> "null"]
    @@ "A"        :> Query("A", <<"a", "b">>)
    @@ "AAAA"     :> Query("AAAA", <<"a", "b">>)
    @@ "answer"   :> [Query("A", <<"a">>) EXCEPT !.kind = "response"]
    @@ "ping"     :> <<"PING">>
    @@ "quit"     :> <<"QUIT">>

Req(a, headers, body) == <<Symbol("REQ", a, 0), CRLF>> \o headers \o <<CRLF>> \o body
Header(k, a, n) == <<Symbol(k, a, n), CRLF>>
Cmd(words) == <<Symbol("array", "", Len(words))>> \o [i \in DOMAIN words |-> Symbol("bulk", words[i], 0)]
Units(n) == [i \in 1 .. n |-> Unit]

MCPackets ==
  [s \in MCServicesSet |->
     CASE s = "smtp" -> {Line("EHLO", "one"), Line("AUTH", "LOGIN"),
                         Line("b64", "text"), Line("DATA", "none"),
                         <<Unit, CRLF, DOT, DOT, CRLF, DOT, CRLF>>, <<DOT, CRLF>>,
                         Line("QUIT", "none"), <<Unit, LF>>, Line("RSET", "utf8")}
       [] s = "pop3" -> {Line("USER", "one"), Line("AUTH", "LOGIN"), Line("AUTH", "PLAIN"),
                         Line("b64", "text"), Line("RETR", "number"), Line("QUIT", "none"),
                         Line("*", "none"), Line("STAT", "trail"), Line("NOOP", "utf8")}
       [] s = "imap" -> {Line("LOGIN", "some"), Line("LOGOUT", "none"), Line("NOOP", "badline"),
                         Line("SELECT", "some")}
       [] s = "irc"  -> {Line("NICK", "one"), Line("NICK", "bad"), Line("USER", "one"),
                         Line("JOIN", "one"), Line("QUIT", "one"), <<Symbol("PING", "one", 0), LF>>}
       [] s = "telnet" -> {Line("root", "none"), Line("admin", "none"), Line("ls", "none"),
                           Line("exit", "none"), Line("wget", "one"), Line("cat", "utf8")}
       [] s = "finger" -> {Line("root", "none"), <<CRLF>>, Line("root", "bad"), Units(7)}
       [] s = "ident"  -> {Line("ports", "none"), Line("x", "utf8")}
       [] s = "http" -> {Req("get", Header("Host", "host", 0), <<>>), Req("get", <<>>, <<>>),
                         Req("get", Header("Host", "host", 0) \o Header("CL", "", 2), Units(2)),
                         Req("old", Header("TE", "chunked", 0),
                             <<Symbol("chunk", "", 1), CRLF, Unit, CRLF, Symbol("chunk", "", 0), CRLF, CRLF>>),
                         Req("old", Header("TE", "chunked", 0),
                             <<Symbol("chunk", "", 0), CRLF, Symbol("HDR", "", 0), CRLF, CRLF>>),
                         Req("old", Header("TE", "chunked", 0),
                             <<Symbol("chunk", "", 2), CRLF, Unit, Unit, CRLF, Symbol("chunk", "", 0), CRLF, CRLF>>),
                         Req("old", Header("TE", "chunked", 0), <<Symbol("chunk", "bad", 1), CRLF, Unit, CRLF>>),
                         Req("old", Header("Host", "host", 0) \o Header("Host", "host", 0), <<>>),
                         Req("up", <<>>, <<>>), Req("params", <<>>, <<>>), Req("badver", <<>>, <<>>)}
       [] s = "dns"  -> {Packet("DNS", "A", 1), Packet("DNS", "AAAA", 2), Packet("DNS", "answer", 1)}
       [] s = "mysql" -> {Packet("LOGIN", "login", 2), Packet("LOGIN", "nouser", 1),
                          Packet("LOGIN", "sslrequest", 1),
                          Packet("COM_QUERY", "select", 1), Packet("COM_QUIT", "none", 1),
                          Packet("COM_PING", "none", 1), <<Symbol("COM_QUERY", "select", 30)>>}
       [] s = "postgres" -> {Packet("Startup", "params2", 2), Packet("Startup", "params1", 2),
                             Packet("SSLRequest", "none", 1), Packet("Query", "none", 1),
                             Packet("Bind", "bind2", 1), Packet("Terminate", "none", 0),
                             <<Symbol("Sync", "short", 0)>>, <<Symbol("Startup", "short", 0), Unit>>}
       [] s = "memcached" -> {<<Symbol("set", "set", 1), CRLF, Unit, CRLF>>,
                              <<Symbol("set", "setq", 1), CRLF, Unit, CRLF>>,
                              <<Symbol("set", "set", 1), CRLF, Unit, Unit, CRLF>>,
                              Line("get", "key"), Line("get", "none"), Line("quit", "none"),
                              Packet("bin", "binget", 1), Packet("bin", "binquit", 0), <<Symbol("get", "key", 0), LF>>}
       [] s = "ldap" -> {Packet("LDAP", "bind", 2), Packet("LDAP", "search", 2), Packet("LDAP", "deep", 1),
                         Packet("LDAP", "bad", 1), <<Symbol("text", "none", 0), Unit>>}
       [] s = "socks" -> {Packet("SOCKS4", "v4", 1), <<Symbol("SOCKS5", "", 1), Unit>>,
                          <<Symbol("SOCKS5", "", 1), Unit, Symbol("addr", "ip", 1), Unit>>}
       [] s = "ssh"  -> {Line("SSH-2.0", "none"), Packet("KEX", "good", 2),
                         Packet("SSH_MSG_DISCONNECT", "good", 1), <<Symbol("KEX", "bad", 0)>>}
       [] s = "smb"  -> {Packet("NBSS", "smb1", 1), Packet("NBSS", "smb2", 2), <<Unit>>}
       [] s = "rdp"  -> {Packet("TPKT", "cr", 2), Packet("TPKT", "cr2", 1), <<Unit>>}
       [] s = "nkn"  -> {Packet("json", "height", 1), Packet("json", "twice", 1)}
       [] s = "raw"  -> {Units(2)}
       [] s = "daytime" -> {Units(1)}
       [] s = "mqtt" -> {Packet("CONNECT", "c5", 2), Packet("CONNECT", "c4", 1), Packet("CONNECT", "cbad", 1),
                         Packet("CONNECT", "noid", 1),
                         Packet("PUBLISH", "p1", 1), Packet("SUBSCRIBE", "s5", 1),
                         Packet("SUBSCRIBE", "s4", 1), Packet("PINGREQ", "none", 0),
                         Packet("DISCONNECT", "none", 0)}
       [] s = "redis" -> {Cmd(<<"CLIENT", "TRACKING", "ON", "BCAST", "PREFIX", "a">>),
                          Cmd(<<"CLIENT", "TRACKING", "ON", "BCAST", "PREFIX", "ab">>),
                          Cmd(<<"CLIENT", "TRACKING", "ON", "OPTIN">>), Cmd(<<"CLIENT", "TRACKING", "OFF">>),
                          Cmd(<<"CLIENT", "CACHING", "YES">>), Cmd(<<"CLIENT", "REPLY", "SKIP">>),
                          Cmd(<<"RESET">>), Cmd(<<"SET", "k", "v", "NX", "EX", "1">>), Cmd(<<"QUIT">>),
                          <<Symbol("array", "0", 1), Symbol("bulk", "QUIT", 0)>>,
                          <<Symbol("inline", "ping", 0), CRLF>>, <<Symbol("inline", "quit", 0), CRLF>>}
       [] s = "auto" -> {Line("EHLO", "one"), Line("DATA", "none"), <<Unit, CRLF, DOT, CRLF>>,
                         Line("QUIT", "none"), Line("get", "key"), Packet("CONNECT", "c4", 1), Cmd(<<"GET", "k">>),
                         Packet("LOGIN", "login", 2), Packet("DNS", "A", 1), Packet("TLS", "hello", 1),
                         Req("get", Header("Host", "host", 0), <<>>)}]

MCTelnetCredentials == {<<"root", "admin">>}
MCDnsConfig == [nxdomains |-> 0, wildcard |-> TRUE, default_ip |-> "v4", default_mx |-> "", default_txt |-> ""]
MCDnsCustom == << >>

(* Both roots have a page; a path that leaves its root reaches a secret.   *)
MCReadFile(root, path) ==
    IF \E i \in DOMAIN path : path[i] \in {Seg(".."), Seg("%2e%2e")} THEN "secret"
    ELSE IF path = <<Seg("page")>> THEN "page" ELSE "NotFound"
MCCustomRules == << >>
MCPrefixOf == {<<"a", "ab">>}

(* Every service keeps to the order of its protocol however the bytes      *)
(* arrive: nothing is sent after a goodbye, mail that was answered with    *)
(* Queued is saved, no command is served before its handshake, and the     *)
(* tracking settings of a Redis client stay consistent (the handlers       *)
(* behind HandlerRegistry; the session stays well typed).                  *)
ConversationInOrder ==
    TypeOK /\ NothingAfterGoodbye /\ QueuedIsSaved /\ HandshakeFirst /\ TrackingConsistent

(* The code that reads the same bytes twice agrees with itself: a framed   *)
(* HTTP request is one the parser accepts, no path leads out of the        *)
(* webroot, and the protocol the taster detects has a handler that         *)
(* answers.                                                                *)
RequestsUnderstood == HttpFramesParse /\ WebrootContained /\ DetectionAgrees

(* A probe connection ends and so does a command on the host, whatever the *)
(* peer and the child do, because both are timed; only another process     *)
(* that keeps the pipes of the child can hold a command.                   *)
CallsEnd == MCProbesEnd /\ MCCommandEnds
==============================================================================
