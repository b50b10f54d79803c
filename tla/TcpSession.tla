----------------------------- MODULE TcpSession -----------------------------
(***************************************************************************)
(* One TCP connection: the set-up and the frame loop of                    *)
(* listeners/tcp_handler (plain.rs, and wrapped.rs over TLS), the dispatch *)
(* of each frame to a handler, and the client at the other end.            *)
(*                                                                         *)
(* The client sends packets, each a sequence of symbols, in any number of  *)
(* segments: a read of the server returns any part of what has arrived.    *)
(* Over TLS the symbols are those of the decrypted stream.                 *)
(***************************************************************************)
EXTENDS Taste, LineServices, Dns

-----------------------------------------------------------------------------
(***************************************************************************)
(* The dispatch of a frame to a protocol handler                           *)
(* (listeners/tcp_dispatch.rs), by the listener's name or by what the      *)
(* router makes of the frame, and which frames end a session.              *)
(***************************************************************************)

CONSTANTS DnsCustom,       \* the custom DNS responses of a new handler
          CustomResponse   \* what the raw service answers: "echo", "fixed" or "bad"

(* A new handler is made for each query: nothing a handler remembers       *)
(* survives it.  The length prefix limits the answer.                      *)
frame_dns_tcp_response(r) == r.rcode # "oversize"
dns_answer(s, q, r) ==
    IF r.rcode = "err" THEN Fail(s, 0)
    ELSE IF ~frame_dns_tcp_response(r) THEN Step(s, <<>>, 0)
    ELSE Step(s, <<r.rcode>>, IF parse_query_summary(q) THEN 1 ELSE 0)
handle_dns_tcp(s, f) ==
    dns_answer(s, Body[f[1].a], handle_query(DnsNew(DnsCustom), Body[f[1].a]))

http_answer(s, f, r) == Step(s, <<handle_http_response(f, r)>>, IF r.r = "ok" THEN 1 ELSE 0)
handle_http_named(s, f) == http_answer(s, f, HttpRequestParse(f))
(* Redis answers one reply or none ("").                                   *)
redis_answer(r) == Step(r.s, IF r.reply = "" THEN <<>> ELSE <<r.reply>>, 1)
handle_redis_named(s, f) == redis_answer(handle_command_with_auth_state(s, f))
handle_tls_plain(s, f) == Step(s, <<"ServerHello">>, 1)
(* Raw: the custom response, an error text when it cannot be loaded, or    *)
(* the bytes themselves.                                                   *)
handle_raw_named(s, f) ==
    Step(s, CASE CustomResponse = "echo"  -> <<"echo">>
              [] CustomResponse = "fixed" -> <<"custom">>
              [] CustomResponse = "bad"   -> <<"ERROR">>, 1)

(* disk: the mail directory can be written.  FTP's commands are handled in *)
(* order with its transfers (module Ftp); here they are only answered.     *)
dispatch_named_tcp_protocol(name, s, f, disk) ==
    CASE name = "dns"       -> handle_dns_tcp(s, f)
      [] name = "http"      -> handle_http_named(s, f)
      [] name = "smtp"      -> handle_smtp_data(s, f, disk)
      [] name = "pop3"      -> Pop3Handle(s, f)
      [] name = "imap"      -> ImapHandle(s, f)
      [] name = "irc"       -> handle_irc(s, f)
      [] name = "telnet"    -> handle_telnet(s, f)
      [] name = "finger"    -> FingerHandle(s, f)
      [] name = "ident"     -> IdentHandle(s, f)
      [] name = "ssh"       -> handle_ssh(s, f)
      [] name = "smb"       -> smb_handle(s, f)
      [] name = "rdp"       -> rdp_handle(s, f)
      [] name = "redis"     -> handle_redis_named(s, f)
      [] name = "mysql"     -> mysql_handle(s, f)
      [] name = "ldap"      -> ldap_handle(s, f)
      [] name = "socks"     -> socks_handle(s, f)
      [] name = "memcached" -> memcached_handle(s, f)
      [] name = "mqtt"      -> handle_mqtt(s, f)
      [] name = "tls"       -> handle_tls_plain(s, f)
      [] name = "nkn"       -> nkn_handle(s, f)
      [] name = "postgres"  -> postgres_handle(s, f)
      [] name = "raw"       -> handle_raw_named(s, f)
      [] name = "ftp"       -> Step(s, <<"ftp">>, 1)
      [] OTHER              -> FixedHandle(name, s, f)

(* Which names are known to the dispatch; FTP has a path of its own.       *)
Named == {"dns", "http", "smtp", "pop3", "imap", "irc", "telnet", "finger", "ident", "ssh", "smb",
          "rdp", "redis", "mysql", "ldap", "socks", "memcached", "mqtt", "tls", "nkn", "postgres",
          "raw", "dummy", "syslogrecv", "daytime", "time", "chargen", "quotd"}

(* The name a frame is handled under on a listener with no protocol of its *)
(* own: the router's choice if it is sure enough, else raw.                *)
sure_or_raw(r) == IF r.score >= 50 \/ r.name \in {default_tcp, "raw"} THEN r.name ELSE "raw"
handle_detected_protocol(d, p) == sure_or_raw(route_tcp(d, p))

------------------------------------------------------------------------------
(* Mutant: SMTP's goodbye is forgotten.                                    *)
tcp_frame_closes_session_but_smtp(name, f) == name = "irc" /\ Word(f).k = "QUIT"
(* The frames after which the server closes: an exact goodbye.             *)
tcp_frame_closes_session(name, f) ==
    CASE name = "mqtt"             -> is_valid_disconnect_frame(f[1])
      [] name = "redis"            -> redis_frame_closes_session(f)
      [] name = "memcached"        -> f[1] \notin {CRLF, LF} /\ f[1].a # "badline"
                                      /\ memcached_frame_closes_session(f[1])
      [] name = "mysql"            -> mysql_frame_closes_session(f[1])
      [] name = "postgres"         -> postgres_frame_closes_session(f[1])
      [] name = "ssh"              -> ssh_frame_closes_session(f[1])
      [] name \in {"smtp", "pop3", "ftp"} -> Word(f).k = "QUIT" /\ Word(f).a = "none"
      [] name = "irc"              -> Word(f).k = "QUIT"
      [] OTHER                     -> FALSE

(* Daytime, time, chargen and quotd answer the connection itself.          *)
explicit_tcp_one_shot_protocol(name) == name \in {"daytime", "time", "chargen", "quotd"}
build_tcp_one_shot_response(name) == <<name>>

(* A whole length prefixed query, or the header of one.                    *)
looks_like_dns_header(q) == q.kind = "query" /\ q.counts[1] = 1 /\ q.counts[2] = 0 /\ q.counts[3] = 0
is_dns_over_tcp_frame(d) ==
    /\ Starts(d, {"DNS"})
    /\ IF Len(d) < Declared(d) THEN looks_like_dns_header(Body[d[1].a])
       ELSE parse_query_summary(Body[d[1].a])
(* port_frame_mode: on a listener with no protocol of its own the port     *)
(* decides the framing, and only if it says nothing the router does.       *)
port_frame_mode(p, d, ssh_first) ==
    CASE p = 53 \/ is_dns_over_tcp_frame(d)             -> "DnsTcp"
      [] p \in {853, 636, 990, 992, 993, 994, 6697}     -> "Tls"
      [] p \in {80, 443, 8000, 8080, 8443, 8888}        -> "Http"
      [] p \in {21, 23, 25, 79, 110, 113, 143, 194, 465, 514, 587, 601, 995, 2525, 6667} -> "Line"
      [] p \in {13, 17, 19, 37}                         -> "Immediate"
      [] p = 22                                         -> protocol_frame_mode("ssh", ssh_first)
      [] p = 3306                                       -> "Mysql"
      [] p = 5432                                       -> "Postgres"
      [] p = 1080                                       -> "Socks"
      [] p \in {139, 445}                               -> "Smb"
      [] p = 3389                                       -> "Rdp"
      [] p = 389                                        -> "Ldap"
      [] p = 6379                                       -> "Redis"
      [] p = 11211                                      -> "Memcached"
      [] p = 1883                                       -> "Mqtt"
      [] OTHER                                          -> "none"

-----------------------------------------------------------------------------
CONSTANTS Listeners,       \* records [svc, ssl, port]; svc "auto" detects, ssl has a CA
          Packets,         \* Packets[s]: what a client of service s may send
          MaxPackets       \* MaxPackets[s]: how many packets it sends

VARIABLES lis,       \* the listener
          layer,     \* "plain" or "tls"
          disk,      \* the directory of saved mail can be written
          sent,      \* everything the client has sent
          packets,   \* how many packets that is
          got,       \* how much of it the server has read
          buf,       \* connection_buf: read and not yet part of a frame
          st,        \* the state of each handler, TcpSessionState with it
          greeted,   \* how many banners the server has sent
          out,       \* everything else it has sent
          evs,       \* how many events have been recorded
          counted,   \* the totals given to update_session_bytes
          conn       \* "new", "open", "closed", "failed" (a write), "error" (a handler)
vars == <<lis, layer, disk, sent, packets, got, buf, st, greeted, out, evs, counted, conn>>

(* SessionHandlers and TcpSessionState of a new connection.                *)
New(s) == CASE s = "smtp"   -> SmtpNew
            [] s = "pop3"   -> Pop3New
            [] s = "irc"    -> IrcNew
            [] s = "telnet" -> TelnetNew
            [] s = "ssh"    -> SshNew
            [] s = "mqtt"   -> MqttNew
            [] s = "redis"  -> RedisNew
            [] OTHER        -> "none"
NewSession(l) == [s \in IF l.svc = "auto" THEN Named ELSE {l.svc} |-> New(s)]

Init == /\ lis \in Listeners /\ layer = "plain"
        /\ disk \in IF lis.svc = "smtp" THEN BOOLEAN ELSE {TRUE}
        /\ sent = <<>> /\ packets = 0 /\ got = 0 /\ buf = <<>>
        /\ st = NewSession(lis)
        /\ greeted = 0 /\ out = <<>> /\ evs = 0 /\ counted = [in |-> 0, out |-> 0]
        /\ conn = "new"

------------------------------------------------------------------------------
in_smtp_data(s)     == "smtp" \in DOMAIN s /\ s["smtp"].data
ssh_first_packet(s) == "ssh" \in DOMAIN s /\ s["ssh"].first

(* A message in progress comes first, then anything that looks like a TLS  *)
(* record, then the listener's protocol; without one the port and last     *)
(* what the router makes of the buffer as far as it has arrived.           *)
ModeOr(mode, other) == IF mode # "none" THEN mode ELSE other
tcp_frame_mode(l, b, s) ==
    IF in_smtp_data(s) THEN "SmtpData"
    ELSE IF Starts(b, {"TLS"}) THEN "Tls"
    ELSE IF l.svc # "auto" THEN protocol_frame_mode(l.svc, ssh_first_packet(s))
    ELSE ModeOr(port_frame_mode(l.port, b, ssh_first_packet(s)),
                ModeOr(protocol_frame_mode(route_tcp(b, l.port).name, ssh_first_packet(s)), "Immediate"))

(* handle_tcp_protocol: by the listener's name, or by detection.           *)
tcp_dispatch_name_for_frame(l, mode, f) ==
    IF mode = "Tls" THEN "tls"
    ELSE IF l.svc # "auto" THEN l.svc ELSE handle_detected_protocol(f, l.port)
(* The goodbye of a detected protocol does not end the session, but FTP's. *)
FrameCloses(l, name, f) ==
    (l.svc # "auto" \/ name \in {"tls", "ftp"}) /\ tcp_frame_closes_session(name, f)

(* c = [b, s, out, ev, end] after the handler's h for a frame of name.     *)
Handled(l, c, name, f, rest, h) ==
    [b |-> rest, s |-> IF name \in DOMAIN c.s THEN [c.s EXCEPT ![name] = h.s] ELSE c.s,
     out |-> c.out \o h.out, ev |-> c.ev + h.ev,
     end |-> IF h.err THEN "error" ELSE IF FrameCloses(l, name, f) THEN "close" ELSE ""]
handle_tcp_protocol(l, c, name, f, rest) ==
    Handled(l, c, name, f, rest,
            dispatch_named_tcp_protocol(name, IF name \in DOMAIN c.s THEN c.s[name] ELSE "none", f, disk))
(* What the framer says of the buffer decides the turn.                    *)
FrameResult(l, plain, c, mode, r) ==
    CASE r.r = "incomplete" -> [c EXCEPT !.end = "wait"]
      [] r.r \in {"invalid", "too_large"} ->
           [c EXCEPT !.out = @ \o r.reply, !.end = "close",
                     !.s = IF in_smtp_data(@) THEN [@ EXCEPT !["smtp"].data = FALSE] ELSE @]
      [] r.r = "complete" ->
           LET f    == SubSeq(c.b, 1, r.n)
               rest == SubSeq(c.b, r.n + 1, Len(c.b))
           IN  IF plain /\ l.svc = "mysql" /\ l.ssl /\ is_mysql_ssl_request(f[1])
               THEN [c EXCEPT !.b = rest, !.end = "upgrade"]
               ELSE handle_tcp_protocol(l, c, tcp_dispatch_name_for_frame(l, mode, f), f, rest)
(* One turn of the inner loop: the next frame of the buffer, under the     *)
(* mode its state now asks for.                                            *)
FrameUnder(l, plain, c, mode) == FrameResult(l, plain, c, mode, next_tcp_frame_for_mode(c.b, mode))
(* Mutant: the loop stops after one frame and waits for the next read.     *)
FrameStep_waits(l, plain, c) ==
    LET d == FrameUnder(l, plain, c, tcp_frame_mode(l, c.b, c.s))
    IN  IF d.end = "" THEN [d EXCEPT !.end = "wait"] ELSE d
FrameStep(l, plain, c) == FrameUnder(l, plain, c, tcp_frame_mode(l, c.b, c.s))
(* The inner loop: until a frame is incomplete or ends the connection.     *)
FrameLoop(l, plain, b, s) ==
    LET After[k \in 0 .. Len(b) + 1] ==
            IF k = 0 THEN [b |-> b, s |-> s, out |-> <<>>, ev |-> 0, end |-> ""]
            ELSE LET c == After[k-1] IN IF c.end # "" THEN c ELSE FrameStep(l, plain, c)
    IN  After[Len(b) + 1]
ReadStep(n, plain) == FrameLoop(lis, plain, buf \o SubSeq(sent, got + 1, got + n), st)

------------------------------------------------------------------------------
ClientSends ==
    /\ conn \in {"new", "open"} /\ packets < MaxPackets[lis.svc]
    /\ \E p \in Packets[lis.svc] : sent' = sent \o p
    /\ packets' = packets + 1
    /\ UNCHANGED <<lis, layer, disk, got, buf, st, greeted, out, evs, counted, conn>>

(* The services that answer the connection itself.                         *)
accept_tcp_one_shot(written) ==
    LET r == build_tcp_one_shot_response(lis.svc)
    IN  /\ conn = "new" /\ ~lis.ssl /\ explicit_tcp_one_shot_protocol(lis.svc)
        /\ evs' = evs + 1
        /\ out' = IF written THEN r ELSE out
        /\ counted' = IF written THEN [counted EXCEPT !.out = Len(r)] ELSE counted
        /\ conn' = IF written THEN "closed" ELSE "failed"
        /\ UNCHANGED <<lis, layer, disk, sent, packets, got, buf, st, greeted>>

(* send_tcp_banner and try_tcp_tls_upgrade.  The banner goes out in clear  *)
(* only on a listener without TLS, or MySQL's, which upgrades later.  A    *)
(* client of a TLS listener that does not start with TLS is served in      *)
(* clear, without a banner; a handshake that fails ends the connection.    *)
Greets(s) == s \in {"irc", "smtp", "pop3", "imap", "ftp", "ssh", "mysql", "telnet"}
send_tcp_banner(tls, written) ==
    LET upgrade == lis.ssl /\ lis.svc # "mysql" /\ tls # "none"
        banner  == Greets(lis.svc) /\ (~lis.ssl \/ lis.svc = "mysql" \/ tls = "ok")
    IN  /\ conn = "new" /\ (lis.ssl \/ ~explicit_tcp_one_shot_protocol(lis.svc))
        /\ tls # "none" => lis.ssl /\ lis.svc # "mysql"
        /\ layer' = IF upgrade /\ tls = "ok" THEN "tls" ELSE layer
        /\ greeted' = IF banner /\ written THEN greeted + 1 ELSE greeted
        /\ conn' = CASE upgrade /\ tls = "failed" -> "closed"
                     [] banner /\ ~written       -> "failed"
                     [] OTHER                    -> "open"
        /\ UNCHANGED <<lis, disk, sent, packets, got, buf, st, out, evs, counted>>

(* Mutant: what could not be written is counted as sent.                   *)
run_tcp_frame_loop_counts(n) ==
    conn = "open" /\ got + n <= Len(sent) /\ \E c \in {ReadStep(n, layer = "plain")} :
        /\ c.end \notin {"upgrade", "error"}
        /\ got' = got + n /\ buf' = c.b /\ st' = c.s /\ evs' = evs + c.ev
        /\ counted' = [in |-> counted.in + n, out |-> counted.out + Len(c.out)]
        /\ \/ out' = out \o c.out /\ conn' = IF c.end = "close" THEN "closed" ELSE "open"
           \/ c.out # <<>> /\ conn' = "failed" /\ UNCHANGED out
        /\ UNCHANGED <<lis, layer, disk, sent, packets, greeted>>
(* A read returns n symbols; the frames they complete are handled in turn, *)
(* their answers collected and written at once.  A handler's error drops   *)
(* them and the accounting.                                                *)
run_tcp_frame_loop(n) ==
    conn = "open" /\ got + n <= Len(sent) /\ \E c \in {ReadStep(n, layer = "plain")} :
        /\ got' = got + n
        /\ c.end # "upgrade" /\ buf' = c.b /\ st' = c.s /\ evs' = evs + c.ev
        /\ \/ /\ c.end = "error"
              /\ conn' = "error" /\ UNCHANGED <<out, counted>>
           \/ /\ c.end # "error"
              /\ out' = out \o c.out
              /\ counted' = [in |-> counted.in + n, out |-> counted.out + Len(c.out)]
              /\ conn' = IF c.end = "close" THEN "closed" ELSE "open"
           \/ /\ c.end # "error" /\ c.out # <<>>
              /\ counted' = [counted EXCEPT !.in = @ + n]
              /\ conn' = "failed" /\ UNCHANGED out
        /\ UNCHANGED <<lis, layer, disk, sent, packets, greeted>>

(* Mutant: the upgrade is offered again inside TLS.                        *)
mysql_starttls_again(n, tls) ==
    lis.svc = "mysql" /\ lis.ssl /\ conn = "open" /\ got + n <= Len(sent)
    /\ \E c \in {ReadStep(n, TRUE)} :
        /\ c.end = "upgrade" /\ c.b = <<>>
        /\ got' = got + n /\ greeted' = greeted + 1 /\ layer' = "tls" /\ buf' = c.b
        /\ UNCHANGED <<lis, disk, sent, packets, st, out, evs, counted, conn>>
(* MySQL's SSLRequest: the answers so far go out, none of it is counted;   *)
(* bytes after the request end the connection, and so does a failed        *)
(* handshake.  The session over TLS is a new one, greeting and all.        *)
mysql_starttls(n, tls) ==
    lis.svc = "mysql" /\ lis.ssl /\ layer = "plain" /\ conn = "open" /\ got + n <= Len(sent)
    /\ \E c \in {ReadStep(n, TRUE)} :
        /\ c.end = "upgrade"
        /\ got' = got + n /\ evs' = evs + c.ev /\ out' = out \o c.out
        /\ IF c.b = <<>> /\ tls
           THEN layer' = "tls" /\ st' = NewSession(lis) /\ greeted' = greeted + 1 /\ conn' = conn
           ELSE conn' = "closed" /\ UNCHANGED <<layer, st, greeted>>
        /\ buf' = c.b
        /\ UNCHANGED <<lis, disk, sent, packets, counted>>

(* The client has closed its end, or the read timed out.                   *)
ReadEnds ==
    /\ conn = "open" /\ got = Len(sent)
    /\ conn' = "closed"
    /\ UNCHANGED <<lis, layer, disk, sent, packets, got, buf, st, greeted, out, evs, counted>>

Done == conn \notin {"new", "open"} /\ UNCHANGED vars

Next == \/ ClientSends
        \/ \E written \in BOOLEAN : accept_tcp_one_shot(written)
        \/ \E tls \in {"none", "ok", "failed"}, written \in BOOLEAN : send_tcp_banner(tls, written)
        \/ \E n \in 1 .. Len(sent) - got : run_tcp_frame_loop(n)
        \/ \E n \in 1 .. Len(sent) - got, tls \in BOOLEAN : mysql_starttls(n, tls)
        \/ ReadEnds
        \/ Done

Spec == Init /\ [][Next]_vars

------------------------------------------------------------------------------
TypeOK ==
    /\ lis \in Listeners /\ layer \in {"plain", "tls"} /\ disk \in BOOLEAN
    /\ got \in 0 .. Len(sent) /\ Len(buf) <= got
    /\ DOMAIN st = DOMAIN NewSession(lis)
    /\ greeted \in 0 .. 2 /\ evs \in Nat
    /\ counted \in [in : Nat, out : Nat]
    /\ conn \in {"new", "open", "closed", "failed", "error"}

(* Services whose messages say where they end.  SOCKS, NKN, raw and SMB    *)
(* take what one read returns for a message, detection looks at it; so do  *)
(* PostgreSQL for an untyped message too short for its own length field    *)
(* and LDAP for what is no LDAP message.                                   *)
Undelimited(x) == x.k = "text" \/ (x.k = "Startup" /\ x.a = "short")
SelfDelimiting == {"smtp", "pop3", "imap", "irc", "telnet", "finger", "ident", "http", "dns",
                   "mysql", "postgres", "memcached", "ldap", "ssh", "rdp", "mqtt", "redis"}
Upgrades == lis.svc = "mysql" /\ lis.ssl

(* One of two conversations was refused for its size and both are the same *)
(* up to the refusal.                                                      *)
RefusedLater(a, b) ==
    /\ a # <<>> /\ a[Len(a)] \in {"431", "413"}
    /\ Len(a) - 1 <= Len(b) /\ SubSeq(a, 1, Len(a) - 1) = SubSeq(b, 1, Len(a) - 1)

(* How TCP cuts the stream makes no difference: the answers, the state,    *)
(* the events and what is left in connection_buf (run_tcp_frame_loop) are  *)
(* those of one read of everything, be it of what was read so far or, once *)
(* the server has closed, of all that was sent: a frame that ends a        *)
(* session ends it in every cutting.  Only a size limit that is compared   *)
(* with the buffer and not with the message tells the cuttings apart:      *)
(* Redis closes on pipelined commands that together exceed it and came in  *)
(* one read (extract_redis_frame), and HTTP refuses with 431 or 413 a      *)
(* request at its limit whose last symbols are late (extract_http_request, *)
(* extract_chunked_http_body_len); until then the answers are the same.    *)
SegmentationIndependent ==
    LET n == IF conn = "closed" THEN Len(sent) ELSE got
    IN
    /\ lis.svc \in SelfDelimiting /\ ~Upgrades /\ \A i \in 1 .. n : ~Undelimited(sent[i])
    /\ conn \in {"open", "closed"} /\ got > 0
    /\ lis.svc = "redis" => n <= MAX_FRAME_SIZE
    => \E c \in {FrameLoop(lis, layer = "plain", SubSeq(sent, 1, n), NewSession(lis))} :
          \/ out = c.out /\ st = c.s /\ buf \o SubSeq(sent, got + 1, n) = c.b /\ evs = c.ev
          \/ lis.svc = "http" /\ (RefusedLater(out, c.out) \/ RefusedLater(c.out, out))

(* update_session_bytes is never told of a byte that was not read or not   *)
(* written, and what it is not told of is exactly this: the greetings of   *)
(* send_tcp_banner, which nothing counts, the last read of a connection    *)
(* that a handler's error ended, and the read that held MySQL's SSLRequest *)
(* with the answers that went out before it (run_tcp_frame_loop returns    *)
(* before the accounting in both).                                         *)
BytesAccounted ==
    /\ counted.in <= got /\ counted.out <= Len(out)
    /\ conn = "error" => counted.in < got
    /\ ~Upgrades => /\ conn # "error" => counted.in = got
                    /\ counted.out = Len(out)
    /\ Upgrades /\ layer = "plain" /\ conn \in {"open", "failed"} => counted = [in |-> got, out |-> Len(out)]
    /\ Upgrades /\ layer = "tls" => counted.in < got

(* After the goodbye of a service nothing more is sent, whatever else the  *)
(* client had pipelined (close_after_response, TelnetState::Disconnected,  *)
(* RedisState::Disconnected).  A session that is over is also closed, but  *)
(* for two that tcp_frame_closes_session does not know: an MQTT client     *)
(* refused for its client id, who hears nothing after that, and a Redis    *)
(* QUIT in an array whose count is not written in its shortest form.       *)
Goodbye == [smtp |-> "221", irc |-> "ERROR", telnet |-> "Connection closed.", mqtt |-> "CONNACK 2"]
NothingAfterGoodbye ==
    /\ lis.svc \in DOMAIN Goodbye
       => \A i \in 1 .. Len(out) - 1 : out[i] # Goodbye[lis.svc]
    /\ lis.svc \in {"mqtt", "redis"} /\ st[lis.svc].state = "Disconnected" /\ conn = "open"
       => IF lis.svc = "mqtt" THEN out = <<"CONNACK 2">>
          ELSE \E i \in 1 .. got : sent[i].k = "array" /\ sent[i].a # ""

(* handle_smtp_data answers "250 Queued" only for a message it has written *)
(* to the mail directory, and for each of them on a connection that did    *)
(* not fail (an error later in the same read drops the answer of a message *)
(* that is saved); after 354 the next answer is about the message, never   *)
(* to a line inside it.                                                    *)
QueuedIsSaved ==
    lis.svc = "smtp" =>
       LET queued == Len(SelectSeq(out, LAMBDA r : r = "250 Queued"))
           saved  == Len(st["smtp"].saved)
       IN
       /\ queued <= saved /\ (conn \in {"open", "closed"} => queued = saved)
       /\ \A i \in 1 .. Len(out) - 1 : out[i] = "354" => out[i+1] \in {"250 Queued", "552"}

(* The handshakes of MqttHandler, handle_telnet and handle_ssh: the first  *)
(* answer is CONNACK and there is only one; nothing of the shell is seen   *)
(* before a login; the key exchange comes first.                           *)
HandshakeFirst ==
    /\ lis.svc = "mqtt" => \A i \in DOMAIN out : (i = 1) <=> (out[i] \in {"CONNACK", "CONNACK 2"})
    /\ lis.svc = "telnet" =>
         \A i \in DOMAIN out : out[i] \in {"output", "prompt", "not found", "Connection closed."}
                              => \E j \in 1 .. i - 1 : out[j] = "Login successful"
    /\ lis.svc = "ssh" => \A i \in DOMAIN out : (i = 1) <=> (out[i] = "KEXINIT")

(* Two parsers of HTTP: what extract_http_request takes for one complete   *)
(* request, HttpRequest::parse does not find incomplete (it would be       *)
(* answered 400 for want of bytes that came), unless it is of HTTP/1.0 and *)
(* names its host twice, which that parser reports as incomplete.          *)
HttpFramesParse ==
    lis.svc = "http" =>
       \A r \in {extract_http_request(sent)} : r.r = "complete" =>
          \A f \in {SubSeq(sent, 1, r.n)} :
             /\ parse_http_request_bytes(f).r # "none"
             /\ HttpRequestParse(f).r = "none" => Len(HeadersOf(f, "Host")) > 1

(* No request reads outside the webroot or the default files, however its  *)
(* path is written (is_unsafe_webroot_path before every read).             *)
WebrootContained == lis.svc = "http" => \A i \in DOMAIN out : out[i] # "secret"

(* Two parsers of every binary protocol: a first message that a handler    *)
(* answers, and not with an error, is one its taster recognises, so that a *)
(* listener without a protocol of its own answers the same.  Answering     *)
(* with an error is also MQTT's refusal of an empty client id (CONNACK 2), *)
(* which the taster does not take for a CONNECT at all.                    *)
SelfIdentifying == {"mqtt", "mysql", "postgres", "memcached", "ldap", "socks", "smb", "rdp", "nkn",
                    "http", "redis"}
Refusals == {"400", "ERROR", "ErrorResponse", "ERR 1043", "ERR 1047", "ERR 1049", "ERR 1064",
             "ERR 1065", "ERR 1146", "Invalid arguments", "Unknown command", "CONNACK 2"}
DetectionAgrees ==
    /\ lis.svc \in SelfIdentifying /\ packets = 1 /\ got = Len(sent) /\ buf = <<>>
    /\ out # <<>> /\ out[1] \notin Refusals /\ ~Starts(sent, {"inline"})
    => route_tcp(sent, lis.port).name = lis.svc

(* CLIENT TRACKING keeps its settings consistent over any sequence of      *)
(* commands (client_tracking_response, client_caching, RESET): prefixes    *)
(* never overlap and are only broadcast ones, a caching choice stands only *)
(* in the mode that asked for it, and off means all of it is off.          *)
TrackingConsistent ==
    lis.svc = "redis" =>
       LET r == st["redis"]
       IN  /\ r.bcast => r.on /\ r.prefixes # {}
           /\ \A p, q \in r.prefixes : p # q => ~prefixes_overlap(p, q)
           /\ ~(r.optin /\ r.optout)
           /\ r.caching = "YES" => r.on /\ r.optin
           /\ r.caching = "NO"  => r.on /\ r.optout
           /\ ~r.on => r.redirect = "-1" /\ r.prefixes = {} /\ ~r.optin /\ ~r.optout
==============================================================================
