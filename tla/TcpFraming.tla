----------------------------- MODULE TcpFraming -----------------------------
(***************************************************************************)
(* How the TCP handlers cut a byte stream into frames                      *)
(* (listeners/tcp_framing.rs and tcp_framing/http.rs).                     *)
(*                                                                         *)
(* The stream is a sequence of symbols.  A symbol stands for a run of      *)
(* bytes no rule looks into: a word of a line, a line end, a fixed size    *)
(* header with the length it declares, one unit of a body.  Sizes and      *)
(* limits are counted in symbols.                                          *)
(***************************************************************************)
EXTENDS Naturals, Sequences, FiniteSets

CONSTANTS MAX_LINE_FRAME_SIZE,     \* also the memcached line and HTTP header limits
          MAX_SMTP_DATA_SIZE,
          MAX_FRAME_SIZE,          \* the limit of the length prefixed formats
          MAX_HTTP_REQUEST_SIZE,
          Body                     \* Body[a]: the fields of a message whose argument class is a

ASSUME LimitsAssumption ==
    {MAX_LINE_FRAME_SIZE, MAX_SMTP_DATA_SIZE, MAX_FRAME_SIZE, MAX_HTTP_REQUEST_SIZE} \subseteq Nat \ {0}

(* k is the kind of the symbol, a the class of its argument, n the length  *)
(* or the number of elements it declares.                                  *)
Symbol(k, a, n) == [k |-> k, a |-> a, n |-> n]
CRLF == Symbol("crlf", "", 0)
LF   == Symbol("lf", "", 0)
DOT  == Symbol("dot", "", 0)
Unit == Symbol("unit", "", 0)

Line(k, a)     == <<Symbol(k, a, 0), CRLF>>
Packet(k, a, n) == <<Symbol(k, a, n)>> \o [i \in 1 .. n |-> Unit]

------------------------------------------------------------------------------
(* TcpFrameResult.                                                         *)
Result(r, n, reply) == [r |-> r, n |-> n, reply |-> reply]
Complete(n)     == Result("complete", n, <<>>)
Incomplete      == Result("incomplete", 0, <<>>)
Invalid(reply)  == Result("invalid", 0, reply)
TooLarge(reply) == Result("too_large", 0, reply)

(* What every framer does once it knows how long the frame is.             *)
optional_frame(buf, n) == IF Len(buf) < n THEN Incomplete ELSE Complete(n)

(* The whole buffer, whatever it holds.                                    *)
extract_immediate_frame(buf) ==
    IF buf = <<>> THEN Incomplete ELSE Complete(Len(buf))

Starts(buf, S) == buf # <<>> /\ Head(buf).k \in S
FirstAt(buf, P(_)) ==
    LET S == {i \in DOMAIN buf : P(i)}
    IN  IF S = {} THEN 0 ELSE CHOOSE i \in S : \A j \in S : i <= j
LineEnd(buf) == FirstAt(buf, LAMBDA i : buf[i] \in {CRLF, LF})

extract_limited_line_frame(buf, max) ==
    LET e == LineEnd(buf)
    IN  IF e > max \/ (e = 0 /\ Len(buf) > max) THEN TooLarge(<<>>)
        ELSE IF e = 0 THEN Incomplete ELSE Complete(e)

(* A message ends at a line that is a single dot; the first line may be it. *)
(* Bare line feeds end no line here.                                        *)
extract_smtp_data_frame(buf) ==
    LET dot == FirstAt(buf, LAMBDA i : /\ i + 2 <= Len(buf)
                                       /\ buf[i] = CRLF
                                       /\ buf[i+1] = DOT
                                       /\ buf[i+2] = CRLF)
        end == IF dot = 0 THEN 0 ELSE dot + 2
    IN  IF Len(buf) >= 2 /\ buf[1] = DOT /\ buf[2] = CRLF THEN Complete(2)
        ELSE IF end > MAX_SMTP_DATA_SIZE \/ (end = 0 /\ Len(buf) > MAX_SMTP_DATA_SIZE)
             THEN TooLarge(<<"552">>)
        ELSE IF end = 0 THEN Incomplete ELSE Complete(end)

------------------------------------------------------------------------------
(* Length prefixed formats: the header symbol declares n units.             *)
Declared(buf) == 1 + Head(buf).n

extract_length_prefixed_frame(buf) ==
    IF buf = <<>> THEN Incomplete ELSE optional_frame(buf, Declared(buf))

Limited(buf, reply) ==
    IF Declared(buf) > MAX_FRAME_SIZE THEN TooLarge(reply)
    ELSE optional_frame(buf, Declared(buf))

(* A record whose version or length is out of range is answered with an alert. *)
extract_tls_frame(buf) ==
    IF buf = <<>> THEN Incomplete
    ELSE IF ~Starts(buf, {"TLS"}) THEN Invalid(<<>>)
    ELSE IF Head(buf).a = "bad" \/ Head(buf).n < 1 THEN Invalid(<<"alert">>)
    ELSE Limited(buf, <<"alert">>)

extract_ssh_payload_frame(buf) ==
    IF buf = <<>> THEN Incomplete
    ELSE IF Head(buf).n < 1 THEN Invalid(<<>>)
    ELSE Limited(buf, <<>>)

(* mqtt_fixed_header_is_valid: the types a client may send, the flags each *)
(* requires, no body where none is defined.                                *)
mqtt_fixed_header_is_valid(h) ==
    /\ h.a # "flags"
    /\ h.k \in {"CONNECT", "PUBLISH", "PUBACK", "PUBREC", "PUBREL", "PUBCOMP",
                "SUBSCRIBE", "UNSUBSCRIBE", "PINGREQ", "DISCONNECT"}
               \cup {"SUBACK", "UNSUBACK"}
    /\ h.k \in {"PINGREQ", "DISCONNECT"} => h.n = 0

extract_mqtt_frame(buf) ==
    IF buf = <<>> THEN Incomplete
    ELSE IF Head(buf).n > MAX_FRAME_SIZE THEN TooLarge(<<>>)
    ELSE IF ~mqtt_fixed_header_is_valid(Head(buf)) THEN Invalid(<<>>)
    ELSE Limited(buf, <<>>)

extract_mysql_frame(buf) == IF buf = <<>> THEN Incomplete ELSE Limited(buf, <<>>)

(* Typed messages declare at least their own length field; an untyped one  *)
(* (start-up) that does not is passed on with all that has arrived.        *)
is_postgres_typed_message(h) ==
    h.k \in {"Query", "Terminate", "Parse", "Bind", "Describe", "Execute",
             "Close", "Flush", "Sync", "FunctionCall"}
extract_postgres_frame(buf) ==
    IF buf = <<>> THEN Incomplete
    ELSE IF Head(buf).a = "short"
         THEN IF is_postgres_typed_message(Head(buf)) THEN Invalid(<<>>)
              ELSE extract_immediate_frame(buf)
    ELSE Limited(buf, <<>>)

(* Anything that is not a session service message of this size range goes  *)
(* on as it is.                                                            *)
extract_smb_frame(buf) ==
    IF buf = <<>> THEN Incomplete
    ELSE IF ~Starts(buf, {"NBSS"}) THEN extract_immediate_frame(buf)
    ELSE optional_frame(buf, Declared(buf))

extract_rdp_frame(buf) ==
    IF buf = <<>> THEN Incomplete
    ELSE IF ~Starts(buf, {"TPKT"}) \/ Head(buf).a = "bad" \/ Head(buf).n < 1
         THEN Invalid(<<>>)
    ELSE optional_frame(buf, Declared(buf))

(* ldap_total_len and parse_ber_length: "bad" is an indefinite, overlong or *)
(* not minimal length.                                                      *)
ldap_total_len(buf) ==
    CASE ~Starts(buf, {"LDAP"})          -> "not_ldap"
      [] Starts(buf, {"LDAP"}) /\ Head(buf).a = "bad" -> "invalid"
      [] OTHER -> "complete"
extract_ldap_frame(buf) ==
    IF buf = <<>> THEN Incomplete
    ELSE CASE ldap_total_len(buf) = "not_ldap" -> extract_immediate_frame(buf)
           [] ldap_total_len(buf) = "invalid"  -> Invalid(<<>>)
           [] OTHER -> Limited(buf, <<>>)

------------------------------------------------------------------------------
(* RESP: an array header declares its number of elements, each a bulk      *)
(* header and its body; any other first byte starts an inline command.     *)
(* The limit is compared with the whole buffer, pipelined commands and all. *)
BulkEnd(buf, p) ==
    IF p > Len(buf) THEN Incomplete
    ELSE IF buf[p].k # "bulk" \/ buf[p].a = "null" THEN Invalid(<<>>)
    ELSE IF p + buf[p].n > MAX_FRAME_SIZE THEN TooLarge(<<>>)
    ELSE optional_frame(buf, p + buf[p].n)
extract_redis_resp_array_frame(buf) ==
    LET After[i \in 0 .. Head(buf).n] ==
            IF i = 0 THEN Complete(1)
            ELSE LET r == After[i-1]
                 IN  IF r.r # "complete" THEN r ELSE BulkEnd(buf, r.n + 1)
    IN  IF Head(buf).n = 0 THEN Invalid(<<>>) ELSE After[Head(buf).n]
extract_redis_frame(buf) ==
    IF buf = <<>> THEN Incomplete
    ELSE IF Len(buf) > MAX_FRAME_SIZE THEN TooLarge(<<>>)
    ELSE IF Starts(buf, {"array"}) THEN extract_redis_resp_array_frame(buf)
    ELSE extract_limited_line_frame(buf, MAX_LINE_FRAME_SIZE)

(* A storage command declares the size of the body that follows its line.  *)
MemcachedStorage == {"set", "add", "replace", "append", "prepend", "cas"}
extract_memcached_binary_frame(buf) == Limited(buf, <<>>)
extract_memcached_frame(buf) ==
    LET e     == LineEnd(buf)
        total == e + Head(buf).n + 1
    IN  IF buf = <<>> THEN Incomplete
        ELSE IF Starts(buf, {"bin"}) THEN extract_memcached_binary_frame(buf)
        ELSE IF e > MAX_LINE_FRAME_SIZE \/ (e = 0 /\ Len(buf) > MAX_LINE_FRAME_SIZE)
             THEN TooLarge(<<>>)
        ELSE IF e = 0 THEN Incomplete
        ELSE IF buf[e] = LF THEN Invalid(<<"ERROR">>)
        ELSE IF Head(buf).k \notin MemcachedStorage THEN Complete(e)
        ELSE IF Head(buf).a = "bad" THEN Invalid(<<"ERROR">>)
        ELSE IF total > MAX_FRAME_SIZE THEN TooLarge(<<>>)
        ELSE IF Len(buf) < total THEN Incomplete
        ELSE IF buf[total] # CRLF THEN Invalid(<<>>)
        ELSE Complete(total)

------------------------------------------------------------------------------
(* SOCKS.  A version 4 request ends with its strings.  Version 5 keeps no  *)
(* state between greeting and request: a buffer exactly as long as the     *)
(* greeting it would be is one, any other needs the reserved byte (Unit,   *)
(* which is also the method "no authentication") after its first two bytes. *)
(* A request is the header of its command byte, Unit and an address.       *)
extract_socks4_frame(buf) ==
    IF Len(buf) > MAX_FRAME_SIZE THEN TooLarge(<<>>)
    ELSE optional_frame(buf, Declared(buf))
extract_socks5_frame(buf) ==
    IF Len(buf) = Declared(buf) THEN Complete(Declared(buf))
    ELSE IF Len(buf) >= 2 /\ buf[2] # Unit THEN Invalid(<<>>)
    ELSE IF Head(buf).n = 0 THEN Complete(1)
    ELSE IF Len(buf) < Declared(buf) \/ Len(buf) < 3 THEN Incomplete
    ELSE IF buf[3].k # "addr" THEN extract_immediate_frame(buf)
    ELSE optional_frame(buf, 3 + buf[3].n)
extract_socks_frame(buf) ==
    IF buf = <<>> THEN Incomplete
    ELSE CASE Starts(buf, {"SOCKS4"}) -> extract_socks4_frame(buf)
           [] Starts(buf, {"SOCKS5"}) -> extract_socks5_frame(buf)
           [] OTHER -> extract_immediate_frame(buf)

(* NKN: one JSON value per buffer; bytes after it make the buffer invalid. *)
extract_nkn_frame(buf) ==
    IF buf = <<>> THEN Incomplete
    ELSE IF Len(buf) > MAX_FRAME_SIZE THEN TooLarge(<<>>)
    ELSE IF ~Starts(buf, {"json"}) THEN extract_immediate_frame(buf)
    ELSE IF Head(buf).a = "bad" THEN Invalid(<<>>)
    ELSE IF Len(buf) < Declared(buf) THEN Incomplete
    ELSE IF Len(buf) > Declared(buf) THEN Invalid(<<>>)
    ELSE Complete(Len(buf))

------------------------------------------------------------------------------
(* HTTP.  The request line is buf[1]; header lines carry a length ("CL"),  *)
(* a coding ("TE") or nothing that matters ("HDR").  REQ is a line of      *)
(* three words; its method must be a token and its version a known one.    *)
valid_http_request_line(head) ==
    /\ \A i \in DOMAIN head : head[i] # LF
    /\ head[1].k = "REQ"
    /\ Body[head[1].a].method # "bad" /\ Body[head[1].a].version \in {"1.0", "1.1"}
http_body_framing(head) ==
    LET Of(k)   == {head[i] : i \in {j \in DOMAIN head : head[j].k = k}}
        bad     == \E i \in DOMAIN head : head[i] = LF \/ head[i].a = "bad"
        chunked == {s \in Of("TE") : s.a = "chunked"}
    IN  IF \/ bad
           \/ Of("TE") # {} /\ (Of("CL") # {} \/ Of("TE") # chunked)
           \/ \E s, t \in Of("CL") : s.n # t.n
        THEN [b |-> "invalid", n |-> 0]
        ELSE IF Of("TE") # {} THEN [b |-> "chunked", n |-> 0]
        ELSE IF \E s \in Of("CL") : s.n > MAX_HTTP_REQUEST_SIZE THEN [b |-> "large", n |-> 0]
        ELSE [b |-> "length",
              n |-> IF Of("CL") = {} THEN 0 ELSE (CHOOSE s \in Of("CL") : TRUE).n]

(* What is not yet complete must fit the limit as far as it has come.      *)
MoreOrTooLarge(buf) == IF Len(buf) > MAX_HTTP_REQUEST_SIZE THEN TooLarge(<<"413">>) ELSE Incomplete
parse_http_chunk_size(s) == s.k = "chunk" /\ s.a # "bad"
(* Mutant: trailers are not waited for.                                    *)
TrailerEnd_none(buf, p) == IF p <= Len(buf) THEN Complete(p) ELSE Incomplete
(* Chunks from a position on: a size line, that many units, a line end.    *)
(* The chunk of size 0 is followed by trailers and a blank line.           *)
TrailerEnd(buf, p) ==
    LET e == FirstAt(buf, LAMBDA i : /\ p < i /\ i < Len(buf)
                                     /\ buf[i] = CRLF /\ buf[i+1] = CRLF)
        stop == IF e = 0 THEN Len(buf) ELSE e
    IN  IF p <= Len(buf) /\ buf[p] = CRLF THEN Complete(p)
        ELSE IF \E i \in p .. stop : buf[i] = LF THEN Invalid(<<"400">>)
        ELSE IF e = 0 THEN MoreOrTooLarge(buf)
        ELSE IF \E i \in p .. e : buf[i].a = "bad" THEN Invalid(<<"400">>)
        ELSE IF e + 1 > MAX_HTTP_REQUEST_SIZE THEN TooLarge(<<"413">>)
        ELSE Complete(e + 1)
extract_chunked_http_body_len(buf, start) ==
    LET From[p \in 1 .. Len(buf) + 1] ==
          LET eol   == FirstAt(buf, LAMBDA i : i >= p /\ buf[i] \in {CRLF, LF})
              after == p + 2 + buf[p].n
          IN IF eol = 0 THEN MoreOrTooLarge(buf)
             ELSE IF buf[eol] = LF \/ eol # p + 1 \/ ~parse_http_chunk_size(buf[p])
                  THEN Invalid(<<"400">>)
             ELSE IF buf[p].n = 0 THEN TrailerEnd(buf, p + 2)
             ELSE IF after > MAX_HTTP_REQUEST_SIZE THEN TooLarge(<<"413">>)
             ELSE IF Len(buf) < after THEN Incomplete
             ELSE IF buf[after] # CRLF THEN Invalid(<<"400">>)
             ELSE From[after + 1]
    IN  From[start]

extract_http_request(buf) ==
    LET e    == FirstAt(buf, LAMBDA i : /\ i + 1 <= Len(buf)
                                        /\ buf[i] = CRLF /\ buf[i+1] = CRLF)
        head == SubSeq(buf, 1, e)
        body == http_body_framing(head)
    IN  IF e - 1 > MAX_LINE_FRAME_SIZE \/ (e = 0 /\ Len(buf) > MAX_LINE_FRAME_SIZE)
        THEN TooLarge(<<"431">>)
        ELSE IF e = 0 THEN Incomplete
        ELSE IF ~valid_http_request_line(head) THEN Invalid(<<"400">>)
        ELSE CASE body.b = "invalid" -> Invalid(<<"400">>)
               [] body.b = "large"   -> TooLarge(<<"413">>)
               [] body.b = "chunked" -> extract_chunked_http_body_len(buf, e + 2)
               [] body.b = "length"  ->
                    IF e + 1 + body.n > MAX_HTTP_REQUEST_SIZE THEN TooLarge(<<"413">>)
                    ELSE optional_frame(buf, e + 1 + body.n)

------------------------------------------------------------------------------
(* protocol_frame_mode: the framing of a listener's protocol.              *)
protocol_frame_mode(name, ssh_first_packet) ==
    CASE name = "dns"                           -> "DnsTcp"
      [] name = "tls"                           -> "Tls"
      [] name \in {"http", "upnp"}              -> "Http"
      [] name \in {"smtp", "ftp", "pop3", "imap", "irc", "ircs", "telnet",
                   "finger", "ident", "syslogrecv"} -> "Line"
      [] name \in {"daytime", "time", "chargen", "quotd", "dummy", "raw", "echo"} -> "Immediate"
      [] name = "ssh" -> IF ssh_first_packet THEN "SshBanner" ELSE "SshPayload"
      [] name = "mysql"                         -> "Mysql"
      [] name = "postgres"                      -> "Postgres"
      [] name = "socks"                         -> "Socks"
      [] name = "smb"                           -> "Smb"
      [] name = "rdp"                           -> "Rdp"
      [] name = "ldap"                          -> "Ldap"
      [] name = "redis"                         -> "Redis"
      [] name = "memcached"                     -> "Memcached"
      [] name = "mqtt"                          -> "Mqtt"
      [] name = "nkn"                           -> "Nkn"
      [] OTHER                                  -> "none"

next_tcp_frame_for_mode(buf, mode) ==
    CASE mode = "DnsTcp"                -> extract_length_prefixed_frame(buf)
      [] mode = "Http"                  -> extract_http_request(buf)
      [] mode \in {"Line", "SshBanner"} ->
            extract_limited_line_frame(buf, MAX_LINE_FRAME_SIZE)
      [] mode = "SmtpData"              -> extract_smtp_data_frame(buf)
      [] mode = "SshPayload"            -> extract_ssh_payload_frame(buf)
      [] mode = "Mysql"                 -> extract_mysql_frame(buf)
      [] mode = "Postgres"              -> extract_postgres_frame(buf)
      [] mode = "Socks"                 -> extract_socks_frame(buf)
      [] mode = "Smb"                   -> extract_smb_frame(buf)
      [] mode = "Rdp"                   -> extract_rdp_frame(buf)
      [] mode = "Ldap"                  -> extract_ldap_frame(buf)
      [] mode = "Mqtt"                  -> extract_mqtt_frame(buf)
      [] mode = "Tls"                   -> extract_tls_frame(buf)
      [] mode = "Redis"                 -> extract_redis_frame(buf)
      [] mode = "Memcached"             -> extract_memcached_frame(buf)
      [] mode = "Nkn"                   -> extract_nkn_frame(buf)
      [] mode = "Immediate"             -> extract_immediate_frame(buf)

------------------------------------------------------------------------------
(* What the handlers have in common.  A handler is given the state it      *)
(* keeps for the connection and one frame, and returns the new state, the  *)
(* replies it adds to the response, how many events it records, and        *)
(* whether it failed (which ends the connection).                          *)
Step(s, out, ev) == [s |-> s, out |-> out, ev |-> ev, err |-> FALSE]
Fail(s, ev)      == [s |-> s, out |-> <<>>, ev |-> ev, err |-> TRUE]

(* The command word of a line frame; the word of a blank line is empty.    *)
Word(f) == IF f[1] \in {CRLF, LF} THEN Symbol("", "none", 0) ELSE f[1]

(* A line is well formed when it ends with CRLF and has no NUL, no stray   *)
(* line separator, no excess length ("badline").                           *)
WellFormed(f) == f[Len(f)] # LF /\ Word(f).a # "badline"
==============================================================================
