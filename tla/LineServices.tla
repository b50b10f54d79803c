---------------------------- MODULE LineServices ----------------------------
(***************************************************************************)
(* The services that speak in lines: SMTP and POP3, whose connections have *)
(* a handler with state of their own, and IMAP, IRC, Telnet, Finger, Ident *)
(* and the fixed answer services, which keep little or nothing; with what  *)
(* listeners/tcp_dispatch.rs and tcp_response.rs do around each handler.   *)
(***************************************************************************)
EXTENDS TcpFraming

CONSTANT TelnetCredentials   \* the accepted pairs; none configured accepts all

------------------------------------------------------------------------------
(* SMTP: nettrap-proto-smtp's SmtpHandler and handle_smtp_data of          *)
(* listeners/tcp_response.rs.  A word's a is "none", "one" (the one valid  *)
(* argument the command takes) or "bad"; that of AUTH names the mechanism  *)
(* and whether initial data follows.  "b64" is a line of base64: a says    *)
(* what it decodes to.                                                     *)
SmtpNew == [auth |-> "None", data |-> FALSE, buf |-> <<>>, saved |-> <<>>]

SmtpNoArgument == {"RSET", "NOOP", "DATA", "QUIT", "HELP", "STARTTLS",
                   "X-EXPS", "X-EXCH50", "X-LINK2STATE"}
SmtpOneArgument == {"EHLO", "HELO", "MAIL", "RCPT", "VRFY"}
is_known_smtp_command(w) ==
    w.k \in SmtpNoArgument \cup SmtpOneArgument \cup {"AUTH", "EXPN"}

SmtpResult(code, auth) == [code |-> code, auth |-> auth]
invalid_auth_response == SmtpResult("535", "None")

(* A command that starts an exchange, by mechanism.                        *)
handle_auth(w) ==
    CASE w.a = "none"       -> SmtpResult("501", "None")
      [] w.a = "PLAIN"      -> SmtpResult("334", "PlainContinuation")
      [] w.a = "LOGIN"      -> SmtpResult("334", "LoginUsername")
      [] w.a = "CRAM"       -> SmtpResult("334", "CramResponse")
      [] w.a = "PLAIN good" -> SmtpResult("235", "None")
      [] w.a = "LOGIN good" -> SmtpResult("334", "LoginPassword")
      [] w.a \in {"PLAIN bad", "LOGIN bad"} -> invalid_auth_response
      [] w.a = "CRAM data"  -> SmtpResult("501", "None")
      [] OTHER              -> SmtpResult("504", "None")

handle_command(w) ==
    LET ok == CASE w.k = "DATA"     -> "354"
                [] w.k = "QUIT"     -> "221"
                [] w.k = "STARTTLS" -> "454"
                [] OTHER            -> "250"
    IN  IF w.k = "AUTH" THEN handle_auth(w)
        ELSE IF \/ w.k \in SmtpNoArgument /\ w.a = "none"
                \/ w.k \in SmtpOneArgument /\ w.a = "one"
             THEN SmtpResult(ok, "None")
        ELSE IF w.k \in SmtpNoArgument \cup SmtpOneArgument
             THEN SmtpResult("501", "None")
        ELSE SmtpResult("500", "None")

(* What a line of base64 must decode to in each state of an exchange:      *)
(* decode_auth_plain, decode_auth_login, decode_cram_response.  A text     *)
(* with a space in it is a user name and password too.                     *)
decode_auth(auth, w) ==
    /\ w.k = "b64"
    /\ w.a \in CASE auth = "PlainContinuation" -> {"user0pass"}
                 [] auth = "CramResponse"      -> {"user digest"}
                 [] OTHER                      -> {"text", "user digest"}

handle_with_state(f, auth) ==
    LET w == Word(f)
    IN  IF ~WellFormed(f) \/ w.a = "trail"
        THEN IF auth = "None" THEN SmtpResult("500", "None") ELSE invalid_auth_response
        ELSE IF w.k = "*" THEN SmtpResult("501", "None")
        ELSE IF w.k \in {"RSET", "QUIT"} \/ auth = "None" THEN handle_command(w)
        ELSE IF is_known_smtp_command(w) THEN SmtpResult("501", "None")
        ELSE IF ~decode_auth(auth, w) THEN invalid_auth_response
        ELSE IF auth = "LoginUsername" THEN SmtpResult("334", "LoginPassword")
        ELSE SmtpResult("235", "None")

(* The message of a data frame: what precedes the dot line, the dot that   *)
(* stuffs a line removed.                                                  *)
smtp_message_bytes_from_data_frame(f) ==
    LET content == SubSeq(f, 1, Len(f) - 2)
        Stuffed(i) == /\ content[i] = DOT
                      /\ i = 1 \/ content[i-1] = CRLF
                      /\ i < Len(content) /\ content[i+1] = DOT
        kept == {i \in DOMAIN content : ~Stuffed(i)}
        Nth(k) == CHOOSE i \in kept : Cardinality({j \in kept : j <= i}) = k
    IN  [k \in 1 .. Cardinality(kept) |-> content[Nth(k)]]

(* Mutant: a message that could not be written is acknowledged.            *)
handle_smtp_data_lossy(s, f, io) ==
    LET reply == handle_with_state(f, s.auth)
    IN  IF s.data
        THEN Step([s EXCEPT !.data = FALSE, !.buf = <<>>,
                            !.saved = IF io THEN Append(@, f) ELSE @], <<"250 Queued">>, 0)
        ELSE Step([s EXCEPT !.auth = reply.auth, !.data = reply.code = "354"], <<reply.code>>, 1)
(* io: the mail file could be created and written.  A command is recorded  *)
(* (handle_smtp_named) before it is handled; a message only goes to the    *)
(* text log.                                                               *)
handle_smtp_data(s, f, io) ==
    LET done  == [s EXCEPT !.data = FALSE, !.buf = <<>>]
        buf   == s.buf \o f
        mail  == smtp_message_bytes_from_data_frame(buf)
        reply == handle_with_state(f, s.auth)
        next  == [s EXCEPT !.auth = reply.auth]
    IN  IF s.data
        THEN IF Len(buf) > MAX_SMTP_DATA_SIZE THEN Step(done, <<"552">>, 0)
             ELSE IF ~io THEN Fail(done, 0)
             ELSE Step([done EXCEPT !.saved = Append(@, mail)], <<"250 Queued">>, 0)
        ELSE IF Word(f).a = "utf8" THEN Fail(s, 0)
        ELSE Step(IF reply.code = "354" THEN [next EXCEPT !.data = TRUE, !.buf = <<>>]
                  ELSE next, <<reply.code>>, 1)

------------------------------------------------------------------------------
(* POP3 (nettrap-proto-pop3).  Each connection has a handler of its own,   *)
(* whose only state is where an AUTH exchange stands.  A word's a is       *)
(* "none", "one", "two" (that many acceptable arguments), "number" and     *)
(* "nosuch" (a message number that exists or does not), or "bad"; the one  *)
(* message of the maildrop is number 1.                                    *)
Pop3New == "None"
OK  == "+OK"
ERR == "-ERR"

require_no_extra_args(w) == IF w.a = "none" THEN OK ELSE ERR
handle_list_command(w)   == IF w.a \in {"none", "number"} THEN OK ELSE ERR
handle_uidl_command(w)   == IF w.a \in {"none", "number"} THEN OK ELSE ERR
handle_retr_command(w)   == IF w.a = "number" THEN OK ELSE ERR

(* AUTH: the list of mechanisms, or the start of an exchange.              *)
handle_auth_command(w) ==
    CASE w.a = "none"       -> [reply |-> OK,  auth |-> "None"]
      [] w.a = "PLAIN"      -> [reply |-> "+", auth |-> "AuthPlain"]
      [] w.a = "LOGIN"      -> [reply |-> "+", auth |-> "AuthLoginUsername"]
      [] w.a = "PLAIN good" -> [reply |-> OK,  auth |-> "None"]
      [] OTHER              -> [reply |-> ERR, auth |-> "None"]

handle_stateless_command(w) ==
    LET reply ==
          CASE w.k \in {"USER", "PASS"}  -> IF w.a = "one" THEN OK ELSE ERR
            [] w.k \in {"STAT", "NOOP", "RSET", "CAPA", "QUIT"} -> require_no_extra_args(w)
            [] w.k = "LIST"              -> handle_list_command(w)
            [] w.k = "UIDL"              -> handle_uidl_command(w)
            [] w.k \in {"RETR", "DELE"}  -> handle_retr_command(w)
            [] w.k \in {"TOP", "APOP"}   -> IF w.a = "two" THEN OK ELSE ERR
            [] OTHER                     -> ERR
    IN  IF w.k = "AUTH" THEN handle_auth_command(w)
        ELSE [reply |-> reply, auth |-> "None"]

(* decode_auth_plain_credentials wants three fields, decode_auth_field a   *)
(* printable text.                                                         *)
decode_auth_plain_credentials(w) == w.k = "b64" /\ w.a = "id0user0pass"
decode_auth_field(w) == w.k = "b64" /\ w.a \in {"text", "user digest"}

(* The lock is held only around the two accesses to auth_state; the        *)
(* handler belongs to one connection, so the whole is one step.            *)
handle_with_auth_state(auth, w) ==
    LET Answer(r, a) == [reply |-> r, auth |-> a]
    IN  CASE w.k = "*" /\ auth # "None" -> Answer(ERR, "None")
          [] auth = "None" -> handle_stateless_command(w)
          [] auth = "AuthPlain" /\ w.k # "*" ->
               Answer(IF decode_auth_plain_credentials(w) THEN OK ELSE ERR, "None")
          [] auth = "AuthLoginUsername" /\ w.k # "*" ->
               IF decode_auth_field(w) THEN Answer("+", "AuthLoginPassword")
               ELSE Answer(ERR, "None")
          [] auth = "AuthLoginPassword" /\ w.k # "*" ->
               Answer(IF decode_auth_field(w) THEN OK ELSE ERR, "None")

(* A line that is no line, or ends with white space, leaves the exchange   *)
(* where it stands.  A line that is not UTF-8 is answered and not recorded. *)
Pop3Handle(auth, f) ==
    LET w == Word(f)
        r == handle_with_auth_state(auth, w)
    IN  IF w.a = "utf8" THEN Step(auth, <<ERR>>, 0)
        ELSE IF ~WellFormed(f) \/ w.a = "trail" THEN Step(auth, <<ERR>>, 1)
        ELSE Step(r.auth, <<r.reply>>, 1)

------------------------------------------------------------------------------
(* IMAP keeps no state: every command is answered alone.  A word's a is    *)
(* "none" or "some"; "badline" and "utf8" lines, and lines without a valid *)
(* tag ("notag"), have no command.                                         *)
ImapNoArgument   == {"CAPABILITY", "LOGOUT", "NOOP", "CHECK", "CLOSE", "EXPUNGE"}
ImapWithArgument == {"SELECT", "EXAMINE", "STATUS", "LIST", "LSUB", "FETCH",
                     "STORE", "APPEND", "ID", "UID"}
parse_imap_command_parts(f) ==
    WellFormed(f) /\ Word(f).k # "" /\ Word(f).a \notin {"utf8", "notag"}
ImapHandle(s, f) ==
    LET w == Word(f)
        ok == \/ w.k \in ImapNoArgument /\ w.a = "none"
              \/ w.k \in ImapWithArgument /\ w.a = "some"
        reply == IF ~parse_imap_command_parts(f) THEN "* BAD"
                 ELSE IF w.k = "LOGOUT" /\ w.a = "none" THEN "* BYE"
                 ELSE IF ok THEN "OK" ELSE "BAD"
    IN  Step(s, <<reply>>, 1)

------------------------------------------------------------------------------
(* IRC keeps the nick.  a is "none", "one" (the argument the command wants), *)
(* "bad" (one it refuses) or "many" (too many).                              *)
IrcNew == "unknown"
IrcReply(w, nick) ==
    LET Arg(none, bad, good) ==
            CASE w.a = "none" -> none [] w.a = "one" -> good [] OTHER -> bad
    IN  CASE w.k \in {"NICK", "PONG", "NOTICE"} -> <<>>
          [] w.k = "USER"    -> IF w.a = "one" THEN <<"001", nick>> ELSE <<"461">>
          [] w.k = "PING"    -> IF w.a = "none" THEN <<"409">> ELSE <<"PONG">>
          [] w.k = "JOIN"    -> Arg(<<"461">>, <<"476">>, <<"JOIN", "332", "353", "366">>)
          [] w.k = "PART"    -> Arg(<<"461">>, <<"476">>, <<"PART">>)
          [] w.k = "PRIVMSG" -> Arg(<<"411">>, <<"412">>, <<>>)
          [] w.k = "MODE"    -> Arg(<<"221">>, <<"476">>, <<"324">>)
          [] w.k = "WHO"     -> Arg(<<"352", "315">>, <<"461">>, <<"352", "315">>)
          [] w.k = "WHOIS"   -> Arg(<<"431">>, <<"461">>, <<"311", "312", "318">>)
          [] w.k = "LIST"    -> IF w.a = "many" THEN <<"461">> ELSE <<"321", "322", "323">>
          [] w.k = "QUIT"    -> <<"ERROR">>
          [] w.k = "CAP"     -> Arg(<<>>, <<"461">>, <<"CAP LS">>)
          [] OTHER           -> <<"421">>
(* handle_irc: an unusable line is answered and not recorded; a NICK with  *)
(* an argument changes the nick even when it is no nick.                   *)
handle_irc(nick, f) ==
    LET w    == Word(f)
        next == CASE w.k = "NICK" /\ w.a = "one" -> "nick"
                  [] w.k = "NICK" /\ w.a \in {"bad", "many"} -> "unknown"
                  [] OTHER -> nick
    IN  IF ~WellFormed(f) \/ w.a = "utf8" THEN Step(nick, <<"421">>, 0)
        ELSE IF w.a = "long" THEN Step(nick, <<"417">>, 1)
        ELSE Step(next, IrcReply(w, next), 1)

------------------------------------------------------------------------------
(* Telnet: a login, then a shell.  A word stands for itself as user name   *)
(* and password.                                                           *)
TelnetNew == [state |-> "WaitingUsername", username |-> ""]
accepts_credentials(user, pass) ==
    TelnetCredentials = {} \/ <<user, pass>> \in TelnetCredentials
telnet_command_closes_session(w) == w.k \in {"logout", "exit", "quit"} /\ w.a = "none"
TelnetPrints == {"ls", "id", "whoami", "uname", "pwd", "ps", "ifconfig", "ip", "free",
                 "uptime"}
TelnetQuiet  == {"", "cd", "enable", "system", "shell", "linuxshell"}
(* What the shell prints: the goodbye, output and a prompt, or the prompt. *)
telnet_handle_command(w) ==
    CASE telnet_command_closes_session(w) -> "Connection closed."
      [] \/ w.k = "echo"
         \/ w.k \in TelnetPrints /\ w.a = "none"
         \/ w.k = "cat" /\ w.a = "one"             -> "output"
      [] w.k \in TelnetQuiet \/ w.a # "none"        -> "prompt"
      [] OTHER                                      -> "not found"
telnet_line_value(f) == WellFormed(f) /\ Word(f).a \notin {"utf8", "control"}
handle_telnet(s, f) ==
    LET w == Word(f)
        To(state, user) == [state |-> state, username |-> user]
    IN  IF ~telnet_line_value(f) \/ s.state = "Disconnected" THEN Step(s, <<>>, 0)
        ELSE CASE s.state = "WaitingUsername" ->
                    Step(To("WaitingPassword", w.k), <<"Password:">>, 1)
               [] s.state = "WaitingPassword" ->
                    IF accepts_credentials(s.username, w.k)
                    THEN Step(To("Shell", s.username), <<"Login successful">>, 1)
                    ELSE Step(To("WaitingUsername", ""), <<"Login incorrect">>, 2)
               [] s.state = "Shell" ->
                    Step(IF telnet_command_closes_session(w)
                         THEN To("Disconnected", s.username) ELSE s,
                         <<telnet_handle_command(w)>>, 1)

------------------------------------------------------------------------------
(* Finger answers and records every line, Ident every line that is UTF-8.  *)
FingerHandle(s, f) ==
    LET w == Word(f)
    IN  Step(s, <<IF ~WellFormed(f) \/ w.a \in {"utf8", "bad"} THEN "No such user."
                  ELSE IF w.k = "" THEN "listing" ELSE "user">>, 1)
IdentHandle(s, f) ==
    LET w == Word(f)
    IN  Step(s, <<IF WellFormed(f) /\ w.k = "ports" THEN "USERID" ELSE "INVALID-PORT">>,
             IF w.a = "utf8" THEN 0 ELSE 1)

(* Services that answer the same whatever they are sent, and the two that  *)
(* only listen.                                                            *)
FixedAnswer(name) ==
    CASE name \in {"dummy", "syslogrecv"} -> <<>>
      [] OTHER -> <<name>>
FixedHandle(name, s, f) == Step(s, FixedAnswer(name), 1)
==============================================================================
