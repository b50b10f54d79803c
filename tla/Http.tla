-------------------------------- MODULE Http --------------------------------
(***************************************************************************)
(* The HTTP service: the request parser of nettrap-proto-http, the answer  *)
(* chosen by listeners/tcp_response.rs, the webroot, the default files and *)
(* the custom response rules.                                              *)
(*                                                                         *)
(* A request line is a symbol REQ with Body [method, form, host, path,     *)
(* version]; a path is a sequence of segments <<name, param>>, param when    *)
(* ";..." follows the name.  A Host header is a symbol "Host" whose a is   *)
(* the host it names, with Body [kind, port].                              *)
(***************************************************************************)
EXTENDS TcpFraming

CONSTANTS ReadFile(_, _), \* what reading a path beneath a root gives: its content,
                          \* "NotFound", "NotFile", "TooLarge" or "ReadError"
          HasWebroot,     \* the listener has a webroot
          HasDefaults,    \* the directory of default files exists
          CustomRules     \* the listener's custom response rules, in order

------------------------------------------------------------------------------
(* Authorities.  A numeric name is neither a name nor an address; a special *)
(* address is loopback, multicast and so on.                                *)
HostKind(h) == Body[h]
host_is_valid_authority_host(h) == HostKind(h).kind \in {"name", "name."}
is_usable_ip_literal(h)         == HostKind(h).kind \in {"ip4", "ip6"}
UsableHost(h) == host_is_valid_authority_host(h) \/ is_usable_ip_literal(h)
is_authority_form_target(h)     == UsableHost(h) /\ HostKind(h).port = "ok"
is_valid_authority_port(h)      == UsableHost(h) /\ HostKind(h).port \in {"", "ok"}
is_valid_http_target_for_method(t) ==
    CASE t.form = "asterisk"  -> t.method = "OPTIONS"
      [] t.form = "authority" -> t.method = "CONNECT" /\ is_authority_form_target(t.host)
      [] t.form = "absolute"  -> t.method # "CONNECT" /\ is_valid_authority_port(t.host)
      [] t.form = "origin"    -> t.method # "CONNECT"
      [] OTHER                -> FALSE
parse_request_line(t) ==
    /\ t.method # "bad" /\ t.version \in {"1.0", "1.1"}
    /\ is_valid_http_target_for_method(t)

(* Dot segments are resolved; one that would leave the root is dropped.    *)
normalize_request_target(path) ==
    LET Up[i \in 0 .. Len(path)] ==
          IF i = 0 THEN <<>>
          ELSE LET p == Up[i-1]
               IN  CASE path[i] \in {<<"", FALSE>>, <<".", FALSE>>} -> p
                     [] path[i] = <<"..", FALSE>> ->
                          IF p = <<>> THEN p ELSE SubSeq(p, 1, Len(p) - 1)
                     [] OTHER                     -> Append(p, path[i])
    IN  Up[Len(path)]

------------------------------------------------------------------------------
(* The parser.  Its result is "err", "none" (it holds the request to be    *)
(* incomplete) or "ok", with the size of the body.                         *)
Parsed(r, n) == [r |-> r, body |-> n]
HeadersOf(head, k) == SelectSeq(head, LAMBDA s : s.k = k)
has_valid_host_header(head) ==
    LET hosts == HeadersOf(head, "Host")
    IN  Len(hosts) = 1 /\ is_valid_authority_port(hosts[1].a)
parse_http_content_length(s) == s.a # "bad"
has_conflicting_content_length(head) ==
    LET cl == HeadersOf(head, "CL")
    IN  \/ \E i, j \in DOMAIN cl : /\ parse_http_content_length(cl[i])
                                   /\ parse_http_content_length(cl[j])
                                   /\ cl[i].n # cl[j].n
        \/ Len(cl) > 1 /\ \E i \in DOMAIN cl : ~parse_http_content_length(cl[i])
transfer_encoding_is_supported(head) ==
    LET te == HeadersOf(head, "TE") IN Len(te) = 1 /\ te[1].a = "chunked"
chunk_trailers_are_well_formed(trailers) ==
    \A i \in DOMAIN trailers : trailers[i] # LF /\ trailers[i].a # "bad"

(* The whole of f from position start on must be chunks, the last one      *)
(* empty, trailers and a blank line.                                       *)
decode_chunked_body(f, start) ==
    LET Trailers(p, n) ==
          LET e == FirstAt(f, LAMBDA i : p < i /\ i < Len(f) /\ f[i] = CRLF /\ f[i+1] = CRLF)
          IN  IF p <= Len(f) /\ f[p] = CRLF THEN Parsed("ok", <<n, p>>)
              ELSE IF \E i \in p .. Len(f) : f[i] = LF THEN Parsed("err", <<>>)
              ELSE IF e = 0 THEN Parsed("none", <<>>)
              ELSE IF chunk_trailers_are_well_formed(SubSeq(f, p, e))
              THEN Parsed("ok", <<n, e + 1>>) ELSE Parsed("err", <<>>)
        (* Blocks[k]: the position and the body size before the k-th chunk. *)
        Step1(c) ==
          LET eol == FirstAt(f, LAMBDA i : i >= c.p /\ f[i] = CRLF)
              end == c.p + 2 + f[c.p].n
          IN  IF eol = 0
              THEN [c EXCEPT !.r = IF \E i \in c.p .. Len(f) : f[i] = LF
                                   THEN Parsed("err", <<>>) ELSE Parsed("none", <<>>)]
              ELSE IF eol # c.p + 1 \/ ~parse_http_chunk_size(f[c.p])
              THEN [c EXCEPT !.r = Parsed("err", <<>>)]
              ELSE IF f[c.p].n = 0 THEN [c EXCEPT !.r = Trailers(c.p + 2, c.n)]
              ELSE IF end > Len(f) THEN [c EXCEPT !.r = Parsed("none", <<>>)]
              ELSE IF f[end] # CRLF THEN [c EXCEPT !.r = Parsed("err", <<>>)]
              ELSE [c EXCEPT !.p = end + 1, !.n = @ + f[c.p].n]
        Go[k \in 0 .. Len(f)] ==
          IF k = 0 THEN [p |-> start, n |-> 0, r |-> Parsed("", <<>>)]
          ELSE LET c == Go[k-1] IN IF c.r.r # "" THEN c ELSE Step1(c)
    IN  Go[Len(f)].r

parse_http_request_bytes(f) ==
    LET e    == FirstAt(f, LAMBDA i : i < Len(f) /\ f[i] = CRLF /\ f[i+1] = CRLF)
        head == SubSeq(f, 1, e)
        t    == Body[f[1].a]
        cl   == HeadersOf(head, "CL")
        rest == Len(f) - (e + 1)
        d    == decode_chunked_body(f, e + 2)
    IN  IF e = 0 THEN Parsed(IF \E i \in DOMAIN f : f[i] = LF \/ Len(f) > MAX_LINE_FRAME_SIZE
                             THEN "err" ELSE "none", 0)
        ELSE IF \/ e - 1 > MAX_LINE_FRAME_SIZE
                \/ f[1].k # "REQ" \/ ~parse_request_line(t)
                \/ \E i \in DOMAIN head : head[i] = LF \/ (head[i].k = "HDR" /\ head[i].a = "bad")
                \/ t.version = "1.1" /\ ~has_valid_host_header(head)
                \/ has_conflicting_content_length(head)
             THEN Parsed("err", 0)
        ELSE IF HeadersOf(head, "TE") # <<>>
             THEN IF cl # <<>> \/ ~transfer_encoding_is_supported(head) THEN Parsed("err", 0)
                  ELSE IF d.r # "ok" THEN Parsed(d.r, 0)
                  ELSE IF d.body[2] # Len(f) THEN Parsed("none", 0)
                  ELSE Parsed("ok", d.body[1])
        ELSE IF cl # <<>>
             THEN IF ~parse_http_content_length(cl[1]) \/ cl[1].n > MAX_HTTP_REQUEST_SIZE
                  THEN Parsed("err", 0)
                  ELSE Parsed(IF rest = cl[1].n THEN "ok" ELSE "none", rest)
        ELSE Parsed(IF rest = 0 THEN "ok" ELSE "none", 0)

(* HttpRequest::parse: a second Host header makes the request incomplete;  *)
(* without one the host comes from the target.                             *)
normalize_host_header_value(h) == IF is_valid_authority_port(h) THEN h ELSE ""
request_host(t, hosts) ==
    IF hosts # <<>> THEN normalize_host_header_value(hosts[1].a)
    ELSE IF t.form \in {"absolute", "authority"} THEN normalize_host_header_value(t.host) ELSE ""
http_request(f, hosts, r) ==
    IF r.r # "ok" THEN [r |-> r.r, host |-> "", has_body |-> FALSE]
    ELSE IF Len(hosts) > 1 THEN [r |-> "none", host |-> "", has_body |-> FALSE]
    ELSE [r |-> "ok", host |-> request_host(Body[f[1].a], hosts),
          has_body |-> HeadersOf(f, "CL") # <<>> \/ HeadersOf(f, "TE") # <<>>]
HttpRequestParse(f) == http_request(f, HeadersOf(f, "Host"), parse_http_request_bytes(f))

------------------------------------------------------------------------------
(* The answer.  The webroot is asked for the path as it was sent and then  *)
(* for the path without parameters; every read is refused for a path that  *)
(* names a parent directory, also when percent-encoded.                    *)
(* Mutant: only the literal dots are refused.                              *)
percent_encoded_path_is_unsafe_literal(path) == \E i \in DOMAIN path : path[i] = <<"..", FALSE>>
percent_encoded_path_is_unsafe(path) ==
    \E i \in DOMAIN path : path[i] \in {<<"..", FALSE>>, <<"%2e%2e", FALSE>>, <<"%3a", FALSE>>}
is_unsafe_webroot_path(path) ==
    percent_encoded_path_is_unsafe(path) \/ \E i \in DOMAIN path : path[i][1] = ":"
normalize_request_path_for_lookup(path) ==
    SelectSeq([i \in DOMAIN path |-> <<path[i][1], FALSE>>], LAMBDA g : g # <<"", FALSE>>)
INDEX == <<"index.html", FALSE>>
read_candidate(root, path) ==
    IF ReadFile(root, path) = "NotFile" THEN "NotFound" ELSE ReadFile(root, path)
FirstFound(root, candidates) ==
    LET i == FirstAt(candidates, LAMBDA j : read_candidate(root, candidates[j]) # "NotFound")
    IN  IF i = 0 THEN "NotFound" ELSE read_candidate(root, candidates[i])
serve_result(path) ==
    IF is_unsafe_webroot_path(path) THEN "UnsafePath"
    ELSE FirstFound("webroot", <<path, Append(path, INDEX)>>)
(* The default files: the path, its last name anywhere, and the file kept  *)
(* for a page (html, json, txt, xml) and for the root.                     *)
Last(path)    == << path[Len(path)] >>
MAPPED        == << <<"NetTrap", FALSE>> >>
Extension(path) == CASE path = <<>> -> "none"
                     [] path # <<>> /\ path[Len(path)][1] \in {"page", "noext"} ->
                          path[Len(path)][1]
                     [] OTHER -> "other"
default_file_candidates(path) ==
    IF path = <<>> THEN <<MAPPED>>
    ELSE <<path, Last(path)>> \o (IF Extension(path) = "page" THEN <<MAPPED>> ELSE <<>>)
read_default_file(path) ==
    IF ~HasDefaults THEN "NotFound"
    ELSE IF is_unsafe_webroot_path(path) THEN "UnsafePath"
    ELSE FirstFound("defaultFiles", default_file_candidates(path))
(* fake_file_for_extension: most extensions have a fake file.              *)
fake_file_for_extension(path) == Extension(path) \in {"page", "other"}

Answer(r) == CASE r = "TooLarge" -> "413" [] r = "ReadError" -> "500" [] OTHER -> r
WebrootResponse(path) ==
    LET lookup == normalize_request_path_for_lookup(path)
        exact  == serve_result(path)
        second == IF lookup = path THEN "NotFound" ELSE serve_result(lookup)
        third  == read_default_file(path)
        Missed(r) == r \in {"NotFound", "UnsafePath"}
    IN  IF exact = "UnsafePath" THEN "404"
        ELSE IF ~Missed(exact) THEN Answer(exact)
        ELSE IF ~Missed(second) THEN Answer(second)
        ELSE IF ~Missed(third) THEN Answer(third)
        ELSE IF is_unsafe_webroot_path(lookup) THEN "404"
        ELSE IF fake_file_for_extension(lookup) THEN "fake file" ELSE "404"
(* Without a webroot: the default files for both paths, then a fake file   *)
(* whatever the extension.  A default file that is no file is an error,    *)
(* unless it was only tried as a directory's index.                        *)
default_file_candidate_paths(path) ==
    IF path = <<>> THEN <<MAPPED>>
    ELSE <<path, Append(path, INDEX), Last(path), Append(Last(path), INDEX)>>
         \o (IF Extension(path) = "other" THEN <<>> ELSE <<MAPPED>>)
load_default_file_for_path(path) ==
    LET all == default_file_candidate_paths(path)
        got == FirstFound("defaultFiles", all)
    IN  IF ~HasDefaults THEN "NotFound"
        ELSE IF /\ got = "NotFound"
                /\ \E i \in DOMAIN all : /\ ReadFile("defaultFiles", all[i]) = "NotFile"
                                         /\ all[i][Len(all[i])] # INDEX
        THEN "ReadError" ELSE got
build_http_response_with_fakefile(path) ==
    LET lookup == normalize_request_path_for_lookup(path)
        exact  == load_default_file_for_path(path)
        second == IF lookup = path THEN "NotFound" ELSE load_default_file_for_path(lookup)
    IN  IF is_unsafe_webroot_path(path) THEN "404"
        ELSE IF exact # "NotFound" THEN Answer(exact)
        ELSE IF second # "NotFound" THEN Answer(second)
        ELSE IF is_unsafe_webroot_path(lookup) THEN "404" ELSE "fake file"

(* Custom rules: the first whose host and path patterns match, tried on    *)
(* the target as sent and then on the normalised path.                     *)
host_matches_pattern(host, pattern) ==
    pattern = "*" \/ (host # "" /\ Body[host].domain = Body[pattern].domain
                      /\ Body[pattern].port \in {"", Body[host].port})
ANYPATH == << <<"*", FALSE>> >>
uri_matches_pattern(path, pattern) ==
    \/ pattern = ANYPATH \/ path = pattern
    \/ normalize_request_path_for_lookup(path) = pattern
find_match(host, path) ==
    FirstAt(CustomRules, LAMBDA i :
        LET r == CustomRules[i]
        IN  /\ r.hosts = {} \/ \E h \in r.hosts : host_matches_pattern(host, h)
            /\ r.uris = {} \/ \E u \in r.uris : uri_matches_pattern(path, u))
build_response_for_request(host, route, target) ==
    LET i == find_match(host, target)
        k == IF i # 0 THEN i ELSE find_match(host, route)
        r == CustomRules[k]
    IN  IF k = 0 THEN "none"
        ELSE CASE r.type = "file" -> IF r.file \in {"NotFile", "NotFound"} THEN "500"
                                     ELSE Answer(r.file)
               [] OTHER -> IF r.content_type = "unsafe" THEN "500" ELSE "custom"

is_dyn_dns_checkip_request(host, path) ==
    /\ host # "" /\ Body[host].domain = "checkip"
    /\ path \in {<<>>, << <<"checkip", FALSE>> >>}
(* The request is recorded once it parses, then answered by the first of   *)
(* the special cases, the custom rules, the webroot or the fake files.     *)
custom_or_file(custom, path) ==
    IF custom # "none" THEN custom
    ELSE IF HasWebroot THEN WebrootResponse(path)
    ELSE build_http_response_with_fakefile(path)
handle_http_response(f, p) ==
    LET t     == Body[f[1].a]
        route == normalize_request_target(t.path)
    IN  IF p.r # "ok" THEN "400"
        ELSE IF is_dyn_dns_checkip_request(p.host, route) THEN "current ip"
        ELSE IF route = << <<"wpad.dat", FALSE>> >> THEN "pac"
        ELSE custom_or_file(build_response_for_request(p.host, route, t.path), t.path)
==============================================================================
