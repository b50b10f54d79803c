-------------------------------- MODULE Redis --------------------------------
(***************************************************************************)
(* The Redis handler (nettrap-proto-redis): what a connection remembers is *)
(* its reply mode, its names and its client side caching ("tracking")      *)
(* settings; the data commands answer from a table.                        *)
(*                                                                         *)
(* An argument is a word.  "0" .. "3" are the unsigned numbers, "-1" a     *)
(* signed one, "1.5" a float, "bin" bytes that are not UTF-8, "" and       *)
(* "blank" have nothing printable.                                         *)
(***************************************************************************)
EXTENDS TcpFraming, Functions

CONSTANTS require_auth,                   \* RedisHandler::with_auth
          MAX_CLIENT_TRACKING_PREFIXES,
          PrefixOf                        \* the pairs <<p, q>>: p is a proper prefix of q

RedisNew == [state |-> "Connected", auth |-> ~require_auth, mode |-> "ON",
             name |-> "", lib |-> "", ver |-> "", evict |-> FALSE, touch |-> FALSE,
             on |-> FALSE, bcast |-> FALSE, optin |-> FALSE, optout |-> FALSE,
             noloop |-> FALSE, redirect |-> "-1", prefixes |-> {}, caching |-> "none",
             resp |-> 2]

parse_unsigned_decimal_bytes(a) == a \in {"0", "1", "2", "3"}
parse_signed_decimal_bytes(a)   == a \in {"-1", "0", "1", "2", "3"}
parse_float_decimal_bytes(a)    == a \in {"-1", "0", "1", "1.5", "2", "3"}
Number(a) == CHOOSE n \in 0 .. 3 : <<"0", "1", "2", "3">>[n + 1] = a
Kind(k, a) == CASE k = "u" -> parse_unsigned_decimal_bytes(a)
                [] k = "p" -> parse_unsigned_decimal_bytes(a) /\ a # "0"
                [] k = "s" -> parse_signed_decimal_bytes(a)
                [] k = "f" -> parse_float_decimal_bytes(a)
                [] k = "aggregate" -> a \in {"SUM", "MIN", "MAX"}
                [] OTHER   -> TRUE
text_args(args) == \A i \in DOMAIN args : args[i] # "bin"

(* parse_resp and parse_resp_array_at: the words of an array are its       *)
(* bulks, those of an inline command are the fields of its line.           *)
parse_resp(f) ==
    IF f[1].k = "array"
    THEN LET bulks == SelectSeq(f, LAMBDA x : x.k = "bulk")
         IN  [r |-> "some", args |-> [i \in DOMAIN bulks |-> bulks[i].a]]
    ELSE IF f = <<CRLF>> THEN [r |-> "empty", args |-> <<>>]
    ELSE IF ~WellFormed(f) \/ f[1] \in {LF} THEN [r |-> "none", args |-> <<>>]
    ELSE [r |-> "some", args |-> Body[f[1].a]]

------------------------------------------------------------------------------
(* The options of a command, from position i on: G gives each option its   *)
(* group (an option of a group already seen is a syntax error, unless the  *)
(* group is ""), its rank (options come in increasing rank, 0 for none),   *)
(* and the kinds of its values.                                            *)
OptionStep(args, c, G) ==
    LET o == args[c.i]
        g == G[o]
        k == Len(g.values)
    IN  IF o = "bin" THEN [c EXCEPT !.r = "ERR Protocol error"]
        ELSE IF \/ o \notin DOMAIN G
                \/ g.group \in c.seen
                \/ g.rank # 0 /\ g.rank <= c.rank
                \/ c.i + k > Len(args)
             THEN [c EXCEPT !.r = "ERR syntax error"]
        ELSE IF \E j \in 1 .. k : ~Kind(g.values[j], args[c.i + j])
             THEN [c EXCEPT !.r = IF "f" \in Range(g.values) THEN "ERR float"
                                  ELSE IF "aggregate" \in Range(g.values) THEN "ERR syntax error"
                                  ELSE "ERR value"]
        ELSE [c EXCEPT !.i = @ + k + 1, !.rank = g.rank, !.opts = @ \cup {o},
                       !.seen = IF g.group = "" THEN @ ELSE @ \cup {g.group}]
Options(args, i, G) ==
    LET After[k \in 0 .. Len(args)] ==
            IF k = 0 THEN [i |-> i, rank |-> 0, seen |-> {}, opts |-> {}, r |-> ""]
            ELSE LET c == After[k-1]
                 IN  IF c.r # "" \/ c.i > Len(args) THEN c ELSE OptionStep(args, c, G)
    IN  After[Len(args)]
Option(group, values) == [group |-> group, rank |-> 0, values |-> values]
Ranked(group, rank, values) == [group |-> group, rank |-> rank, values |-> values]
Resolved(c, reply) == IF c.r # "" THEN c.r ELSE reply
Arity(args, lo, hi, reply) == IF Len(args) \in lo .. hi THEN reply ELSE "ERR args"
Many == 99

set_response(args) ==
    LET expiry == Option("expiry", <<"p">>)
        cond   == Option("condition", <<>>)
        ifopt  == Option("condition", <<"any">>)
        c == Options(args, 3,
               [EX |-> expiry, PX |-> expiry, EXAT |-> expiry, PXAT |-> expiry,
                KEEPTTL |-> Option("expiry", <<>>), NX |-> cond, XX |-> cond, IFEQ |-> ifopt,
                IFNE |-> ifopt, IFDEQ |-> ifopt, IFDNE |-> ifopt, GET |-> Option("get", <<>>)])
    IN  IF Len(args) < 2 THEN "ERR args"
        ELSE Resolved(c, IF "GET" \in c.opts THEN "nil" ELSE "OK")

replication_response(args) ==
    CASE ~text_args(args)        -> "ERR Protocol error"
      [] Len(args) # 2           -> "ERR args"
      [] args = <<"NO", "ONE">>  -> "OK"
      [] args[1] # "host"        -> "ERR invalid host"
      [] ~Kind("p", args[2])     -> "ERR invalid port"
      [] OTHER                   -> "OK"

eval_response(args) ==
    CASE Len(args) < 2                                   -> "ERR args"
      [] ~parse_unsigned_decimal_bytes(args[2])          -> "ERR value"
      [] Number(args[2]) > Len(args) - 2                 -> "ERR keys"
      [] ~text_args(args)                                -> "ERR Protocol error"
      [] OTHER                                           -> "OK"

handle_config_command(args) ==
    CASE ~text_args(args)      -> "ERR Protocol error"
      [] args = <<>>           -> "ERR args"
      [] args[1] = "SET"       -> IF Len(args) < 3 \/ Len(args) % 2 = 0 THEN "ERR args" ELSE "OK"
      [] args[1] = "GET"       -> Arity(args, 2, 2, "entries")
      [] OTHER                 -> "ERR subcommand"

(* mget .. append, getbit, setbit, bitcount and the commands after them:   *)
(* the number of arguments, the kinds of some of them, and the answer.     *)
KeyCommands ==
    [MGET |-> <<1, Many, "nils">>, GETSET |-> <<2, 2, "nil">>, GETDEL |-> <<1, 1, "nil">>,
     DEL |-> <<1, Many, "0">>, EXISTS |-> <<1, Many, "0">>, TTL |-> <<1, 1, "-2">>,
     EXPIRETIME |-> <<1, 1, "-2">>, TYPE |-> <<1, 1, "none">>, STRLEN |-> <<1, 1, "0">>,
     SETNX |-> <<2, 2, "1">>, APPEND |-> <<2, 2, "length">>]
LaterCommands ==
    [PFADD |-> <<2, Many, "1">>, PFCOUNT |-> <<1, Many, "0">>, PFMERGE |-> <<2, Many, "OK">>,
     PUBLISH |-> <<2, 2, "0">>, KEYS |-> <<1, 1, "*0">>, RANDOMKEY |-> <<0, 0, "nil">>,
     TOUCH |-> <<1, Many, "0">>, UNLINK |-> <<1, Many, "0">>, INCR |-> <<1, 1, "1">>]
CollectionCommands ==
    [HSETNX |-> <<3, 3, "1">>, HGET |-> <<2, 2, "nil">>, HDEL |-> <<2, Many, "0">>,
     HEXISTS |-> <<2, 2, "0">>, HLEN |-> <<1, 1, "0">>, HMGET |-> <<2, Many, "nils">>,
     SADD |-> <<2, Many, "added">>, SREM |-> <<2, Many, "0">>, SISMEMBER |-> <<2, 2, "0">>,
     SCARD |-> <<1, 1, "0">>, SMEMBERS |-> <<1, 1, "*0">>, SMISMEMBER |-> <<2, Many, "zeros">>,
     LPUSH |-> <<2, Many, "added">>, LLEN |-> <<1, 1, "0">>]
SortedSetCommands ==
    [ZREM |-> <<2, Many, "0">>, ZSCORE |-> <<2, 2, "nil">>, ZMSCORE |-> <<2, Many, "nils">>]
ServerCommands ==
    [PING |-> <<0, 1, "PONG">>, ECHO |-> <<1, 1, "bulk">>, TIME |-> <<0, 0, "*2">>,
     ROLE |-> <<0, 0, "*3">>, GET |-> <<1, 1, "nil">>, DBSIZE |-> <<0, 0, "0">>,
     COMMAND |-> <<0, 0, "*0">>, SAVE |-> <<0, 0, "OK">>]
TableAnswer(T, cmd, args) == Arity(args, T[cmd][1], T[cmd][2], T[cmd][3])

(* expire_response, setex_response, mset_response.                         *)
expiry_responses(cmd, args) ==
    CASE cmd = "EXPIRE" -> IF Len(args) \notin 2 .. 3 THEN "ERR args"
                           ELSE IF ~Kind("u", args[2]) THEN "ERR value"
                           ELSE IF Len(args) = 3 /\ args[3] \notin {"NX", "XX", "GT", "LT"}
                                THEN "ERR syntax error" ELSE "0"
      [] cmd = "SETEX"  -> IF Len(args) # 3 THEN "ERR args"
                           ELSE IF ~Kind("p", args[2]) THEN "ERR value" ELSE "OK"
      [] cmd = "MSET"   -> IF args = <<>> \/ Len(args) % 2 # 0 THEN "ERR args" ELSE "OK"
bit_responses(cmd, args) ==
    CASE cmd = "GETBIT" -> IF Len(args) # 2 THEN "ERR args"
                           ELSE IF ~Kind("u", args[2]) THEN "ERR value" ELSE "0"
      [] cmd = "SETBIT" -> IF Len(args) # 3 THEN "ERR args"
                           ELSE IF ~Kind("u", args[2]) THEN "ERR value"
                           ELSE IF args[3] \notin {"0", "1"} THEN "ERR bit" ELSE "0"
      [] cmd = "BITCOUNT" ->
            IF Len(args) \notin {1, 3, 4} THEN "ERR args"
            ELSE IF Len(args) > 1 /\ ~(Kind("s", args[2]) /\ Kind("s", args[3])) THEN "ERR value"
            ELSE IF Len(args) = 4 /\ args[4] \notin {"BYTE", "BIT"} THEN "ERR syntax error"
            ELSE "0"
pubsub_response(args) ==
    CASE args = <<>>            -> "ERR args"
      [] args[1] = "bin"        -> "ERR Protocol error"
      [] args[1] = "CHANNELS"   -> Arity(args, 1, 2, "*0")
      [] args[1] = "NUMSUB"     -> Arity(args, 2, Many, "counts")
      [] args[1] = "NUMPAT"     -> Arity(args, 1, 1, "0")
      [] OTHER                  -> "ERR subcommand"
scan_response(args) ==
    LET any == Option("", <<"any">>)
    IN  IF args = <<>> THEN "ERR args"
        ELSE IF ~Kind("u", args[1]) THEN "ERR value"
        ELSE Resolved(Options(args, 2, [MATCH |-> any, TYPE |-> any, COUNT |-> Option("", <<"u">>)]),
                    "cursor")
copy_response(args) ==
    LET c == Options(args, 3, [DB |-> Ranked("db", 1, <<"u">>), REPLACE |-> Ranked("end", 2, <<>>)])
        no_db == c.r # "" /\ c.seen = {} /\ c.i = Len(args) /\ args[c.i] = "DB"
    IN  IF Len(args) < 2 \/ no_db THEN "ERR args" ELSE Resolved(c, "0")
sort_response(args, store) ==
    LET base == [BY |-> Option("by", <<"any">>), LIMIT |-> Option("limit", <<"u", "u">>),
                 GET |-> Option("", <<"any">>), ASC |-> Option("order", <<>>),
                 DESC |-> Option("order", <<>>), ALPHA |-> Option("alpha", <<>>)]
        c == Options(args, 2, IF store
                              THEN [o \in DOMAIN base \cup {"STORE"} |->
                                      IF o = "STORE" THEN Option("store", <<"any">>) ELSE base[o]]
                              ELSE base)
    IN  IF args = <<>> THEN "ERR args" ELSE Resolved(c, IF "STORE" \in c.opts THEN "0" ELSE "*0")
incrby_decrby_response(args) ==
    IF Len(args) # 2 THEN "ERR args" ELSE IF ~Kind("s", args[2]) THEN "ERR value" ELSE "amount"

list_responses(cmd, args) ==
    CASE cmd = "LPOP"   -> IF Len(args) \notin 1 .. 2 THEN "ERR args"
                           ELSE IF Len(args) = 2 /\ ~Kind("u", args[2]) THEN "ERR value" ELSE "nil"
      [] cmd = "LRANGE" -> IF Len(args) # 3 THEN "ERR args"
                           ELSE IF ~(Kind("s", args[2]) /\ Kind("s", args[3])) THEN "ERR value" ELSE "*0"
      [] cmd = "LINDEX" -> IF Len(args) # 2 THEN "ERR args"
                           ELSE IF ~Kind("s", args[2]) THEN "ERR value" ELSE "nil"
      [] cmd = "HSET"   -> IF Len(args) < 3 \/ Len(args) % 2 # 1 THEN "ERR args" ELSE "fields"

sorted_set_scores(cmd, args) ==
    CASE cmd = "ZCARD"   -> Arity(args, 1, 1, "0")
      [] cmd = "ZCOUNT"  -> IF Len(args) # 3 THEN "ERR args"
                            ELSE IF ~(Kind("f", args[2]) /\ Kind("f", args[3])) THEN "ERR float" ELSE "0"
      [] cmd = "ZINCRBY" -> IF Len(args) # 3 THEN "ERR args"
                            ELSE IF ~Kind("f", args[2]) THEN "ERR float" ELSE "bulk"
      [] cmd = "ZDIFFSTORE" -> IF Len(args) < 4 THEN "ERR args"
                            ELSE IF ~Kind("u", args[2]) THEN "ERR value"
                            ELSE IF Len(args) # Number(args[2]) + 2 THEN "ERR args" ELSE "0"
sorted_set_store_with_options_response(args) ==
    LET n == Number(args[2])
        c == Options(args, n + 3,
                     [WEIGHTS   |-> Ranked("weights", 1, [i \in 1 .. n |-> "f"]),
                      AGGREGATE |-> Ranked("aggregate", 2, <<"aggregate">>)])
    IN  IF Len(args) < 4 THEN "ERR args"
        ELSE IF ~Kind("u", args[2]) THEN "ERR value"
        ELSE IF n = 0 \/ Len(args) < n + 2 THEN "ERR args"
        ELSE Resolved(c, "0")
ZaddFlags == {"NX", "XX", "GT", "LT", "CH", "INCR"}
sorted_set_add_response(args) ==
    LET first == FirstAt(args, LAMBDA i : i > 1 /\ args[i] \notin ZaddFlags)
        i     == IF first = 0 THEN Len(args) + 1 ELSE first
        flags == SubSeq(args, 2, i - 1)
        has(o) == \E j \in DOMAIN flags : flags[j] = o
        rest  == Len(args) + 1 - i
    IN  IF Len(args) < 3 THEN "ERR args"
        ELSE IF \/ \E j, k \in DOMAIN flags : j # k /\ flags[j] = flags[k]
                \/ has("NX") /\ has("XX")
                \/ has("GT") /\ has("LT")
             THEN "ERR syntax error"
        ELSE IF has("INCR")
             THEN IF rest # 2 THEN "ERR args" ELSE IF ~Kind("f", args[i]) THEN "ERR float" ELSE "bulk"
        ELSE IF rest < 2 \/ rest % 2 # 0
             THEN IF args[Len(args)] \in ZaddFlags THEN "ERR syntax error" ELSE "ERR args"
        ELSE IF \E j \in i + 2 .. Len(args) : (j - i) % 2 = 0 /\ args[j] \in ZaddFlags
             THEN "ERR syntax error"
        ELSE IF \E j \in i .. Len(args) : (j - i) % 2 = 0 /\ ~Kind("f", args[j]) THEN "ERR float"
        ELSE "pairs"
sorted_set_range_response(args) ==
    LET by == Ranked("by", 1, <<>>)
    IN  IF Len(args) < 3 THEN "ERR args"
        ELSE Resolved(Options(args, 4, [BYSCORE |-> by, BYLEX |-> by, REV |-> Ranked("rev", 2, <<>>),
                                      LIMIT |-> Ranked("limit", 3, <<"u", "s">>),
                                      WITHSCORES |-> Ranked("scores", 4, <<>>)]), "*0")
sorted_set_random_member_response(args) ==
    CASE Len(args) = 1 -> "nil"
      [] Len(args) \in {2, 3} ->
            IF args[Len(args)] = "WITHSCORES" /\ Len(args) = 2 THEN "ERR syntax error"
            ELSE IF Len(args) = 3 /\ args[3] # "WITHSCORES" THEN "ERR syntax error"
            ELSE IF ~Kind("s", args[2]) THEN "ERR value" ELSE "*0"
      [] OTHER -> "ERR args"
sorted_set_range_store_response(args) ==
    LET by == Option("by", <<>>)
        c == Options(args, 5, [BYSCORE |-> by, BYLEX |-> by, REV |-> Option("rev", <<>>),
                               LIMIT |-> Option("limit", <<"u", "s">>)])
    IN  IF Len(args) < 4 THEN "ERR args"
        ELSE IF c.r = "" /\ "LIMIT" \in c.opts /\ "by" \notin c.seen THEN "ERR syntax error"
        ELSE Resolved(c, "0")

(* The data commands: their answer depends on their arguments only.        *)
(* Commands that differ in name only share an entry.                       *)
data_response(cmd, args) ==
    CASE cmd \in DOMAIN KeyCommands        -> TableAnswer(KeyCommands, cmd, args)
      [] cmd \in DOMAIN LaterCommands      -> TableAnswer(LaterCommands, cmd, args)
      [] cmd \in DOMAIN CollectionCommands -> TableAnswer(CollectionCommands, cmd, args)
      [] cmd \in DOMAIN SortedSetCommands  -> TableAnswer(SortedSetCommands, cmd, args)
      [] cmd \in DOMAIN ServerCommands     -> TableAnswer(ServerCommands, cmd, args)
      [] cmd \in {"MODULE", "CLUSTER"}     -> Arity(args, 1, Many, "ERR disabled")
      [] cmd \in {"EXPIRE", "SETEX", "MSET"}           -> expiry_responses(cmd, args)
      [] cmd \in {"GETBIT", "SETBIT", "BITCOUNT"}      -> bit_responses(cmd, args)
      [] cmd \in {"LPOP", "LRANGE", "LINDEX", "HSET"}  -> list_responses(cmd, args)
      [] cmd \in {"ZCARD", "ZCOUNT", "ZINCRBY", "ZDIFFSTORE"} -> sorted_set_scores(cmd, args)
      [] cmd = "ZUNIONSTORE" -> sorted_set_store_with_options_response(args)
      [] cmd = "ZADD"        -> sorted_set_add_response(args)
      [] cmd = "ZRANGE"      -> sorted_set_range_response(args)
      [] cmd = "ZREVRANGE"   -> LET c == Options(args, 4, [WITHSCORES |-> Option("scores", <<>>)])
                                IN  IF Len(args) \notin 3 .. 4 THEN "ERR args" ELSE Resolved(c, "*0")
      [] cmd = "ZRANK"       -> LET c == Options(args, 3, [WITHSCORE |-> Option("score", <<>>)])
                                IN  IF Len(args) \notin 2 .. 3 THEN "ERR args" ELSE Resolved(c, "nil")
      [] cmd = "ZRANDMEMBER" -> sorted_set_random_member_response(args)
      [] cmd = "ZRANGESTORE" -> sorted_set_range_store_response(args)
      [] cmd = "SET"         -> set_response(args)
      [] cmd = "PUBSUB"      -> pubsub_response(args)
      [] cmd = "SCAN"        -> scan_response(args)
      [] cmd = "COPY"        -> copy_response(args)
      [] cmd \in {"SORT", "SORT_RO"} -> sort_response(args, cmd = "SORT")
      [] cmd = "INCRBY"      -> incrby_decrby_response(args)
      [] cmd = "MOVE"        -> IF Len(args) # 2 THEN "ERR args"
                                ELSE IF ~Kind("u", args[2]) THEN "ERR value" ELSE "0"
      [] cmd = "CONFIG"      -> handle_config_command(args)
      [] cmd = "REPLICAOF"   -> replication_response(args)
      [] cmd = "EVAL"        -> eval_response(args)
      [] cmd = "FLUSHALL"    -> IF args \in {<<>>, <<"SYNC">>, <<"ASYNC">>} THEN "OK"
                                ELSE IF args = <<"bin">> THEN "ERR Protocol error"
                                ELSE Arity(args, 1, 1, "ERR syntax error")
      [] cmd = "SELECT"      -> IF ~text_args(args) THEN "ERR Protocol error"
                                ELSE IF Len(args) # 1 THEN "ERR args"
                                ELSE IF Kind("u", args[1]) THEN "OK" ELSE "ERR index"
      [] cmd = "BGSAVE"      -> IF args \in {<<>>, <<"SCHEDULE">>} THEN "OK"
                                ELSE IF args = <<"bin">> THEN "ERR Protocol error"
                                ELSE Arity(args, 1, 1, "ERR syntax error")
      [] cmd = "INFO"        -> IF text_args(args) THEN Arity(args, 0, 1, "info")
                                ELSE "ERR Protocol error"
      [] OTHER               -> "ERR unknown command"

------------------------------------------------------------------------------
(* A handler of the connection's own state returns [s, reply]; the reply   *)
(* "" stands for no answer.                                                *)
Says(s, reply) == [s |-> s, reply |-> reply]

auth_args_are_valid_bytes(args) ==
    Len(args) \in 1 .. 2 /\ \A i \in DOMAIN args : args[i] \notin {"", "blank"}
redis_handle_auth_command(s, args) ==
    IF auth_args_are_valid_bytes(args) THEN Says([s EXCEPT !.auth = TRUE], "OK")
    ELSE Says(s, "ERR args")

handle_reset_command(s, args) ==
    IF args # <<>> THEN Says(s, "ERR args") ELSE Says([RedisNew EXCEPT !.state = s.state], "RESET")

parse_redis_client_name(a) == a \notin {"bin", "blank"}

hello_has_auth(args) == \E i \in 2 .. Len(args) : args[i] = "AUTH"
(* HELLO: nothing is committed until every option has been accepted.       *)
HelloStep(args, c) ==
    LET o == args[c.i]
        missing(k) == c.i + k > Len(args)
        stop(e) == [c EXCEPT !.r = e]
    IN  CASE o = "bin"     -> stop("ERR Protocol error")
          [] o = "AUTH"    ->
               IF c.auth THEN stop("ERR syntax error")
               ELSE IF missing(2) \/ ~auth_args_are_valid_bytes(SubSeq(args, c.i + 1, c.i + 2))
                    THEN stop("ERR args")
               ELSE [c EXCEPT !.auth = TRUE, !.i = @ + 3]
          [] o = "SETNAME" ->
               IF c.named THEN stop("ERR syntax error")
               ELSE IF missing(1) THEN stop("ERR args")
               ELSE IF ~parse_redis_client_name(args[c.i + 1]) THEN stop("ERR name")
               ELSE [c EXCEPT !.named = TRUE, !.name = args[c.i + 1], !.i = @ + 2]
          [] OTHER -> stop("ERR syntax error")
hello_response(s, args) ==
    LET After[k \in 0 .. Len(args)] ==
            IF k = 0 THEN [i |-> 2, auth |-> FALSE, named |-> FALSE, name |-> s.name, r |-> ""]
            ELSE LET c == After[k-1]
                 IN  IF c.r # "" \/ c.i > Len(args) THEN c ELSE HelloStep(args, c)
        end == After[Len(args)]
        version == IF args[1] = "3" THEN 3 ELSE 2
    IN  CASE args = <<>> -> Says(s, "hello")
          [] args # <<>> /\ args[1] = "bin" -> Says(s, "ERR Protocol error")
          [] args # <<>> /\ args[1] \notin {"bin", "2", "3"} ->
               Says(s, IF Len(args) > 1 /\ ~Kind("u", args[1]) THEN "ERR args" ELSE "NOPROTO")
          [] OTHER -> IF end.r # "" THEN Says(s, end.r)
                      ELSE Says([s EXCEPT !.auth = @ \/ end.auth, !.name = end.name,
                                          !.resp = version], "hello")

prefixes_overlap(p, q) == p = q \/ p = "" \/ q = "" \/ <<p, q>> \in PrefixOf \/ <<q, p>> \in PrefixOf
(* CLIENT TRACKING: the options are collected, then the prefixes checked   *)
(* against each other and against the ones in force, then all is set.      *)
TrackingStep(opts, c) ==
    LET o == opts[c.i]
        stop(e) == [c EXCEPT !.r = e]
        value == opts[c.i + 1]
        next(k) == [c EXCEPT !.i = @ + k]
    IN  CASE o = "bin" -> stop("ERR Protocol error")
          [] o \in {"REDIRECT", "PREFIX"} /\ c.i = Len(opts) -> stop("ERR args")
          [] o = "REDIRECT" /\ c.i < Len(opts) ->
               IF value # "1" THEN stop("ERR redirect") ELSE [next(2) EXCEPT !.redirect = "0"]
          [] o = "PREFIX" /\ c.i < Len(opts) ->
               IF value = "bin" THEN stop("ERR Protocol error")
               ELSE IF Len(c.new) >= MAX_CLIENT_TRACKING_PREFIXES THEN stop("ERR prefixes")
               ELSE [next(2) EXCEPT !.new = Append(@, value)]
          [] o = "BCAST"  -> [next(1) EXCEPT !.bcast = TRUE]
          [] o = "OPTIN"  -> [next(1) EXCEPT !.opt = "in"]
          [] o = "OPTOUT" -> [next(1) EXCEPT !.opt = "out"]
          [] o = "NOLOOP" -> [next(1) EXCEPT !.noloop = TRUE]
          [] OTHER        -> stop("ERR syntax error")
TrackingOptions(opts) ==
    LET After[k \in 0 .. Len(opts)] ==
            IF k = 0 THEN [i |-> 1, bcast |-> FALSE, opt |-> "", noloop |-> FALSE,
                           redirect |-> "0", new |-> <<>>, r |-> ""]
            ELSE LET c == After[k-1]
                 IN  IF c.r # "" \/ c.i > Len(opts) THEN c ELSE TrackingStep(opts, c)
    IN  After[Len(opts)]
tracking_set(s, c) ==
    LET new    == Range(c.new)
        merged == IF s.prefixes \cup new = {} THEN {""} ELSE s.prefixes \cup new
        overlap == \/ \E i, j \in DOMAIN c.new : i # j /\ prefixes_overlap(c.new[i], c.new[j])
                   \/ \E p \in s.prefixes, q \in new : prefixes_overlap(p, q)
                   \/ new = {} /\ "" \notin merged
    IN  IF c.r # "" THEN Says(s, c.r)
        ELSE IF c.bcast /\ overlap THEN Says(s, "ERR overlap")
        ELSE IF c.bcast /\ Cardinality(merged) > MAX_CLIENT_TRACKING_PREFIXES
             THEN Says(s, "ERR prefixes")
        ELSE Says([s EXCEPT !.prefixes = IF c.bcast THEN merged ELSE @, !.on = TRUE,
                            !.bcast = c.bcast, !.optin = c.opt = "in", !.optout = c.opt = "out",
                            !.noloop = c.noloop, !.redirect = c.redirect, !.caching = "none"], "OK")
tracking_on(s, opts) == tracking_set(s, TrackingOptions(opts))
(* Mutant: the caching choice survives TRACKING OFF.                       *)
tracking_off_partly(s) ==
    Says([s EXCEPT !.on = FALSE, !.bcast = FALSE, !.redirect = "-1", !.prefixes = {}], "OK")
tracking_off(s) ==
    Says([s EXCEPT !.on = FALSE, !.bcast = FALSE, !.optin = FALSE, !.optout = FALSE,
                   !.noloop = FALSE, !.redirect = "-1", !.prefixes = {}, !.caching = "none"], "OK")
client_tracking_response(s, args) ==
    CASE args = <<>>          -> Says(s, "ERR args")
      [] args # <<>> /\ args[1] = "bin" -> Says(s, "ERR Protocol error")
      [] args # <<>> /\ args[1] = "ON"  -> tracking_on(s, Tail(args))
      [] args = <<"OFF">>     -> tracking_off(s)
      [] args # <<>> /\ args[1] = "OFF" /\ Len(args) > 1 -> Says(s, "ERR args")
      [] OTHER                -> Says(s, "ERR syntax error")

client_caching(s, v) ==
    IF v \notin {"YES", "NO"} THEN Says(s, "ERR yes or no")
    ELSE IF ~s.on \/ (v = "YES" /\ ~s.optin) \/ (v = "NO" /\ ~s.optout) THEN Says(s, "ERR caching")
    ELSE Says([s EXCEPT !.caching = v], "OK")
client_response(s, args) ==
    LET rest == Tail(args)
        one(sub) == Len(args) = 2 /\ args[1] = sub
        info == {"TRACKINGINFO", "ID", "INFO", "GETNAME", "GETREDIR", "LIST", "HELP"}
    IN  CASE args = <<>>               -> Says(s, "ERR args")
          [] args # <<>> /\ args[1] = "bin" -> Says(s, "ERR Protocol error")
          [] one("SETNAME") -> IF parse_redis_client_name(args[2])
                               THEN Says([s EXCEPT !.name = args[2]], "OK") ELSE Says(s, "ERR name")
          [] Len(args) = 3 /\ args[1] = "SETINFO" ->
               IF args[2] = "bin" THEN Says(s, "ERR Protocol error")
               ELSE IF ~parse_redis_client_name(args[3]) THEN Says(s, "ERR value")
               ELSE IF args[2] = "LIB-NAME" THEN Says([s EXCEPT !.lib = args[3]], "OK")
               ELSE IF args[2] = "LIB-VER"  THEN Says([s EXCEPT !.ver = args[3]], "OK")
               ELSE Says(s, "ERR attribute")
          [] Len(args) = 2 /\ args[1] \in {"REPLY", "CACHING", "NO-EVICT", "NO-TOUCH"}
             /\ args[2] = "bin" -> Says(s, "ERR Protocol error")
          [] one("REPLY") /\ args[2] # "bin" ->
               IF args[2] \in {"ON", "OFF", "SKIP"}
               THEN Says([s EXCEPT !.mode = args[2]], IF args[2] = "ON" THEN "OK" ELSE "")
               ELSE Says(s, "ERR mode")
          [] one("CACHING") /\ args[2] # "bin"  -> client_caching(s, args[2])
          [] one("NO-EVICT") /\ args[2] # "bin" ->
               IF args[2] \in {"ON", "OFF"} THEN Says([s EXCEPT !.evict = args[2] = "ON"], "OK")
               ELSE Says(s, "ERR mode")
          [] one("NO-TOUCH") /\ args[2] # "bin" ->
               IF args[2] \in {"ON", "OFF"} THEN Says([s EXCEPT !.touch = args[2] = "ON"], "OK")
               ELSE Says(s, "ERR mode")
          [] args # <<>> /\ args[1] = "TRACKING" -> client_tracking_response(s, rest)
          [] args # <<>> /\ args[1] \in info -> Says(s, Arity(rest, 0, 0, args[1]))
          [] OTHER -> Says(s, "ERR args")   \* or an unknown subcommand

(* handle_command_with_auth_state on one command: the reply mode and the   *)
(* CLIENT CACHING choice in force when it arrived decide what is answered  *)
(* and forgotten after it.                                                 *)
redis_command(s, cmd, args) ==
    CASE cmd = "HELLO"  -> hello_response(s, args)
      [] cmd = "AUTH"   -> redis_handle_auth_command(s, args)
      [] cmd = "RESET"  -> handle_reset_command(s, args)
      [] cmd = "CLIENT" -> client_response(s, args)
      [] cmd = "QUIT"   -> IF args = <<>> THEN Says([s EXCEPT !.state = "Disconnected"], "OK")
                           ELSE Says(s, "ERR args")
      [] OTHER          -> Says(s, data_response(cmd, args))
(* One command uses up the caching choice and the skipped reply of the     *)
(* command before it, unless it makes them.                                *)
after_command(s, cmd, args, h) ==
    LET sub(x) == cmd = "CLIENT" /\ args # <<>> /\ args[1] = x
    IN  Says([h.s EXCEPT !.caching = IF s.caching # "none" /\ ~sub("CACHING") THEN "none" ELSE @,
                         !.mode    = IF s.mode = "SKIP" /\ ~sub("REPLY") THEN "ON" ELSE @],
             IF s.mode = "ON" THEN h.reply ELSE "")
command_with_auth(s, cmd, args) ==
    IF /\ require_auth /\ ~s.auth
       /\ cmd \notin {"AUTH", "RESET"} /\ ~(cmd = "HELLO" /\ hello_has_auth(args))
    THEN Says(s, "NOAUTH")
    ELSE after_command(s, cmd, args, redis_command(s, cmd, args))
handle_parsed(s, p) ==
    CASE s.state = "Disconnected" -> Says(s, "")
      [] s.state # "Disconnected" /\ (p.r # "some" \/ p.args[1] = "bin") -> Says(s, "ERR Protocol error")
      [] OTHER -> command_with_auth(s, p.args[1], Tail(p.args))
handle_command_with_auth_state(s, f) == handle_parsed(s, parse_resp(f))

(* The bytes of QUIT as an array, its count and length as short as can be  *)
(* (a = "": "*01" is the same command but another array), or as a line.    *)
redis_frame_closes_session(f) ==
    \/ f[1] = Symbol("array", "", 1) /\ f[2].a = "QUIT"
    \/ f[1].k = "inline" /\ Body[f[1].a] = <<"QUIT">>
==============================================================================
