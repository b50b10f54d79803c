----------------------------- MODULE WinDivert -----------------------------
(***************************************************************************)
(* Interception by rewriting packets (nettrap-interceptor/src/platform.rs) *)
(* and by capturing them (src/pcap.rs).  The receiving thread is not ended *)
(* by the abort of its task: it holds the lock on the device until a       *)
(* packet comes or the device is closed, and shutdown needs that lock.     *)
(*                                                                         *)
(* A flow key is [proto, client, dest], an endpoint <<address, port>>; the *)
(* reverse table finds the flow of a reply by [proto, client, listener].   *)
(***************************************************************************)
EXTENDS Packets, FiniteSets, SequencesExt

CONSTANTS Frames,            \* the frames on the wire: [dir, f]
          Probes,            \* the frames the parsers are compared on
          Redirects,         \* the rules in order: [port, tcp, target], port 0 for catch-all
          REDIRECT_FLOW_IDLE_TIMEOUT, MAX_REDIRECT_FLOWS, MAX_REDIRECT_EXPIRY_ENTRIES,
          MaxTime, MaxPackets

ASSUME DivertAssumption ==
    /\ REDIRECT_FLOW_IDLE_TIMEOUT \in Nat /\ MAX_REDIRECT_FLOWS \in Nat \ {0} /\ MAX_REDIRECT_EXPIRY_ENTRIES \in Nat
    /\ MaxTime \in Nat /\ MaxPackets \in Nat

VARIABLES kind,         \* "windivert" or "pcap"
          rx,           \* the receiving thread: "idle", "waiting", "failed"
          lock,         \* who holds the device: "rx", "shutdown" or "free"
          device,       \* "open", or "closed" once its handle is gone or the shutdown flag is set
          sd,           \* shutdown: "off", "closing", "done", "failed"
          table,        \* [entries, reverse, expiry]
          now, packets,
          seen,         \* the last frame: what was reported, and what it was rewritten to
          contact       \* history: the destination each reverse key was last sent to

vars == <<kind, rx, lock, device, sd, table, now, packets, seen, contact>>

Empty == [x \in {} |-> {}]
Nothing == [did |-> "nothing"]
Init == /\ kind \in {"windivert", "pcap"}
        /\ rx = "idle" /\ lock = "free" /\ device = "open" /\ sd = "off"
        /\ table = [entries |-> Empty, reverse |-> Empty, expiry |-> <<>>]
        /\ now = 0 /\ packets = 0 /\ seen = Nothing /\ contact = Empty

------------------------------------------------------------------------------
(* The flow table.                                                         *)
reverse_key(key, listener) == [proto |-> key.proto, client |-> key.client, listener |-> listener]
remove(t, key) ==
    IF key \notin DOMAIN t.entries THEN t
    ELSE LET r == reverse_key(key, t.entries[key].listener)
         IN  [t EXCEPT !.entries = Restrict(@, DOMAIN @ \ {key}),
                       !.reverse = IF r \in DOMAIN @ /\ @[r] = key THEN Restrict(@, DOMAIN @ \ {r}) ELSE @]
(* What remove leaves when it is called for each of the keys in turn.      *)
RemoveAll(t, keys) ==
    LET gone(r) == /\ t.reverse[r] \in keys \cap DOMAIN t.entries
                   /\ r = reverse_key(t.reverse[r], t.entries[t.reverse[r]].listener)
    IN  [t EXCEPT !.entries = Restrict(t.entries, DOMAIN t.entries \ keys),
                  !.reverse = Restrict(t.reverse, {r \in DOMAIN t.reverse : ~gone(r)})]
(* Mutant: an old entry of the queue removes a flow that was used since.   *)
prune_any(t, time) ==
    LET n == Cardinality({i \in DOMAIN t.expiry : \A j \in 1 .. i : time - t.expiry[j].at >= REDIRECT_FLOW_IDLE_TIMEOUT})
    IN  RemoveAll([t EXCEPT !.expiry = SubSeq(@, n + 1, Len(@))], {t.expiry[i].key : i \in 1 .. n})
prune(t, time) ==
    LET n == Cardinality({i \in DOMAIN t.expiry : \A j \in 1 .. i : time - t.expiry[j].at >= REDIRECT_FLOW_IDLE_TIMEOUT})
        idle(i) == LET e == t.expiry[i] IN e.key \in DOMAIN t.entries /\ t.entries[e.key].at <= e.at
    IN  RemoveAll([t EXCEPT !.expiry = SubSeq(@, n + 1, Len(@))],
                  {t.expiry[i].key : i \in {j \in 1 .. n : idle(j)}})
(* Mutant: one flow too many is let in.                                    *)
Evict_late(t) ==
    IF Cardinality(DOMAIN t.entries) <= MAX_REDIRECT_FLOWS THEN t
    ELSE remove([t EXCEPT !.expiry = Tail(@)], Head(t.expiry).key)
(* Flows are evicted in the order of the queue until there is room.        *)
Evict(t) ==
    LET rest(n) == DOMAIN t.entries \ {t.expiry[i].key : i \in 1 .. n}
        fits    == {n \in 0 .. Len(t.expiry) : Cardinality(rest(n)) < MAX_REDIRECT_FLOWS \/ n = Len(t.expiry)}
        n       == CHOOSE m \in fits : \A o \in fits : m <= o
    IN  RemoveAll([t EXCEPT !.expiry = SubSeq(@, n + 1, Len(@))], {t.expiry[i].key : i \in 1 .. n})
(* Mutant: the reply keeps leading to the flow that was there first.       *)
Claim_first(t, r, key) ==
    IF r \in DOMAIN t.reverse THEN t
    ELSE [t EXCEPT !.reverse = [x \in DOMAIN @ \cup {r} |-> IF x = r THEN key ELSE @[x]]]
(* Another flow of the same client through the same listener gives way.    *)
Claim(t, r, key) ==
    LET claimed == [t EXCEPT !.reverse = [x \in DOMAIN @ \cup {r} |-> IF x = r THEN key ELSE @[x]]]
    IN  IF r \in DOMAIN t.reverse THEN remove(claimed, t.reverse[r]) ELSE claimed
(* Mutant: the flow that gave way stays in the table.                      *)
insert_keeps(t, key, listener, time) ==
    LET r == reverse_key(key, listener)
        u == Evict(remove(prune(t, time), key))
    IN  [entries |-> [k \in DOMAIN u.entries \cup {key} |->
                        IF k = key THEN [listener |-> listener, at |-> time] ELSE u.entries[k]],
         reverse |-> [x \in DOMAIN u.reverse \cup {r} |-> IF x = r THEN key ELSE u.reverse[x]],
         expiry  |-> Append(u.expiry, [at |-> time, key |-> key])]
insert(t, key, listener, time) ==
    LET u == Claim(Evict(remove(prune(t, time), key)), reverse_key(key, listener), key)
    IN  [u EXCEPT !.entries = [k \in DOMAIN @ \cup {key} |->
                                 IF k = key THEN [listener |-> listener, at |-> time] ELSE @[k]],
                  !.expiry = Append(@, [at |-> time, key |-> key])]
(* Flows last used at the same time come in any order.                     *)
compact_expiry(t) ==
    LET used == {[at |-> t.entries[k].at, key |-> k] : k \in DOMAIN t.entries}
    IN  {[t EXCEPT !.expiry = s] :
           s \in {s \in [1 .. Cardinality(used) -> used] :
                    Range(s) = used /\ \A i, j \in DOMAIN s : i < j => s[i].at <= s[j].at}}
(* Mutant: a compaction stands for the entry of this use.                  *)
touch_compacts(t, key, time) ==
    IF key \notin DOMAIN t.entries THEN {t}
    ELSE IF Len(t.expiry) >= MAX_REDIRECT_EXPIRY_ENTRIES
         THEN {[v EXCEPT !.entries[key].at = time] : v \in compact_expiry(t)}
    ELSE {[t EXCEPT !.entries[key].at = time, !.expiry = Append(@, [at |-> time, key |-> key])]}
touch(t, key, time) ==
    LET u == [t EXCEPT !.entries[key].at = time]
        room == IF Len(u.expiry) >= MAX_REDIRECT_EXPIRY_ENTRIES THEN compact_expiry(u) ELSE {u}
    IN  IF key \notin DOMAIN t.entries THEN {t}
        ELSE {[v EXCEPT !.expiry = Append(v.expiry, [at |-> time, key |-> key])] : v \in room}
outbound_listener(t, key) == IF key \in DOMAIN t.entries THEN t.entries[key].listener ELSE 0
inbound_flow(t, r) == IF r \in DOMAIN t.reverse THEN {t.reverse[r]} \cap DOMAIN t.entries ELSE {}

(* A rule for the port comes before a catch-all one.                       *)
redirect_target(proto, port) ==
    LET mine(p) == SelectInSeq(Redirects, LAMBDA r : r.tcp = (proto = "tcp") /\ r.port = p)
    IN  IF mine(port) # 0 THEN Redirects[mine(port)].target
        ELSE IF mine(0) # 0 THEN Redirects[mine(0)].target ELSE 0

------------------------------------------------------------------------------
is_loopback(a) == a.host = "loopback"
Passed(p) == [did |-> "passed", p |-> p]
Outbound(p) ==
    LET key == [proto |-> p.proto, client |-> <<p.src, p.sport>>, dest |-> <<p.dst, p.dport>>]
        t   == prune(table, now)
        l   == IF outbound_listener(t, key) # 0 THEN outbound_listener(t, key)
               ELSE redirect_target(p.proto, p.dport)
    IN  IF is_loopback(p.dst) THEN table' = table /\ seen' = Passed(p) /\ contact' = contact
        ELSE IF l = 0 THEN table' = t /\ seen' = Passed(p) /\ contact' = contact
        ELSE /\ table' \in IF key \in DOMAIN t.entries THEN touch(t, key, now) ELSE {insert(t, key, l, now)}
             /\ seen' = [did |-> "redirected", p |-> p, listener |-> l]
             /\ contact' = [r \in DOMAIN contact \cup {reverse_key(key, l)} |->
                              IF r = reverse_key(key, l) THEN key.dest ELSE contact[r]]
Inbound(p) ==
    LET r == [proto |-> p.proto, client |-> <<p.dst, p.dport>>, listener |-> p.sport]
        t == prune(table, now)
    IN  /\ contact' = contact
        /\ IF ~is_loopback(p.src) THEN table' = table /\ seen' = Passed(p)
           ELSE IF inbound_flow(t, r) = {} THEN table' = t /\ seen' = Passed(p)
           ELSE LET key == CHOOSE k \in inbound_flow(t, r) : TRUE
                IN  /\ table' \in touch(t, key, now)
                    /\ seen' = [did |-> "restored", p |-> p, r |-> r, dest |-> key.dest]
redirect_packet(x) ==
    LET p == packet_metadata(x.f)
    IN  IF p.proto \notin {"tcp", "udp"} THEN table' = table /\ seen' = Passed(p) /\ contact' = contact
        ELSE IF x.dir = "out" THEN Outbound(p) ELSE Inbound(p)

------------------------------------------------------------------------------
(* The receiving thread.  A frame that cannot be parsed is passed on and   *)
(* the thread receives again; else the packet goes to the task.            *)
recv_packet ==
    /\ rx = "idle" /\ lock = "free" /\ sd # "done"
    /\ rx' = "waiting" /\ lock' = "rx"
    /\ UNCHANGED <<kind, device, sd, table, now, packets, seen, contact>>
FrameArrives ==
    /\ rx = "waiting" /\ device = "open" /\ packets < MaxPackets
    /\ \E x \in Frames :
         IF kind = "pcap"
         THEN seen' = [did |-> "captured", p |-> PC_parse_packet(x.f)] /\ UNCHANGED <<table, contact>>
         ELSE redirect_packet(x)
    /\ packets' = packets + 1 /\ rx' = "idle" /\ lock' = "free"
    /\ UNCHANGED <<kind, device, sd, now>>
(* The receive fails once the handle is closed, or times out and finds the *)
(* flag set; an error of the device ends it too.                           *)
ReceiveFails ==
    /\ rx = "waiting" /\ device = "closed"
    /\ rx' = "failed" /\ lock' = "free"
    /\ UNCHANGED <<kind, device, sd, table, now, packets, seen, contact>>
DeviceError ==
    /\ rx = "waiting" /\ device = "open"
    /\ rx' = "failed" /\ lock' = "free"
    /\ UNCHANGED <<kind, device, sd, table, now, packets, seen, contact>>
(* The device is closed before its lock is asked for.                      *)
(* Mutant: shutdown waits for the lock first.                              *)
shutdown_locks ==
    /\ sd = "off" /\ lock = "free" /\ sd' = "closing" /\ device' = "closed"
    /\ UNCHANGED <<kind, rx, lock, table, now, packets, seen, contact>>
shutdown ==
    /\ sd = "off"
    /\ \/ sd' = "closing" /\ device' = "closed"
       \/ kind = "windivert" /\ sd' = "failed" /\ device' = "closed"
    /\ UNCHANGED <<kind, rx, lock, table, now, packets, seen, contact>>
shutdown_takes ==
    /\ sd = "closing" /\ lock = "free" /\ sd' = "done"
    /\ UNCHANGED <<kind, rx, lock, device, table, now, packets, seen, contact>>
Tick == /\ now < MaxTime /\ now' = now + 1
        /\ UNCHANGED <<kind, rx, lock, device, sd, table, packets, seen, contact>>

Next == recv_packet \/ FrameArrives \/ ReceiveFails \/ DeviceError \/ shutdown \/ shutdown_takes \/ Tick
(* The receive returns once its device is gone, and shutdown is called.    *)
Fairness == WF_vars(ReceiveFails) /\ WF_vars(shutdown) /\ SF_vars(shutdown_takes)
Spec == Init /\ [][Next]_vars /\ Fairness

------------------------------------------------------------------------------
TypeOK ==
    /\ rx \in {"idle", "waiting", "failed"} /\ lock \in {"free", "rx"}
    /\ Cardinality(DOMAIN table.entries) <= MAX_REDIRECT_FLOWS
    /\ now \in 0 .. MaxTime /\ packets \in 0 .. MaxPackets

(* The two maps of the flow table describe the same flows: every flow is   *)
(* found by its reply, and every reverse entry leads to a live flow        *)
(* (RedirectFlowTable changes them one after the other).                   *)
TablesAgree ==
    /\ \A k \in DOMAIN table.entries :
         LET r == reverse_key(k, table.entries[k].listener) IN r \in DOMAIN table.reverse /\ table.reverse[r] = k
    /\ \A r \in DOMAIN table.reverse :
         table.reverse[r] \in DOMAIN table.entries /\ table.entries[table.reverse[r]].listener = r.listener

(* Every flow is in the expiry queue with the time of its last use, so     *)
(* that prune finds it when it is idle, whatever was compacted or evicted. *)
ExpiryCovers ==
    /\ \A k \in DOMAIN table.entries :
         \E e \in Range(table.expiry) : e.key = k /\ e.at = table.entries[k].at
    /\ \A i, j \in DOMAIN table.expiry : i < j => table.expiry[i].at <= table.expiry[j].at

(* A reply is given the address its client last sent to through that       *)
(* listener (inbound_destination), however many it talks to.               *)
ReplyComesFromContacted ==
    seen.did = "restored" => seen.r \in DOMAIN contact /\ contact[seen.r] = seen.dest

(* The flow table of the rewriter: its two maps are inverse of each other  *)
(* and bounded, every entry can expire, and a reply bears the address its  *)
(* client contacted (RedirectFlowTable).                                   *)
FlowTableSound == TypeOK /\ TablesAgree /\ ExpiryCovers /\ ReplyComesFromContacted

(* A flow used within the timeout is still known: its packets keep going   *)
(* to the listener it was given (outbound_listener).                       *)
ActiveFlowsKept ==
    [][\A k \in DOMAIN table.entries :
         k \notin DOMAIN table'.entries =>
            \/ now - table.entries[k].at >= REDIRECT_FLOW_IDLE_TIMEOUT
            \/ Cardinality(DOMAIN table.entries) >= MAX_REDIRECT_FLOWS
            \/ seen'.did = "redirected" /\ <<seen'.p.src, seen'.p.sport>> = k.client]_vars

(* The four parsers read a frame alike: what the rewriter takes as TCP the *)
(* interceptor reports with the same endpoints, and the file reader and    *)
(* the libpcap interceptor take the same frames for the same packets.      *)
(* Known exceptions: a UDP length that lies is rewritten and not reported; *)
(* a family that is not the nibble's, a raw link naming IPv4; and, of the  *)
(* last two, only one takes a Linux cooked frame or a loopback header in   *)
(* the other byte order (the reader), a link type neither has a case for   *)
(* or the loopback family 23 (the interceptor).                            *)
SameEnds(p, q) == <<p.proto, p.src, p.dst, p.sport, p.dport>> = <<q.proto, q.src, q.dst, q.sport, q.dport>>
NamedFamily(f) == CASE f.link \in {"raw", "ipv4"} -> 4
                    [] f.link = "ipv6" -> 6
                    [] f.link = "other" -> f.version
                    [] f.link \in {"null", "loop"} -> IF f.family.code = 2 THEN 4 ELSE 6
                    [] OTHER -> f.family
OnlyReader(f) == \/ f.link = "sll"
                 \/ f.link \in {"null", "loop"} /\ f.family.big # (f.link = "loop")
OnlyInterceptor(f) == f.link = "other" \/ (f.link \in {"null", "loop"} /\ f.family.code = 23)
Alike(p, q) == p.proto = q.proto /\ p.payload = q.payload /\ (p.proto = "none" \/ SameEnds(p, q))
ParsersAgree ==
    \A f \in IF kind = "windivert" /\ rx = "idle" /\ sd = "off" /\ now = 0 /\ packets = 0 THEN Probes ELSE {} :
      LET w == WD_parse_packet(f)
          m == packet_metadata(f)
          c == PC_parse_packet(f)
          r == parse_link_packet(f)
      IN  /\ m.proto = "tcp" => w.proto = "tcp" /\ SameEnds(m, w)
          /\ w.proto \in {"tcp", "udp"} => SameEnds(m, w)
          /\ r.proto \in {"tcp", "udp"} => SameEnds(r, w) /\ r.payload = w.payload
          /\ NamedFamily(f) = f.version =>
                \/ Alike(c, r)
                \/ c = None /\ OnlyReader(f)
                \/ r = None /\ OnlyInterceptor(f)

(* The checksum the encoder computes verifies, and UDP's is never the zero *)
(* that means none (encoding.rs, internet_checksum and encode_udp_segment).*)
ChecksumsVerify ==
    kind = "windivert" /\ packets = 0 =>
    \A words \in {<<1, 65534>>, <<65535, 65535, 65535>>, <<65535, 1, 2>>, <<0, 0>>, <<65535>>} :
      LET c == internet_checksum(words)
          u == transport_checksum("udp", words)
      IN  OnesSum(Append(words, c)) = U16Max /\ OnesSum(Append(words, u)) = U16Max /\ u # 0

(* Shutdown ends: it never waits for a receive that nothing will wake.     *)
ShutdownEnds == <>(sd \in {"done", "failed"})
=============================================================================
