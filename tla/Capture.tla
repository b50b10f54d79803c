------------------------------ MODULE Capture ------------------------------
(***************************************************************************)
(* The capture file of a run: listeners write what their clients send and  *)
(* what they answer (ListenerContext::write_pcap_event and its relatives), *)
(* close_pcap ends it, and `nettrap replay` reads it back, groups it into  *)
(* flows and derives events from what the clients sent.                    *)
(*                                                                         *)
(* Traffic is the list of messages of the run: [peer, sport, dst, dport,   *)
(* proto, by, n, k]: by the "client" or the "trap", n bytes of content k.  *)
(***************************************************************************)
EXTENDS Packets, SequencesExt

CONSTANTS Traffic,           \* the conversations a run may record
          MaxFaults,         \* failed or torn writes in a behaviour
          MAX_PCAP_RECORDS, MAX_REPLAY_FLOWS, MAX_REPLAY_FLOW_BYTES, MAX_REPLAY_TOTAL_PAYLOAD_BYTES,
          MAX_REPLAY_FLOW_CHUNKS, MAX_REPLAY_TOTAL_PAYLOAD_CHUNKS, MAX_REPLAY_EVENTS

VARIABLES todo,       \* the messages not yet written
          pending,    \* packets whose writer found the capture enabled and waits for the file
          open, enabled,
          records,    \* the records of the file: frames with the message they carry, or Torn
          faults,
          replay,     \* "none", "done", "failed", or "misread": out of step after a torn record
          flows, events   \* what it found

vars == <<todo, pending, open, enabled, records, faults, replay, flows, events>>

Torn == [torn |-> TRUE]

Init == /\ todo \in Traffic /\ pending = <<>> /\ records = <<>> /\ faults = 0
        /\ open = TRUE /\ enabled = TRUE
        /\ replay = "none" /\ flows = <<>> /\ events = <<>>

------------------------------------------------------------------------------
(* Mapped addresses are written as the IPv4 address they stand for; a      *)
(* message without a usable destination is not written.                    *)
normalize_session_ip(a) == [fam |-> IF a.mapped THEN 4 ELSE a.fam, host |-> a.host, local |-> a.local, mapped |-> FALSE]
pcap_peer_ip(m) == normalize_session_ip(m.peer)
pcap_destination_ip(m) == normalize_session_ip(m.dst)
has_destination(m) == m.dst.host \notin {"unspecified", "unparsable"}
PacketOf(m) ==
    LET c == [ip |-> pcap_peer_ip(m), port |-> m.sport]
        s == [ip |-> pcap_destination_ip(m), port |-> m.dport]
        from == IF m.by = "client" THEN c ELSE s
        to   == IF m.by = "client" THEN s ELSE c
    IN  [proto |-> m.proto, src |-> from.ip, dst |-> to.ip, sport |-> from.port, dport |-> to.port,
         flags |-> m.flags, payload |-> m.n]

(* write_pcap_event_* and write_pcap_response_*: the capture is found      *)
(* enabled before the lock on the file is taken.                           *)
write_pcap ==
    /\ todo # <<>> /\ todo' = Tail(todo)
    /\ pending' = IF enabled /\ has_destination(Head(todo)) THEN Append(pending, Head(todo)) ELSE pending
    /\ UNCHANGED <<open, enabled, records, faults, replay, flows, events>>

(* The rest of write_packet, under the lock.  The packet is encoded before *)
(* the first byte is written, so that an error leaves the file as it was.  *)
(* Mutant: a record may be as long as its length field allows.             *)
pcap_record_len_ok_any(f) == f.cap >= 0
pcap_record_len_ok(f) == f.cap \in 0 .. MAX_PCAP_RECORD_BYTES
Encoded(m) == encode_raw_ip_packet(PacketOf(m))
write_packet(i) ==
    LET f == Encoded(pending[i])
    IN  /\ pending' = RemoveAt(pending, i)
        /\ records' = IF open /\ pcap_record_len_ok(f)
                      THEN Append(records, [torn |-> FALSE, frame |-> f, m |-> pending[i]]) ELSE records
        /\ UNCHANGED <<todo, open, enabled, faults, replay, flows, events>>
(* One of its five write_all calls fails: the bytes before it stay.        *)
write_packet_fails(i) ==
    /\ open /\ faults < MaxFaults /\ faults' = faults + 1
    /\ pending' = RemoveAt(pending, i)
    /\ \E written \in BOOLEAN : records' = IF written THEN Append(records, Torn) ELSE records
    /\ UNCHANGED <<todo, open, enabled, replay, flows, events>>

(* close: the file goes before the flag.                                   *)
close ==
    /\ open /\ open' = FALSE
    /\ UNCHANGED <<todo, pending, enabled, records, faults, replay, flows, events>>
close_disables ==
    /\ ~open /\ enabled /\ enabled' = FALSE
    /\ UNCHANGED <<todo, pending, open, records, faults, replay, flows, events>>
(* The process dies, perhaps in the middle of a record.                    *)
Crash ==
    /\ open /\ faults < MaxFaults /\ faults' = faults + 1
    /\ open' = FALSE /\ enabled' = FALSE /\ todo' = <<>> /\ pending' = <<>>
    /\ records' = IF pending # <<>> THEN Append(records, Torn) ELSE records
    /\ UNCHANGED <<replay, flows, events>>

------------------------------------------------------------------------------
(* The reader: a record that is cut short or longer than the header of the *)
(* file allows is an error, as is a file with too many records; a frame it *)
(* cannot parse is skipped.                                                *)
snaplen_ok(r) == r.torn \/ r.frame.cap <= MAX_PCAP_RECORD_BYTES
Parsed(r) == LET p == parse_link_packet(r.frame)
             IN  [p |-> p, m |-> r.m, dir |-> IF p.proto = "none" THEN "unknown" ELSE direction_of(p)]
readable(recs) == (\A r \in Range(recs) : ~r.torn /\ snaplen_ok(r)) /\ Len(recs) <= MAX_PCAP_RECORDS
read_file(recs) == SelectSeq([i \in DOMAIN recs |-> Parsed(recs[i])], LAMBDA x : x.p.proto # "none")

(* Flows: the first packet of a pair of endpoints decides who the client   *)
(* is; payloads are kept while the limits of the flow and of the whole     *)
(* replay leave room for them.                                             *)
canonical_five_tuple(p) == [ends |-> {<<p.src, p.sport>>, <<p.dst, p.dport>>}, proto |-> p.proto]
(* Mutant: the side with the lower port is the client.                     *)
client_is_src_low(x) ==
    CASE x.dir = "outbound" -> TRUE
      [] x.dir = "inbound"  -> FALSE
      [] {"SYN", "ACK"} \subseteq x.p.flags -> FALSE
      [] "SYN" \in x.p.flags -> TRUE
      [] OTHER -> x.p.sport <= x.p.dport
client_is_src(x) ==
    CASE x.dir = "outbound" -> TRUE
      [] x.dir = "inbound"  -> FALSE
      [] {"SYN", "ACK"} \subseteq x.p.flags -> FALSE
      [] "SYN" \in x.p.flags -> TRUE
      [] OTHER -> x.p.sport >= x.p.dport
NewFlow(x) ==
    LET p == x.p
        src == client_is_src(x)
    IN  [key |-> canonical_five_tuple(p), proto |-> p.proto, bytes |-> 0, chunks |-> <<>>,
         client |-> IF src THEN <<p.src, p.sport>> ELSE <<p.dst, p.dport>>,
         server |-> IF src THEN p.dport ELSE p.sport, opener |-> <<pcap_peer_ip(x.m), x.m.sport>>]
Slot(fs, x) == SelectInSeq(fs, LAMBDA g : g.key = canonical_five_tuple(x.p))
client_to_server(g, x) ==
    CASE x.dir = "outbound" -> TRUE
      [] x.dir = "inbound"  -> FALSE
      [] OTHER -> g.client = <<x.p.src, x.p.sport>>
Total(fs) == [bytes |-> FoldFunction(+, 0, [i \in DOMAIN fs |-> fs[i].bytes]),
              chunks |-> FoldFunction(+, 0, [i \in DOMAIN fs |-> Len(fs[i].chunks)])]
capped_by_chunks(g, total) == \/ Len(g.chunks) >= MAX_REPLAY_FLOW_CHUNKS
                              \/ total.chunks >= MAX_REPLAY_TOTAL_PAYLOAD_CHUNKS
Chunk(x, take) == [m |-> x.m, n |-> take, whole |-> take = x.p.payload]
(* Mutant: a payload that does not fit is left out instead of cut.         *)
Take_whole(g, total, x) ==
    LET room == MAX_REPLAY_FLOW_BYTES - g.bytes
        all  == MAX_REPLAY_TOTAL_PAYLOAD_BYTES - total.bytes
    IN  IF capped_by_chunks(g, total) \/ x.p.payload > room \/ x.p.payload > all
        THEN 0 ELSE x.p.payload
Take(g, total, x) ==
    LET room == MAX_REPLAY_FLOW_BYTES - g.bytes
        all  == MAX_REPLAY_TOTAL_PAYLOAD_BYTES - total.bytes
        least == CHOOSE n \in {room, all, x.p.payload} : \A o \in {room, all, x.p.payload} : n <= o
    IN  IF capped_by_chunks(g, total) THEN 0 ELSE least
Retain(fs, i, x, take) ==
    IF x.p.payload = 0 \/ ~client_to_server(fs[i], x) \/ take = 0 THEN fs
    ELSE [fs EXCEPT ![i].bytes = @ + take, ![i].chunks = Append(@, Chunk(x, take))]
AddPacket(fs, x) ==
    LET known == Slot(fs, x)
        grown == IF known = 0 /\ Len(fs) < MAX_REPLAY_FLOWS THEN Append(fs, NewFlow(x)) ELSE fs
        i     == Slot(grown, x)
    IN  IF i = 0 THEN fs ELSE Retain(grown, i, x, Take(grown[i], Total(grown), x))
group_flows(packets) == FoldLeft(AddPacket, <<>>, packets)

(* Events: one for a TCP flow, whose chunks are taken together, or one for *)
(* each message of a DNS-over-TCP flow none of whose messages is cut; one  *)
(* for each datagram of a UDP flow; one for a flow without payload.        *)
should_strip_dns_tcp_prefix(g, c) == g.server = 53 \/ c.m.k = "dns"
payload_event(g, c) ==
    CASE c.m.k = "http" /\ ~c.whole -> "raw"
      [] c.m.k = "dns" /\ ~c.whole  -> "raw"
      [] OTHER -> c.m.k
dns_tcp_messages(g) ==
    /\ Len(g.chunks) > 1 /\ \A c \in Range(g.chunks) : c.m.k = "dns" /\ c.whole
    /\ should_strip_dns_tcp_prefix(g, g.chunks[1])
(* Mutant: a flow without payload is not reported.                         *)
flow_events_payload(i, g) ==
    LET event(c) == [flow |-> i, k |-> payload_event(g, c), n |-> c.n]
    IN  IF g.chunks = <<>> THEN <<>> ELSE [j \in DOMAIN g.chunks |-> event(g.chunks[j])]
flow_events(i, g) ==
    LET event(c) == [flow |-> i, k |-> payload_event(g, c), n |-> c.n]
    IN  CASE g.chunks = <<>> -> <<[flow |-> i, k |-> "no payload", n |-> 0]>>
          [] g.proto = "udp" \/ dns_tcp_messages(g) -> [j \in DOMAIN g.chunks |-> event(g.chunks[j])]
          [] OTHER -> <<[flow |-> i, k |-> payload_event(g, g.chunks[1]), n |-> g.bytes]>>
replay_events(fs) ==
    LET all == FlattenSeq([i \in DOMAIN fs |-> flow_events(i, fs[i])])
    IN  SubSeq(all, 1, IF Len(all) < MAX_REPLAY_EVENTS THEN Len(all) ELSE MAX_REPLAY_EVENTS)
replay_pcap ==
    /\ ~enabled /\ todo = <<>> /\ pending = <<>> /\ replay = "none"
    /\ IF readable(records)
       THEN /\ replay' = "done"
            /\ \E fs \in {group_flows(read_file(records))} : flows' = fs /\ events' = replay_events(fs)
       ELSE /\ replay' \in {"failed"} \cup (IF Last(records).torn THEN {} ELSE {"misread"})
            /\ UNCHANGED <<flows, events>>
    /\ UNCHANGED <<todo, pending, open, enabled, records, faults>>

Next == \/ write_pcap
        \/ \E i \in DOMAIN pending : write_packet(i) \/ write_packet_fails(i)
        \/ close
        \/ close_disables
        \/ Crash
        \/ replay_pcap
Spec == Init /\ [][Next]_vars

------------------------------------------------------------------------------
(* What the writer accepts the reader gives back: the same endpoints and   *)
(* the same payload, for every length a record may have, none of them a    *)
(* length the reader refuses the whole file for.                           *)
CaptureRoundTrips ==
    \A i \in DOMAIN records :
       ~records[i].torn /\ records[i].m.proto \in {"tcp", "udp"} =>
          LET p == PacketOf(records[i].m)
          IN  snaplen_ok(records[i]) /\ parse_link_packet(records[i].frame) = [p EXCEPT !.flags = tcp_flags(p)]

(* Both directions of a conversation, and only they, are one flow, and     *)
(* what a flow keeps is a prefix of what one of its sides sent: a limit    *)
(* never leaves a hole (group_flows_with_limits).                          *)
FlowsWhole ==
    replay = "done" =>
      \A g \in Range(flows) :
        LET sent == SelectSeq(records, LAMBDA r : /\ canonical_five_tuple(PacketOf(r.m)) = g.key
                                                  /\ client_to_server(g, Parsed(r))
                                                  /\ r.m.n > 0)
        IN  /\ Len(g.chunks) <= Len(sent) /\ g.bytes <= MAX_REPLAY_FLOW_BYTES
            /\ \A j \in DOMAIN g.chunks : /\ g.chunks[j].m = sent[j].m
                                          /\ j < Len(g.chunks) => g.chunks[j].whole
            /\ \A h \in Range(flows) : h.key = g.key => h = g

(* A replay reports every flow, and every datagram it kept, unless the     *)
(* limit on events is reached (replay_pcap).                               *)
EveryFlowReported ==
    replay = "done" /\ Len(events) < MAX_REPLAY_EVENTS =>
      \A i \in DOMAIN flows :
        LET mine == SelectSeq(events, LAMBDA e : e.flow = i)
        IN  /\ mine # <<>>
            /\ flows[i].proto = "udp" /\ flows[i].chunks # <<>> => Len(mine) = Len(flows[i].chunks)

(* "Client = side that opened the connection" (engine/replay.rs:121), for  *)
(* clients whose address tells them from what they contact: a local client *)
(* of a host that is not local, and clients that use the higher port where *)
(* both or neither are local; what a replay keeps is their payload.        *)
LocalClientIsOpener ==
    replay = "done" =>
      \A g \in Range(flows) : \A c \in Range(g.chunks) :
        \/ c.m.by = "client"
        \/ "SYN" \in c.m.flags
        \/ c.m.dst.local /\ ~c.m.peer.local
        \/ c.m.dst.local = c.m.peer.local /\ c.m.sport < c.m.dport
=============================================================================
