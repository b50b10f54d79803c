-------------------------- MODULE ListenerSessions --------------------------
(***************************************************************************)
(* A TCP and a UDP listener on one port with the session bookkeeping they  *)
(* share (nettrap-cli/src/listeners/tcp_listener.rs, udp_listener.rs,      *)
(* listener_context/context.rs, engine/interceptor.rs, engine/startup/     *)
(* cleanup.rs).                                                            *)
(*                                                                         *)
(* The interceptor notes where each inbound packet was headed before the   *)
(* kernel redirects it here.  The accept loop and the receive loop take    *)
(* that destination, register the session and its flow, and start a task   *)
(* that ends by removing them.  A cleanup task expires what is idle.  The  *)
(* session table, the flow table and the destination table have separate   *)
(* locks, and a client may reuse a source port while the task of its last  *)
(* connection still runs.                                                  *)
(*                                                                         *)
(* The flow table is the set of session keys that have a flow (FlowManager *)
(* opens it up); a flow may expire at any time.                            *)
(***************************************************************************)
EXTENDS Naturals, FiniteSets, Sequences

-----------------------------------------------------------------------------
(* The session table (nettrap-cli/src/session.rs, SessionTracker) and the  *)
(* table of original destinations (session/port_forward.rs,                *)
(* PortForwardTable), as the operations that run under their locks.        *)
(*                                                                         *)
(* A session table is a function from keys to sessions, NoSession where    *)
(* there is none.  Byte and packet counters are left out; a session is its *)
(* last activity and the process attributed to it.                         *)

CONSTANTS
    Peers,          \* source addresses
    Dests,          \* destinations
    Local,          \* the listener's own address as a destination
    Processes,      \* process names
    NoProcess,
    Ttl,            \* session_ttl_secs
    MaxSessions,    \* max_sessions
    MaxPerFlow,     \* MAX_ORIGINAL_DESTINATIONS_PER_FLOW
    MaxFlows,       \* MAX_ORIGINAL_DESTINATION_FLOWS
    MaxTime         \* bound: the clock

ASSUME TrackerAssumption ==
    /\ Local \notin Dests /\ NoProcess \notin Processes
    /\ Ttl \in Nat \ {0} /\ MaxSessions \in Nat \ {0}
    /\ MaxPerFlow \in Nat \ {0} /\ MaxFlows \in Nat \ {0} /\ MaxTime \in Nat

Protocols == {"TCP", "UDP"}

SessionKey == [src : Peers, dst : Dests \cup {Local}, protocol : Protocols]

NoSession == [present |-> FALSE, last_activity |-> 0, process |-> NoProcess]

SessionInfo == [present : BOOLEAN, last_activity : 0..MaxTime, process : Processes \cup {NoProcess}]

Sessions == [SessionKey -> SessionInfo]

Active(s) == {k \in SessionKey : s[k].present}

\* duration_since(last_activity) >= ttl
SessionExpired(info, now) == info.present /\ now - info.last_activity >= Ttl

-----------------------------------------------------------------------------
(* SessionTracker *)

ExpiredSessions(s, now) == {k \in SessionKey : SessionExpired(s[k], now)}

cleanup_expired_sessions(s, now) ==
    [k \in SessionKey |-> IF SessionExpired(s[k], now) THEN NoSession ELSE s[k]]

\* Mutant: one session too many is kept.
EnforceCapacity_mutant(s) ==
    IF Cardinality(Active(s)) <= MaxSessions THEN {s}
    ELSE {[s EXCEPT ![k] = NoSession] :
            k \in {k \in Active(s) : \A j \in Active(s) : s[k].last_activity <= s[j].last_activity}}

\* enforce_session_capacity: the least recently active session goes; which of
\* several with the same time is up to the hash order.
EnforceCapacity(s) ==
    IF Cardinality(Active(s)) < MaxSessions THEN {s}
    ELSE {[s EXCEPT ![k] = NoSession] :
            k \in {k \in Active(s) : \A j \in Active(s) : s[k].last_activity <= s[j].last_activity}}

\* What register may leave behind; swept: the cleanup interval has passed.
register(s, k, now, swept) ==
    LET t == IF swept THEN cleanup_expired_sessions(s, now) ELSE s
        u == IF SessionExpired(t[k], now) THEN [t EXCEPT ![k] = NoSession] ELSE t
    IN  IF u[k].present THEN {[u EXCEPT ![k].last_activity = now]}
        ELSE {[v EXCEPT ![k] = [present |-> TRUE, last_activity |-> now, process |-> NoProcess]] :
                v \in EnforceCapacity(u)}

\* The value register returns.
IsNew(s, k, now) == ~s[k].present \/ SessionExpired(s[k], now)

update_bytes(s, k, now) ==
    IF SessionExpired(s[k], now) THEN [s EXCEPT ![k] = NoSession]
    ELSE IF s[k].present THEN [s EXCEPT ![k].last_activity = now] ELSE s

set_process(s, k, p, now) ==
    IF SessionExpired(s[k], now) THEN [s EXCEPT ![k] = NoSession]
    ELSE IF s[k].present THEN [s EXCEPT ![k].process = p] ELSE s

remove(s, k) == [s EXCEPT ![k] = NoSession]

-----------------------------------------------------------------------------
(* PortForwardTable: [RedirectFlowKey -> [queue, last_updated]]; a flow with *)
(* an empty queue has no entry.  There is one listener port.                *)

RedirectFlowKey == [src : Peers, protocol : Protocols]

NoEntry == [queue |-> <<>>, last_updated |-> 0]

NoDestinations == [f \in RedirectFlowKey |-> NoEntry]

Recorded(d) == {f \in RedirectFlowKey : d[f].queue # <<>>}

\* enforce_original_destination_flow_capacity
EnforceFlowCapacity(d) ==
    IF Cardinality(Recorded(d)) < MaxFlows THEN {d}
    ELSE {[d EXCEPT ![f] = NoEntry] :
            f \in {f \in Recorded(d) : \A g \in Recorded(d) : d[f].last_updated <= d[g].last_updated}}

\* push_back_bounded
PushBounded(q, dst) == Append(IF Len(q) >= MaxPerFlow THEN Tail(q) ELSE q, dst)

\* Mutant: a TCP destination does not replace the one before it.
NewQueue_mutant(q, protocol, dst) == PushBounded(q, dst)

\* A TCP flow keeps one destination, a UDP flow one per datagram.
NewQueue(q, protocol, dst) == IF protocol = "TCP" THEN <<dst>> ELSE PushBounded(q, dst)

record_original_dest(d, f, dst, now) ==
    {[e EXCEPT ![f] = [queue |-> NewQueue(@.queue, f.protocol, dst), last_updated |-> now]] :
        e \in (IF d[f].queue = <<>> THEN EnforceFlowCapacity(d) ELSE {d})}

\* Mutant: the newest destination is taken.
NextDest_mutant(q) == q[Len(q)]

NextDest(q) == Head(q)

take_original_dest(d, f, now) ==
    IF Len(d[f].queue) <= 1 THEN [d EXCEPT ![f] = NoEntry]
    ELSE [d EXCEPT ![f] = [queue |-> Tail(@.queue), last_updated |-> now]]

clear_original_dest(d, f) == [d EXCEPT ![f] = NoEntry]

purge_stale_destinations(d, now) ==
    [f \in RedirectFlowKey |-> IF d[f].queue # <<>> /\ now - d[f].last_updated < Ttl
                               THEN d[f] ELSE NoEntry]

-----------------------------------------------------------------------------
(* The listeners. *)

CONSTANTS
    Conns,            \* TCP connections
    Datagrams,        \* UDP datagrams
    Forwarded,        \* destinations resolve_redirect_target knows
    MaxConnections,   \* ctx.max_connections()
    MaxUdpTasks,      \* permits of udp_semaphore: 1024 in the code
    KernelKnows,      \* SO_ORIGINAL_DST / IP_PKTINFO answer the destination
    SocketLoses,      \* the kernel may drop a datagram of a full socket buffer
    TaskPanics,       \* a connection task may panic
    PromptAccept,     \* a connection is registered before its source port comes back
    MaxPackets        \* bound: packets the interceptor sees after each SYN

ASSUME ListenerAssumption ==
    /\ Forwarded \subseteq Dests
    /\ MaxConnections \in Nat \ {0} /\ MaxUdpTasks \in Nat \ {0} /\ MaxPackets \in Nat
    /\ KernelKnows \in BOOLEAN /\ SocketLoses \in BOOLEAN /\ TaskPanics \in BOOLEAN
    /\ PromptAccept \in BOOLEAN
    /\ Conns \cap Datagrams = {}

VARIABLES
    src, orig,       \* who sends each connection or datagram, and where to
    blocked,         \* peers the host filter refuses
    sessions,        \* the SessionTracker
    dests,           \* the PortForwardTable
    flows,           \* keys with a flow
    now,
    pc,              \* per connection and datagram: how far it is
    dst,             \* the destination it was registered with
    closed,          \* connections the client has closed
    packets,         \* packets seen of each connection
    backlog,         \* datagrams in the socket, in order
    slots,           \* active_connections
    permits,         \* datagram tasks
    expired          \* keys the cleanup task still has to remove flows of

inputs == <<src, orig, blocked>>   \* chosen at the start, never changed
vars == <<inputs, sessions, dests, flows, now, pc, dst, closed, packets, backlog,
          slots, permits, expired>>

Units == Conns \cup Datagrams

Proto(u) == IF u \in Conns THEN "TCP" ELSE "UDP"

Key(u)     == [src |-> src[u], dst |-> dst[u], protocol |-> Proto(u)]
FlowKey(u) == [src |-> src[u], protocol |-> Proto(u)]

Loops == {"take", "register", "flow"}   \* the accept or receive loop is busy

PcValues == {"new", "sent", "filter", "serve", "bytes", "unflow", "unsession",
             "undest", "gone", "panicked"} \cup Loops

TypeOK ==
    /\ src \in [Units -> Peers] /\ orig \in [Units -> Dests] /\ blocked \subseteq Peers
    /\ sessions \in Sessions /\ Cardinality(Active(sessions)) <= MaxSessions
    /\ Cardinality(Recorded(dests)) <= MaxFlows
    /\ \A f \in RedirectFlowKey :
          /\ Len(dests[f].queue) <= MaxPerFlow
          /\ \A i \in 1..Len(dests[f].queue) : dests[f].queue[i] \in Forwarded
    /\ flows \subseteq SessionKey
    /\ now \in 0..MaxTime
    /\ pc \in [Units -> PcValues]
    /\ dst \in [Units -> Dests \cup {Local}]
    /\ closed \subseteq Conns
    /\ packets \in [Conns -> 0..MaxPackets]
    /\ \A i \in 1..Len(backlog) : backlog[i] \in Datagrams
    /\ slots \in 0..MaxConnections /\ permits \in 0..MaxUdpTasks
    /\ expired \subseteq SessionKey

Init ==
    /\ src \in [Units -> Peers] /\ orig \in [Units -> Dests] /\ blocked \in SUBSET Peers
    /\ sessions = [k \in SessionKey |-> NoSession]
    /\ dests = NoDestinations
    /\ flows = {}
    /\ now = 0
    /\ pc = [u \in Units |-> "new"]
    /\ dst = [u \in Units |-> Local]
    /\ closed = {} /\ packets = [c \in Conns |-> 0]
    /\ backlog = <<>>
    /\ slots = 0 /\ permits = 0
    /\ expired = {}

Goto(u, label) == pc' = [pc EXCEPT ![u] = label]

Tick ==
    /\ now < MaxTime
    /\ now' = now + 1
    /\ UNCHANGED <<inputs, sessions, dests, flows, pc, dst, closed, packets, backlog,
                   slots, permits, expired>>

-----------------------------------------------------------------------------
(* The client and the interceptor. *)

\* track_original_destination, for every inbound packet.
track_original_destination(u) ==
    IF orig[u] \in Forwarded
    THEN dests' \in record_original_dest(dests, FlowKey(u), orig[u], now)
    ELSE dests' = dests

\* A source port is used again once the client has closed its connection,
\* whether or not the task that served it has noticed.
Connect(c) ==
    /\ pc[c] = "new"
    /\ \A b \in Conns \ {c} : src[b] = src[c] =>
          pc[b] = "new" \/ (b \in closed /\ (PromptAccept => pc[b] \notin {"sent", "take"}))
    /\ track_original_destination(c)
    /\ Goto(c, "sent")
    /\ UNCHANGED <<inputs, sessions, flows, now, dst, closed, packets, backlog,
                   slots, permits, expired>>

\* A later packet of the connection; the last one is its FIN or RST.
Packet(c, last) ==
    /\ pc[c] # "new" /\ c \notin closed
    /\ last \/ packets[c] < MaxPackets
    /\ packets' = IF last THEN packets ELSE [packets EXCEPT ![c] = @ + 1]
    /\ closed' = IF last THEN closed \cup {c} ELSE closed
    /\ track_original_destination(c)
    /\ UNCHANGED <<inputs, sessions, flows, now, pc, dst, backlog, slots, permits, expired>>

\* A datagram passes the interceptor and reaches the socket, or is lost there.
SendDatagram(d) ==
    /\ pc[d] = "new"
    /\ track_original_destination(d)
    /\ \/ Goto(d, "sent") /\ backlog' = Append(backlog, d)
       \/ SocketLoses /\ Goto(d, "gone") /\ UNCHANGED backlog
    /\ UNCHANGED <<inputs, sessions, flows, now, dst, closed, packets, slots, permits, expired>>

-----------------------------------------------------------------------------
(* The accept loop: one connection at a time. *)

AcceptLoopFree == \A c \in Conns : pc[c] \notin Loops

\* The listener lets go of the connection: a reset ends it for the client too,
\* after a FIN the client's own FIN is still to pass the interceptor.
ServerCloses(c) == closed' \in {closed, closed \cup {c}}

acquire_connection_slot == slots < MaxConnections

\* A connection is dropped because it is over the limit or because
\* is_host_allowed refuses its peer; the slot of the second is released at once.
Refuse(c) ==
    /\ pc[c] = "sent" /\ AcceptLoopFree
    /\ ~acquire_connection_slot \/ src[c] \in blocked
    /\ Goto(c, "gone")
    /\ ServerCloses(c)
    /\ UNCHANGED <<inputs, sessions, dests, flows, now, dst, packets, backlog, slots,
                   permits, expired>>

Accept(c) ==
    /\ pc[c] = "sent" /\ AcceptLoopFree
    /\ acquire_connection_slot /\ src[c] \notin blocked
    /\ slots' = slots + 1
    /\ Goto(c, "take")
    /\ UNCHANGED <<inputs, sessions, dests, flows, now, dst, closed, packets, backlog,
                   permits, expired>>

-----------------------------------------------------------------------------
(* register_session_state, for a connection or a datagram. *)

Fallback(u) == IF KernelKnows THEN orig[u] ELSE Local

TakeDestination(u) ==
    LET f == FlowKey(u)
    IN  /\ pc[u] = "take"
        /\ dst' = [dst EXCEPT ![u] = IF dests[f].queue = <<>> THEN Fallback(u)
                                     ELSE NextDest(dests[f].queue)]
        /\ dests' = take_original_dest(dests, f, now)
        /\ Goto(u, "register")
        /\ UNCHANGED <<inputs, sessions, flows, now, closed, packets, backlog, slots,
                       permits, expired>>

RegisterSession(u) ==
    /\ pc[u] = "register"
    /\ \E swept \in BOOLEAN : sessions' \in register(sessions, Key(u), now, swept)
    /\ Goto(u, "flow")
    /\ UNCHANGED <<inputs, dests, flows, now, dst, closed, packets, backlog, slots,
                   permits, expired>>

\* ensure_session_flow; its get_process expires sessions.  A datagram then needs
\* a permit or is dropped.
ensure_session_flow(u) ==
    /\ flows' = flows \cup {Key(u)}
    /\ sessions' = cleanup_expired_sessions(sessions, now)

EnsureFlow(u) ==
    /\ pc[u] = "flow"
    /\ ensure_session_flow(u)
    /\ IF u \in Conns \/ permits < MaxUdpTasks
       THEN Goto(u, "filter") /\ permits' = permits + (IF u \in Conns THEN 0 ELSE 1)
       ELSE Goto(u, "gone") /\ UNCHANGED permits
    /\ UNCHANGED <<inputs, dests, now, dst, closed, packets, backlog, slots, expired>>

-----------------------------------------------------------------------------
(* The receive loop. *)

ReceiveLoopFree == \A d \in Datagrams : pc[d] \notin Loops

recv_udp_packet ==
    LET d == Head(backlog)
    IN  /\ backlog # <<>> /\ ReceiveLoopFree
        /\ backlog' = Tail(backlog)
        /\ Goto(d, IF src[d] \in blocked THEN "gone" ELSE "take")
        /\ UNCHANGED <<inputs, sessions, dests, flows, now, dst, closed, packets, slots,
                       permits, expired>>

-----------------------------------------------------------------------------
(* The task of a connection or a datagram. *)

\* Mutant: a refused process keeps its session.
AfterRefusal_mutant(u) == "gone"

\* A refused datagram leaves its session behind; a refused connection does not.
AfterRefusal(u) == IF u \in Conns THEN "unflow" ELSE "gone"

\* Mutant: the slot is given back on the ordinary way out only.
Release_mutant(u) ==
    /\ slots' = slots - (IF u \in Conns /\ pc[u] # "serve" THEN 1 ELSE 0)
    /\ permits' = permits - (IF u \in Datagrams THEN 1 ELSE 0)

\* The slot and the permit are guards, dropped when the task ends.
Release(u) ==
    /\ slots' = slots - (IF u \in Conns THEN 1 ELSE 0)
    /\ permits' = permits - (IF u \in Datagrams THEN 1 ELSE 0)

\* apply_tcp_process_filter, apply_udp_process_filter: attribution finds a
\* process and stores it, or finds none or times out; the policy may refuse it.
Attribute(u) ==
    /\ pc[u] = "filter"
    /\ \/ sessions' = sessions /\ Goto(u, "serve") /\ UNCHANGED <<slots, permits>>
       \/ \E p \in Processes :
            /\ sessions' = set_process(sessions, Key(u), p, now)
            /\ \/ Goto(u, "serve") /\ UNCHANGED <<slots, permits>>
               \/ /\ Goto(u, AfterRefusal(u))
                  /\ IF AfterRefusal(u) = "gone" THEN Release(u) ELSE UNCHANGED <<slots, permits>>
    /\ UNCHANGED <<inputs, dests, flows, now, dst, closed, packets, backlog, expired>>

\* update_session_bytes: the flow, then the session.
UpdateFlow(u) ==
    /\ pc[u] = "serve"
    /\ ensure_session_flow(u)
    /\ Goto(u, "bytes")
    /\ UNCHANGED <<inputs, dests, now, dst, closed, packets, backlog, slots, permits, expired>>

UpdateBytes(u) ==
    /\ pc[u] = "bytes"
    /\ sessions' = update_bytes(sessions, Key(u), now)
    /\ Goto(u, "serve")
    /\ UNCHANGED <<inputs, dests, flows, now, dst, closed, packets, backlog, slots,
                   permits, expired>>

Finish(u) ==
    /\ pc[u] = "serve"
    /\ IF u \in Conns
       THEN Goto(u, "unflow") /\ UNCHANGED <<slots, permits>>
       ELSE Goto(u, "gone") /\ Release(u)
    /\ UNCHANGED <<inputs, sessions, dests, flows, now, dst, closed, packets, backlog, expired>>

\* A panic unwinds past remove_session; only the slot has a guard.
Panic(c) ==
    /\ TaskPanics /\ pc[c] = "serve" /\ c \in Conns
    /\ Goto(c, "panicked")
    /\ ServerCloses(c)
    /\ Release(c)
    /\ UNCHANGED <<inputs, sessions, dests, flows, now, dst, packets, backlog, expired>>

\* remove_session: the flow, the session, the queued destinations.
RemoveFlow(c) ==
    /\ pc[c] = "unflow"
    /\ flows' = flows \ {Key(c)}
    /\ Goto(c, "unsession")
    /\ UNCHANGED <<inputs, sessions, dests, now, dst, closed, packets, backlog, slots,
                   permits, expired>>

RemoveSession(c) ==
    /\ pc[c] = "unsession"
    /\ sessions' = remove(sessions, Key(c))
    /\ Goto(c, "undest")
    /\ UNCHANGED <<inputs, dests, flows, now, dst, closed, packets, backlog, slots,
                   permits, expired>>

ClearDestination(c) ==
    /\ pc[c] = "undest"
    /\ dests' = clear_original_dest(dests, FlowKey(c))
    /\ Goto(c, "gone")
    /\ ServerCloses(c)
    /\ Release(c)
    /\ UNCHANGED <<inputs, sessions, flows, now, dst, packets, backlog, expired>>

remove_session(c) == RemoveFlow(c) \/ RemoveSession(c) \/ ClearDestination(c)

-----------------------------------------------------------------------------
(* Expiry. *)

\* start_runtime_cleanup_task: the sessions first, then their flows one by one,
\* then the destinations.
CleanupSessions ==
    /\ expired = {} /\ ExpiredSessions(sessions, now) # {}
    /\ expired' = ExpiredSessions(sessions, now)
    /\ sessions' = cleanup_expired_sessions(sessions, now)
    /\ UNCHANGED <<inputs, dests, flows, now, pc, dst, closed, packets, backlog, slots, permits>>

CleanupFlow ==
    /\ \E k \in expired :
        /\ flows' = flows \ {k}
        /\ expired' = expired \ {k}
    /\ UNCHANGED <<inputs, sessions, dests, now, pc, dst, closed, packets, backlog, slots, permits>>

CleanupDestinations ==
    /\ expired = {}
    /\ dests' = purge_stale_destinations(dests, now)
    /\ UNCHANGED <<inputs, sessions, flows, now, pc, dst, closed, packets, backlog, slots,
                   permits, expired>>

\* FlowManager drops a flow that is idle, or the oldest one of a full table.
FlowExpires ==
    /\ \E k \in flows : flows' = flows \ {k}
    /\ UNCHANGED <<inputs, sessions, dests, now, pc, dst, closed, packets, backlog, slots,
                   permits, expired>>

-----------------------------------------------------------------------------
Next ==
    \/ \E c \in Conns : \/ Connect(c) \/ Refuse(c) \/ Accept(c)
                        \/ \E last \in BOOLEAN : Packet(c, last)
                        \/ Panic(c) \/ remove_session(c)
    \/ \E d \in Datagrams : SendDatagram(d)
    \/ recv_udp_packet
    \/ \E u \in Units : \/ TakeDestination(u) \/ RegisterSession(u) \/ EnsureFlow(u)
                        \/ Attribute(u) \/ UpdateFlow(u) \/ UpdateBytes(u) \/ Finish(u)
    \/ CleanupSessions \/ CleanupFlow \/ CleanupDestinations \/ FlowExpires
    \/ Tick

Spec == Init /\ [][Next]_vars

-----------------------------------------------------------------------------
(* Properties *)

Registered(u) == pc[u] \in {"register", "flow", "filter", "serve", "bytes", "unflow", "unsession",
                            "undest"}

\* A redirected connection is registered with the destination its own packets
\* carried, or with what the socket says: never with one left over from an
\* earlier connection of the same source port, however late that one's packets
\* and its removal come.  (One that was addressed to the listener itself may be:
\* its packets do not replace what a task that panicked has left.)
TcpDestinationIsOwn ==
    \A c \in Conns : Registered(c) /\ orig[c] \in Forwarded => dst[c] \in {orig[c], Fallback(c)}

\* port_forward.rs "Consumes the next original destination for a redirected flow,
\* preserving packet order": a datagram is registered with its own destination.
UdpDestinationIsOwn ==
    \A d \in Datagrams : Registered(d) => dst[d] \in {orig[d], Fallback(d)}

\* The slots in use are exactly those of the connections being registered or
\* served, after refusals, filters and panics too.
SlotsExact ==
    slots = Cardinality({c \in Conns : Registered(c) \/ pc[c] = "take"})

\* The slot counter of a listener is that of the connections it serves, on
\* every path out of a connection, a panic included (ConnectionSlot), and the
\* tables keep to their limits.
SlotsKept == TypeOK /\ SlotsExact

\* When every connection is over, nothing of one is left: no session and no
\* flow, whatever expiry, eviction and port reuse happened in between.  Only a
\* task that panicked leaves its own behind.
NothingLeftBehind ==
    (\A c \in Conns : pc[c] \in {"gone", "panicked"}) =>
        \A k \in Active(sessions) \cup flows :
            k.protocol = "TCP" => \E c \in Conns : pc[c] = "panicked" /\ k = Key(c)
=============================================================================
