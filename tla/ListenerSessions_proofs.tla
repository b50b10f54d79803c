----------------------- MODULE ListenerSessions_proofs -----------------------
(***************************************************************************)
(* Proofs about the listeners for every number of clients, connections,    *)
(* datagrams and destinations and for every limit.                         *)
(*                                                                         *)
(* Two lemmas about each operation of the session table and of the table   *)
(* of destinations carry the proofs: it keeps the limit, and it adds no    *)
(* key but the one it was called with.  The invariants then say who owns   *)
(* what: which task holds a slot or a permit, which task will remove a     *)
(* session or a flow, and whose destination is in the queue.               *)
(***************************************************************************)
EXTENDS ListenerSessions, FiniteSetTheorems, TLAPS

-----------------------------------------------------------------------------
(* The session table *)

SessionsOK(s) ==
    /\ s \in Sessions
    /\ IsFiniteSet(Active(s)) /\ Cardinality(Active(s)) <= MaxSessions

\* A table with fewer sessions keeps the limit.
LEMMA FewerSessions ==
    ASSUME NEW s, NEW t \in Sessions, SessionsOK(s), Active(t) \subseteq Active(s)
    PROVE  SessionsOK(t)
<1>1. IsFiniteSet(Active(t)) /\ Cardinality(Active(t)) <= Cardinality(Active(s))
  BY FS_Subset DEF SessionsOK
<1>2. Cardinality(Active(t)) \in Nat /\ Cardinality(Active(s)) \in Nat
  BY <1>1, FS_CardinalityType DEF SessionsOK
<1> QED
  BY <1>1, <1>2, TrackerAssumption DEF SessionsOK

\* An empty slot is a session record.
LEMMA NoSessionType == NoSession \in SessionInfo /\ ~NoSession.present
BY TrackerAssumption DEF NoSession, SessionInfo

\* Expiry, updates and removal add no session.
LEMMA ExpirySessions ==
    ASSUME NEW s, SessionsOK(s), NEW n \in 0..MaxTime
    PROVE  SessionsOK(cleanup_expired_sessions(s, n)) /\ Active(cleanup_expired_sessions(s, n)) \subseteq Active(s)
<1>1. cleanup_expired_sessions(s, n) \in Sessions
  BY NoSessionType DEF SessionsOK, Sessions, cleanup_expired_sessions
<1>2. Active(cleanup_expired_sessions(s, n)) \subseteq Active(s)
  BY NoSessionType DEF Active, cleanup_expired_sessions
<1> QED
  BY <1>1, <1>2, FewerSessions

\* update_bytes, set_process and remove add no session.
LEMMA UpdateSessions ==
    ASSUME NEW s, SessionsOK(s), NEW k \in SessionKey, NEW n \in 0..MaxTime,
           NEW p \in Processes \cup {NoProcess},
           NEW t \in {update_bytes(s, k, n), set_process(s, k, p, n), remove(s, k)}
    PROVE  SessionsOK(t) /\ Active(t) \subseteq Active(s)
<1>1. /\ s \in [SessionKey -> SessionInfo]
      /\ \/ t = s
         \/ t = [s EXCEPT ![k] = NoSession]
         \/ s[k].present /\ t = [s EXCEPT ![k].last_activity = n]
         \/ s[k].present /\ t = [s EXCEPT ![k].process = p]
  BY DEF update_bytes, set_process, remove, SessionsOK, Sessions
<1>2. t \in Sessions
  BY <1>1, NoSessionType DEF Sessions, SessionInfo
<1>3. Active(t) \subseteq Active(s)
  BY <1>1, NoSessionType DEF Active, SessionInfo
<1> QED
  BY <1>2, <1>3, FewerSessions

\* enforce_session_capacity makes room for one.
LEMMA CapacitySessions ==
    ASSUME NEW s, SessionsOK(s), NEW t \in EnforceCapacity(s)
    PROVE  /\ SessionsOK(t) /\ Active(t) \subseteq Active(s)
           /\ Cardinality(Active(t)) < MaxSessions
<1>1. Cardinality(Active(s)) \in Nat
  BY FS_CardinalityType DEF SessionsOK
<1>2. CASE Cardinality(Active(s)) < MaxSessions
  BY <1>2 DEF EnforceCapacity
<1>3. CASE ~(Cardinality(Active(s)) < MaxSessions)
  <2>1. PICK k \in Active(s) : t = [s EXCEPT ![k] = NoSession]
    BY <1>3 DEF EnforceCapacity
  <2>2. k \in SessionKey /\ s \in [SessionKey -> SessionInfo]
    BY DEF Active, SessionsOK, Sessions
  <2>3. t \in Sessions
    BY <2>1, <2>2, NoSessionType DEF Sessions
  <2>4. Active(t) = Active(s) \ {k}
    BY <2>1, <2>2, NoSessionType DEF Active
  <2>5. Cardinality(Active(t)) = Cardinality(Active(s)) - 1
    BY <2>4, FS_RemoveElement DEF SessionsOK
  <2>6. SessionsOK(t)
    BY <2>3, <2>4, FewerSessions
  <2>7. Cardinality(Active(s)) <= MaxSessions
    BY DEF SessionsOK
  <2> QED
    BY <1>1, <2>4, <2>5, <2>6, <2>7, TrackerAssumption
<1> QED
  BY <1>2, <1>3

\* register adds the session it was called for and keeps the limit.
LEMMA RegisterSessions ==
    ASSUME NEW s, SessionsOK(s), NEW k \in SessionKey, NEW n \in 0..MaxTime, NEW swept \in BOOLEAN,
           NEW t \in register(s, k, n, swept)
    PROVE  SessionsOK(t) /\ Active(t) \subseteq Active(s) \cup {k}
<1> DEFINE a == IF swept THEN cleanup_expired_sessions(s, n) ELSE s
           b == IF SessionExpired(a[k], n) THEN [a EXCEPT ![k] = NoSession] ELSE a
           new == [present |-> TRUE, last_activity |-> n, process |-> NoProcess]
<1>1. SessionsOK(a) /\ Active(a) \subseteq Active(s)
  BY ExpirySessions
<1>2. SessionsOK(b) /\ Active(b) \subseteq Active(s)
  <2>1. b \in Sessions /\ Active(b) \subseteq Active(a)
    <3> HIDE DEF a
    <3> QED
      BY <1>1, NoSessionType DEF Active, SessionsOK, Sessions
  <2> QED
    BY <1>1, <2>1, FewerSessions
<1>3. t \in IF b[k].present THEN {[b EXCEPT ![k].last_activity = n]}
            ELSE {[v EXCEPT ![k] = new] : v \in EnforceCapacity(b)}
  BY DEF register
<1> HIDE DEF b, a
<1>4. CASE b[k].present
  <2>1. t \in Sessions /\ Active(t) \subseteq Active(b)
    BY ZenonT(60), <1>2, <1>3, <1>4 DEF Active, SessionsOK, Sessions, SessionInfo
  <2> QED
    BY <1>2, <2>1, FewerSessions
<1>5. CASE ~b[k].present
  <2>1. PICK v \in EnforceCapacity(b) : t = [v EXCEPT ![k] = new]
    BY <1>3, <1>5
  <2>2. SessionsOK(v) /\ Active(v) \subseteq Active(b) /\ Cardinality(Active(v)) < MaxSessions
    BY <1>2, CapacitySessions
  <2>3. t \in Sessions
    BY <2>1, <2>2, TrackerAssumption DEF SessionsOK, Sessions, SessionInfo
  <2>4. Active(t) = Active(v) \cup {k}
    BY <2>1, <2>2 DEF Active, SessionsOK, Sessions
  <2>5. Cardinality(Active(v)) \in Nat
    BY <2>2, FS_CardinalityType DEF SessionsOK
  <2>6. /\ IsFiniteSet(Active(t))
        /\ Cardinality(Active(t)) = IF k \in Active(v) THEN Cardinality(Active(v)) ELSE Cardinality(Active(v)) + 1
    BY SMTT(30), <2>2, <2>4, FS_AddElement DEF SessionsOK
  <2> QED
    BY <1>2, <2>2, <2>3, <2>4, <2>5, <2>6, TrackerAssumption DEF SessionsOK
<1> QED
  BY <1>4, <1>5

-----------------------------------------------------------------------------
(* The table of destinations *)

Queued == [queue : Seq(Forwarded), last_updated : 0..MaxTime]

DestsOK(d) ==
    /\ d \in [RedirectFlowKey -> Queued]
    /\ \A f \in RedirectFlowKey : Len(d[f].queue) <= IF f.protocol = "TCP" THEN 1 ELSE MaxPerFlow
    /\ IsFiniteSet(Recorded(d)) /\ Cardinality(Recorded(d)) <= MaxFlows

\* The queues of e that differ from those of d are that of f, or empty.
Touches(d, e, f) == \A g \in RedirectFlowKey \ {f} : e[g].queue = d[g].queue \/ e[g].queue = <<>>

\* A table with fewer flows keeps the limit.
LEMMA FewerFlows ==
    ASSUME NEW d, NEW e \in [RedirectFlowKey -> Queued], DestsOK(d), Recorded(e) \subseteq Recorded(d),
           \A f \in RedirectFlowKey : Len(e[f].queue) <= IF f.protocol = "TCP" THEN 1 ELSE MaxPerFlow
    PROVE  DestsOK(e)
<1>1. IsFiniteSet(Recorded(e)) /\ Cardinality(Recorded(e)) <= Cardinality(Recorded(d))
  BY FS_Subset DEF DestsOK
<1>2. Cardinality(Recorded(e)) \in Nat /\ Cardinality(Recorded(d)) \in Nat
  BY <1>1, FS_CardinalityType DEF DestsOK
<1> QED
  BY <1>1, <1>2, TrackerAssumption DEF DestsOK

\* A flow without destinations has an empty queue.
LEMMA NoEntryType == NoEntry \in Queued /\ NoEntry.queue = <<>> /\ Len(NoEntry.queue) = 0
BY TrackerAssumption DEF NoEntry, Queued

\* take_original_dest, clear_original_dest and purge_stale_destinations add nothing.
LEMMA TakeDests ==
    ASSUME NEW d, DestsOK(d), NEW f \in RedirectFlowKey, NEW n \in 0..MaxTime,
           NEW e \in {take_original_dest(d, f, n), clear_original_dest(d, f), purge_stale_destinations(d, n)}
    PROVE  DestsOK(e) /\ Touches(d, e, f) /\ (f.protocol = "TCP" => e[f].queue \in {d[f].queue, <<>>})
<1>1. d \in [RedirectFlowKey -> Queued] /\ \A g \in RedirectFlowKey : d[g].queue \in Seq(Forwarded)
  BY DEF DestsOK, Queued
<1>2. /\ e \in [RedirectFlowKey -> Queued]
      /\ \A g \in RedirectFlowKey :
            /\ Len(e[g].queue) <= Len(d[g].queue)
            /\ d[g].queue = <<>> => e[g].queue = <<>>
            /\ g # f \/ Len(d[f].queue) <= 1 => e[g].queue \in {d[g].queue, <<>>}
  <2>1. CASE e = take_original_dest(d, f, n) /\ Len(d[f].queue) <= 1
    BY <1>1, <2>1, NoEntryType DEF take_original_dest
  <2>2. CASE e = take_original_dest(d, f, n) /\ ~(Len(d[f].queue) <= 1)
    <3>1. Tail(d[f].queue) \in Seq(Forwarded) /\ Len(Tail(d[f].queue)) <= Len(d[f].queue) /\ d[f].queue # <<>>
      BY <1>1, <2>2
    <3>2. e = [d EXCEPT ![f] = [queue |-> Tail(d[f].queue), last_updated |-> n]]
      BY <2>2 DEF take_original_dest
    <3> QED
      BY <1>1, <2>2, <3>1, <3>2 DEF Queued
  <2>3. CASE e = clear_original_dest(d, f)
    BY <1>1, <2>3, NoEntryType DEF clear_original_dest
  <2>4. CASE e = purge_stale_destinations(d, n)
    BY <1>1, <2>4, NoEntryType DEF purge_stale_destinations
  <2> QED
    BY <2>1, <2>2, <2>3, <2>4
<1>3. Recorded(e) \subseteq Recorded(d)
  BY <1>2 DEF Recorded
<1>4. \A g \in RedirectFlowKey : Len(e[g].queue) <= IF g.protocol = "TCP" THEN 1 ELSE MaxPerFlow
  <2>1. \A g \in RedirectFlowKey : Len(e[g].queue) \in Nat /\ Len(d[g].queue) \in Nat
    BY <1>1, <1>2 DEF Queued
  <2> QED
    BY <1>2, <2>1, TrackerAssumption DEF DestsOK
<1> QED
  BY <1>2, <1>3, <1>4, FewerFlows DEF Touches, DestsOK

\* enforce_original_destination_flow_capacity makes room for one flow.
LEMMA CapacityDests ==
    ASSUME NEW d, DestsOK(d), NEW e \in EnforceFlowCapacity(d)
    PROVE  /\ DestsOK(e) /\ Cardinality(Recorded(e)) < MaxFlows
           /\ \A g \in RedirectFlowKey : e[g].queue = d[g].queue \/ e[g].queue = <<>>
<1>1. Cardinality(Recorded(d)) \in Nat
  BY FS_CardinalityType DEF DestsOK
<1>2. CASE Cardinality(Recorded(d)) < MaxFlows
  BY <1>2 DEF EnforceFlowCapacity
<1>3. CASE ~(Cardinality(Recorded(d)) < MaxFlows)
  <2>1. PICK f \in Recorded(d) : e = [d EXCEPT ![f] = NoEntry]
    BY <1>3 DEF EnforceFlowCapacity
  <2>2. f \in RedirectFlowKey /\ d \in [RedirectFlowKey -> Queued]
    BY DEF Recorded, DestsOK
  <2>3. /\ e \in [RedirectFlowKey -> Queued]
        /\ \A g \in RedirectFlowKey : e[g] = d[g] \/ e[g] = NoEntry
    BY <2>1, <2>2, NoEntryType
  <2>4. Recorded(e) = Recorded(d) \ {f}
    BY <2>1, <2>2, NoEntryType DEF Recorded
  <2>5. Cardinality(Recorded(e)) = Cardinality(Recorded(d)) - 1
    BY <2>4, FS_RemoveElement DEF DestsOK
  <2>6. \A g \in RedirectFlowKey : Len(e[g].queue) <= IF g.protocol = "TCP" THEN 1 ELSE MaxPerFlow
    BY <2>3, NoEntryType, TrackerAssumption DEF DestsOK
  <2>7. DestsOK(e)
    BY <2>3, <2>4, <2>6, FewerFlows
  <2>8. Cardinality(Recorded(d)) <= MaxFlows
    BY DEF DestsOK
  <2> QED
    BY <1>1, <2>3, <2>5, <2>7, <2>8, NoEntryType, TrackerAssumption
<1> QED
  BY <1>2, <1>3

\* Appending to a queue.
LEMMA AppendFacts ==
    ASSUME NEW S, NEW q \in Seq(S), NEW x \in S
    PROVE  Append(q, x) \in Seq(S) /\ Len(Append(q, x)) = Len(q) + 1 /\ Append(q, x) # <<>>
<1>1. Append(q, x) \in Seq(S) /\ Len(Append(q, x)) = Len(q) + 1 /\ Len(q) \in Nat
  OBVIOUS
<1>2. Len(Append(q, x)) # 0
  BY <1>1
<1> QED
  BY <1>1, <1>2

\* push_back_bounded keeps the length within its limit.
LEMMA PushLength ==
    ASSUME NEW q \in Seq(Forwarded), Len(q) <= MaxPerFlow, NEW x \in Forwarded
    PROVE  PushBounded(q, x) \in Seq(Forwarded) /\ Len(PushBounded(q, x)) <= MaxPerFlow
           /\ PushBounded(q, x) # <<>>
<1>1. CASE Len(q) >= MaxPerFlow
  <2>1. q # <<>> /\ Tail(q) \in Seq(Forwarded) /\ Len(Tail(q)) = Len(q) - 1
    BY <1>1, TrackerAssumption
  <2>2. /\ Append(Tail(q), x) \in Seq(Forwarded) /\ Len(Append(Tail(q), x)) = Len(Tail(q)) + 1
        /\ Append(Tail(q), x) # <<>>
    BY <2>1, AppendFacts
  <2> QED
    BY <1>1, <2>1, <2>2 DEF PushBounded
<1>2. CASE ~(Len(q) >= MaxPerFlow)
  BY <1>2, TrackerAssumption DEF PushBounded
<1> QED
  BY <1>1, <1>2

\* record_original_dest adds to the queue it was called for and keeps the limits;
\* a TCP flow has one destination, the last.
LEMMA RecordDests ==
    ASSUME NEW d, DestsOK(d), NEW f \in RedirectFlowKey, NEW n \in 0..MaxTime, NEW x \in Forwarded,
           NEW e \in record_original_dest(d, f, x, n)
    PROVE  DestsOK(e) /\ Touches(d, e, f) /\ (f.protocol = "TCP" => e[f].queue = <<x>>)
<1>1. PICK v \in (IF d[f].queue = <<>> THEN EnforceFlowCapacity(d) ELSE {d}) :
        e = [v EXCEPT ![f] = [queue |-> NewQueue(v[f].queue, f.protocol, x), last_updated |-> n]]
  BY DEF record_original_dest
<1>2. /\ DestsOK(v) /\ \A g \in RedirectFlowKey : v[g].queue = d[g].queue \/ v[g].queue = <<>>
      /\ f \in Recorded(v) \/ Cardinality(Recorded(v)) < MaxFlows
  BY <1>1, CapacityDests DEF Recorded
<1>3. /\ v \in [RedirectFlowKey -> Queued] /\ v[f].queue \in Seq(Forwarded)
      /\ f.protocol # "TCP" => Len(v[f].queue) <= MaxPerFlow
  BY <1>2 DEF DestsOK, Queued
<1> DEFINE q == NewQueue(v[f].queue, f.protocol, x)
<1>q. q = IF f.protocol = "TCP" THEN <<x>> ELSE PushBounded(v[f].queue, x)
  BY DEF NewQueue
<1>e. e = [v EXCEPT ![f] = [queue |-> q, last_updated |-> n]]
  BY <1>1
<1> HIDE DEF q
<1>4. /\ q \in Seq(Forwarded) /\ q # <<>> /\ (f.protocol = "TCP" => q = <<x>>)
      /\ Len(q) <= IF f.protocol = "TCP" THEN 1 ELSE MaxPerFlow
  <2>1. <<x>> \in Seq(Forwarded) /\ Len(<<x>>) = 1 /\ <<x>> # <<>>
    OBVIOUS
  <2>2. CASE f.protocol = "TCP"
    BY <1>q, <2>1, <2>2
  <2>3. CASE f.protocol # "TCP"
    BY <1>3, <1>q, <2>3, PushLength
  <2> QED
    BY <2>2, <2>3
<1>5. /\ e \in [RedirectFlowKey -> Queued] /\ e[f].queue = q
      /\ \A g \in RedirectFlowKey \ {f} : e[g] = v[g]
  BY <1>3, <1>4, <1>e DEF Queued
<1>6. \A g \in RedirectFlowKey : Len(e[g].queue) <= IF g.protocol = "TCP" THEN 1 ELSE MaxPerFlow
  BY <1>2, <1>4, <1>5 DEF DestsOK
<1>7. Recorded(e) = Recorded(v) \cup {f}
  BY <1>4, <1>5 DEF Recorded
<1>8. Cardinality(Recorded(v)) \in Nat
  BY <1>2, FS_CardinalityType DEF DestsOK
<1>9. /\ IsFiniteSet(Recorded(e))
      /\ Cardinality(Recorded(e)) = IF f \in Recorded(v) THEN Cardinality(Recorded(v)) ELSE Cardinality(Recorded(v)) + 1
  BY <1>2, <1>7, FS_AddElement DEF DestsOK
<1>10. Cardinality(Recorded(e)) <= MaxFlows
  <2>1. Cardinality(Recorded(v)) <= MaxFlows
    BY <1>2 DEF DestsOK
  <2> QED
    BY <1>2, <1>8, <1>9, <2>1, TrackerAssumption
<1> QED
  BY <1>2, <1>4, <1>5, <1>6, <1>9, <1>10 DEF DestsOK, Touches

-----------------------------------------------------------------------------
(* The listeners *)

Types ==
    /\ src \in [Units -> Peers] /\ orig \in [Units -> Dests] /\ blocked \subseteq Peers
    /\ flows \subseteq SessionKey /\ expired \subseteq SessionKey
    /\ now \in 0..MaxTime
    /\ pc \in [Units -> PcValues] /\ dst \in [Units -> Dests \cup {Local}]
    /\ closed \subseteq Conns /\ packets \in [Conns -> 0..MaxPackets]
    /\ backlog \in Seq(Datagrams)
    /\ slots \in Nat /\ permits \in Nat

Tables == SessionsOK(sessions) /\ DestsOK(dests)

Served   == {c \in Conns : Registered(c) \/ pc[c] = "take"}
Answered == {d \in Datagrams : pc[d] \in {"filter", "serve", "bytes"}}

\* The counters are those of the tasks that hold the guards.
Counts ==
    /\ IsFiniteSet(Served) /\ slots = Cardinality(Served) /\ slots <= MaxConnections
    /\ IsFiniteSet(Answered) /\ permits = Cardinality(Answered) /\ permits <= MaxUdpTasks

\* A datagram is in the socket once, and nobody has received it.
BacklogWaits ==
    /\ \A i \in 1..Len(backlog) : pc[backlog[i]] = "sent"
    /\ \A i, j \in 1..Len(backlog) : backlog[i] = backlog[j] => i = j

LInv == Types /\ Tables /\ Counts /\ BacklogWaits

\* Keys of the tables.
LEMMA KeyTypes ==
    ASSUME Types, NEW u \in Units
    PROVE  /\ Key(u) \in SessionKey /\ FlowKey(u) \in RedirectFlowKey
           /\ Key(u).protocol = Proto(u) /\ FlowKey(u).protocol = Proto(u)
           /\ FlowKey(u).src = src[u] /\ Key(u).src = src[u] /\ Key(u).dst = dst[u]
BY DEF Types, Key, FlowKey, SessionKey, RedirectFlowKey, Proto, Protocols

\* The interceptor's note keeps the table of destinations.
LEMMA TrackDests ==
    ASSUME Types, DestsOK(dests), NEW u \in Units, track_original_destination(u)
    PROVE  /\ DestsOK(dests') /\ Touches(dests, dests', FlowKey(u))
           /\ u \in Conns /\ orig[u] \in Forwarded => dests'[FlowKey(u)].queue = <<orig[u]>>
           /\ orig[u] \notin Forwarded => dests' = dests
<1>1. FlowKey(u) \in RedirectFlowKey /\ FlowKey(u).protocol = Proto(u) /\ now \in 0..MaxTime
  BY KeyTypes DEF Types
<1>2. CASE orig[u] \in Forwarded
  BY <1>1, <1>2, RecordDests DEF track_original_destination, Proto
<1>3. CASE orig[u] \notin Forwarded
  BY <1>3 DEF track_original_destination, Touches
<1> QED
  BY <1>2, <1>3

\* Every step keeps the limits of both tables.
LEMMA TablesStep == ASSUME LInv, Next PROVE Tables'
<1> USE DEF LInv, Tables
<1>1. now \in 0..MaxTime /\ \A u \in Units : Key(u) \in SessionKey /\ FlowKey(u) \in RedirectFlowKey
  BY KeyTypes DEF Types
<1>2. ASSUME UNCHANGED <<sessions, dests>> PROVE Tables'
  BY <1>2
<1>3. ASSUME NEW u \in Units, track_original_destination(u), UNCHANGED sessions PROVE Tables'
  BY <1>3, TrackDests
<1>4. ASSUME NEW u \in Units, TakeDestination(u) \/ ClearDestination(u) PROVE Tables'
  BY <1>1, <1>4, TakeDests DEF TakeDestination, ClearDestination
<1>5. CASE CleanupDestinations
  <2>1. CASE RedirectFlowKey = {}
    BY <1>5, <2>1 DEF CleanupDestinations, purge_stale_destinations, DestsOK, Recorded
  <2>2. CASE RedirectFlowKey # {}
    BY <1>1, <1>5, <2>2, TakeDests DEF CleanupDestinations
  <2> QED
    BY <2>1, <2>2
<1>6. ASSUME NEW u \in Units, RegisterSession(u) PROVE Tables'
  BY <1>1, <1>6, RegisterSessions DEF RegisterSession
<1>7. ASSUME sessions' = cleanup_expired_sessions(sessions, now), UNCHANGED dests PROVE Tables'
  BY <1>1, <1>7, ExpirySessions
<1>8. ASSUME NEW u \in Units, UpdateBytes(u) \/ RemoveSession(u) PROVE Tables'
  <2>1. NoProcess \in Processes \cup {NoProcess}
    OBVIOUS
  <2> QED
    BY <1>1, <1>8, <2>1, UpdateSessions DEF UpdateBytes, RemoveSession
<1>9. ASSUME NEW u \in Units, Attribute(u) PROVE Tables'
  BY <1>1, <1>2, <1>9, UpdateSessions DEF Attribute
<1>10. ASSUME NEW u \in Units, EnsureFlow(u) \/ UpdateFlow(u) PROVE Tables'
  BY <1>7, <1>10 DEF EnsureFlow, UpdateFlow, ensure_session_flow
<1>11. CASE CleanupSessions
  BY <1>7, <1>11 DEF CleanupSessions
<1>12. ASSUME NEW c \in Conns, Connect(c) \/ (\E last \in BOOLEAN : Packet(c, last)) PROVE Tables'
  BY <1>3, <1>12 DEF Connect, Packet, Units
<1>13. ASSUME NEW d \in Datagrams, SendDatagram(d) PROVE Tables'
  BY <1>3, <1>13 DEF SendDatagram, Units
<1>14. ASSUME NEW c \in Conns, Refuse(c) \/ Accept(c) \/ Panic(c) \/ RemoveFlow(c) PROVE Tables'
  BY <1>2, <1>14 DEF Refuse, Accept, Panic, RemoveFlow
<1>15. ASSUME NEW u \in Units, Finish(u) PROVE Tables'
  BY <1>2, <1>15 DEF Finish
<1>16. CASE recv_udp_packet \/ CleanupFlow \/ FlowExpires \/ Tick
  BY <1>2, <1>16 DEF recv_udp_packet, CleanupFlow, FlowExpires, Tick
<1> QED
  BY <1>4, <1>5, <1>6, <1>8, <1>9, <1>10, <1>11, <1>12, <1>13, <1>14, <1>15, <1>16
     DEF Next, remove_session, Units

\* Every step keeps the types.
LEMMA TypesStep == ASSUME LInv, Next PROVE Types'
<1> USE DEF LInv, Types, Goto, PcValues, Loops, inputs
<1>1. \A u \in Units : Key(u) \in SessionKey
  BY KeyTypes
<1>2. ASSUME NEW c \in Conns, Connect(c) \/ Refuse(c) \/ RemoveFlow(c) \/ RemoveSession(c) PROVE Types'
  BY <1>2 DEF ServerCloses, Connect, Refuse, RemoveFlow, RemoveSession, Units
<1>3. ASSUME NEW c \in Conns, Accept(c) PROVE Types'
  BY <1>3 DEF Accept, Units
<1>4. ASSUME NEW c \in Conns, NEW last \in BOOLEAN, Packet(c, last) PROVE Types'
  BY <1>4, ListenerAssumption DEF Packet
<1>5. ASSUME NEW c \in Conns, Panic(c) \/ ClearDestination(c) PROVE Types'
  <2>1. c \in Served /\ c \notin Datagrams
    BY <1>5, ListenerAssumption DEF Panic, ClearDestination, Served, Registered
  <2>2. slots > 0
    BY <2>1, FS_EmptySet DEF Counts
  <2> QED
    BY <1>5, <2>1, <2>2 DEF ServerCloses, Panic, ClearDestination, Release, Units
<1>6. ASSUME NEW d \in Datagrams, SendDatagram(d) PROVE Types'
  <2>1. Append(backlog, d) \in Seq(Datagrams)
    BY AppendFacts
  <2>2. backlog' \in Seq(Datagrams)
    BY <1>6, <2>1 DEF SendDatagram
  <2> QED
    BY <1>6, <2>2 DEF SendDatagram, Units
<1>7. CASE recv_udp_packet
  <2>1. Head(backlog) \in Datagrams /\ Tail(backlog) \in Seq(Datagrams)
    BY <1>7 DEF recv_udp_packet
  <2> QED
    BY <1>7, <2>1 DEF recv_udp_packet, Units
<1>8. ASSUME NEW u \in Units, TakeDestination(u) PROVE Types'
  <2>1. dests[FlowKey(u)].queue \in Seq(Forwarded) /\ Forwarded \subseteq Dests
    BY KeyTypes, ListenerAssumption DEF Tables, DestsOK, Queued
  <2>2. dests[FlowKey(u)].queue # <<>> => NextDest(dests[FlowKey(u)].queue) \in Dests
    BY <2>1 DEF NextDest
  <2>3. Fallback(u) \in Dests \cup {Local}
    BY DEF Fallback
  <2> QED
    BY <1>8, <2>2, <2>3 DEF TakeDestination
<1>9. ASSUME NEW u \in Units, RegisterSession(u) \/ UpdateFlow(u) \/ UpdateBytes(u) PROVE Types'
  BY <1>1, <1>9 DEF RegisterSession, UpdateFlow, UpdateBytes, ensure_session_flow
<1>10. ASSUME NEW u \in Units, EnsureFlow(u) PROVE Types'
  BY SMTT(30), <1>1, <1>10 DEF EnsureFlow, ensure_session_flow
<1>11. ASSUME NEW u \in Units, pc[u] \in {"filter", "serve"}, Release(u) PROVE slots' \in Nat /\ permits' \in Nat
  <2>1. u \in Served \cup Answered /\ (u \in Conns => u \in Served) /\ (u \in Datagrams => u \in Answered)
    BY <1>11 DEF Served, Answered, Registered, Units
  <2>2. (u \in Conns => slots > 0) /\ (u \in Datagrams => permits > 0)
    BY <2>1, FS_EmptySet DEF Counts
  <2> QED
    BY <1>11, <2>2 DEF Release
<1>12. ASSUME NEW u \in Units, Attribute(u) \/ Finish(u) PROVE Types'
  BY <1>11, <1>12 DEF Attribute, Finish, AfterRefusal
<1>13. CASE CleanupSessions \/ CleanupFlow \/ CleanupDestinations \/ FlowExpires
  BY <1>13 DEF CleanupSessions, CleanupFlow, CleanupDestinations, FlowExpires, ExpiredSessions
<1>14. CASE Tick
  BY <1>14, TrackerAssumption DEF Tick
<1> QED
  BY <1>2, <1>3, <1>4, <1>5, <1>6, <1>7, <1>8, <1>9, <1>10, <1>12, <1>13, <1>14 DEF Next, remove_session

\* Every step keeps the socket's datagrams apart from those received.
LEMMA BacklogStep == ASSUME LInv, Next PROVE BacklogWaits'
<1> USE DEF LInv, Goto
<1>1. \A i \in 1..Len(backlog) : backlog[i] \in Datagrams /\ backlog[i] \in Units
  BY DEF Types, Units
<1>2. ASSUME NEW u \in Units, NEW l, pc[u] \notin {"sent"}, pc' = [pc EXCEPT ![u] = l], UNCHANGED backlog
      PROVE  BacklogWaits'
  BY <1>1, <1>2 DEF BacklogWaits, Types
<1>3. ASSUME NEW c \in Conns, NEW l, pc' = [pc EXCEPT ![c] = l], UNCHANGED backlog
      PROVE  BacklogWaits'
  BY <1>1, <1>3, ListenerAssumption DEF BacklogWaits, Types, Units
<1>4. ASSUME UNCHANGED <<pc, backlog>> PROVE BacklogWaits'
  BY <1>4 DEF BacklogWaits
<1>5. ASSUME NEW d \in Datagrams, SendDatagram(d) PROVE BacklogWaits'
  <2>1. CASE pc' = [pc EXCEPT ![d] = "sent"] /\ backlog' = Append(backlog, d)
    <3>1. /\ Len(backlog') = Len(backlog) + 1 /\ Len(backlog) \in Nat
          /\ \A i \in 1..Len(backlog) : backlog'[i] = backlog[i]
          /\ backlog'[Len(backlog) + 1] = d
      BY <2>1 DEF Types
    <3>2. \A i \in 1..Len(backlog) : backlog[i] # d
      BY <1>5 DEF SendDatagram, BacklogWaits
    <3>3. \A i \in 1..Len(backlog') : i \in 1..Len(backlog) \/ i = Len(backlog) + 1
      BY <3>1
    <3>4. \A i \in 1..Len(backlog) : backlog[i] \in Units /\ pc'[backlog[i]] = "sent"
      BY <1>1, <2>1, <3>2 DEF BacklogWaits, Types
    <3>5. pc'[d] = "sent"
      BY <2>1 DEF Types, Units
    <3>6. \A i \in 1..Len(backlog') : pc'[backlog'[i]] = "sent"
      BY <3>1, <3>3, <3>4, <3>5
    <3>7. \A i, j \in 1..Len(backlog') : backlog'[i] = backlog'[j] => i = j
      BY <3>1, <3>2, <3>3 DEF BacklogWaits
    <3> QED
      BY <3>6, <3>7 DEF BacklogWaits
  <2>2. CASE UNCHANGED backlog
    BY <1>2, <1>5, <2>2 DEF SendDatagram, Units
  <2> QED
    BY <1>5, <2>1, <2>2 DEF SendDatagram
<1>6. CASE recv_udp_packet
  <2>1. /\ backlog # <<>> /\ Len(backlog) \in Nat /\ Len(backlog) >= 1
        /\ Head(backlog) = backlog[1] /\ Len(Tail(backlog)) = Len(backlog) - 1
        /\ \A i \in 1..Len(Tail(backlog)) : Tail(backlog)[i] = backlog[i + 1]
    BY <1>6 DEF recv_udp_packet, Types
  <2>2. \A i \in 1..Len(Tail(backlog)) : i + 1 \in 1..Len(backlog) /\ backlog[i + 1] # backlog[1]
    BY <2>1 DEF BacklogWaits
  <2> QED
    BY <1>1, <1>6, <2>1, <2>2 DEF recv_udp_packet, BacklogWaits, Types
<1>7. ASSUME NEW c \in Conns, Connect(c) \/ Refuse(c) \/ Accept(c) \/ Panic(c) \/ RemoveFlow(c)
                              \/ RemoveSession(c) \/ ClearDestination(c)
      PROVE  BacklogWaits'
  BY <1>3, <1>7 DEF Connect, Refuse, Accept, Panic, RemoveFlow, RemoveSession, ClearDestination
<1>8. ASSUME NEW u \in Units, TakeDestination(u) \/ RegisterSession(u) \/ EnsureFlow(u) \/ Attribute(u)
                              \/ UpdateFlow(u) \/ UpdateBytes(u) \/ Finish(u)
      PROVE  BacklogWaits'
  BY <1>2, <1>8 DEF TakeDestination, RegisterSession, EnsureFlow, Attribute, UpdateFlow, UpdateBytes, Finish
<1>9. CASE (\E c \in Conns, last \in BOOLEAN : Packet(c, last))
           \/ CleanupSessions \/ CleanupFlow \/ CleanupDestinations \/ FlowExpires \/ Tick
  BY <1>4, <1>9 DEF Packet, CleanupSessions, CleanupFlow, CleanupDestinations, FlowExpires, Tick
<1> QED
  BY <1>5, <1>6, <1>7, <1>8, <1>9 DEF Next, remove_session

ServedAt   == {"take", "register", "flow", "filter", "serve", "bytes", "unflow", "unsession", "undest"}
AnsweredAt == {"filter", "serve", "bytes"}

\* Who holds a guard depends on where it is.
LEMMA Holders ==
    /\ Served = {c \in Conns : pc[c] \in ServedAt}
    /\ Answered = {d \in Datagrams : pc[d] \in AnsweredAt}
BY DEF Served, Answered, Registered, ServedAt, AnsweredAt

\* One task moves: who holds a guard after it.
LEMMA HoldersMove ==
    ASSUME Types, NEW u \in Units, NEW l, pc' = [pc EXCEPT ![u] = l]
    PROVE  /\ u \in Conns /\ l \in ServedAt => Served' = Served \cup {u}
           /\ ~(u \in Conns /\ l \in ServedAt) => Served' = Served \ {u}
           /\ u \in Datagrams /\ l \in AnsweredAt => Answered' = Answered \cup {u}
           /\ ~(u \in Datagrams /\ l \in AnsweredAt) => Answered' = Answered \ {u}
<1>1. /\ Served = {c \in Conns : pc[c] \in ServedAt} /\ Served' = {c \in Conns : pc'[c] \in ServedAt}
      /\ Answered = {d \in Datagrams : pc[d] \in AnsweredAt} /\ Answered' = {d \in Datagrams : pc'[d] \in AnsweredAt}
  BY DEF Served, Answered, Registered, ServedAt, AnsweredAt
<1>2. pc'[u] = l /\ \A v \in Units \ {u} : pc'[v] = pc[v]
  BY DEF Types
<1>3. Conns \subseteq Units /\ Datagrams \subseteq Units
  BY DEF Units
<1> QED
  BY <1>1, <1>2, <1>3

\* A task that moves without taking or dropping a guard.
LEMMA CountsKept ==
    ASSUME LInv, NEW u \in Units, NEW l, pc' = [pc EXCEPT ![u] = l],
           u \in Conns => (pc[u] \in ServedAt <=> l \in ServedAt),
           u \in Datagrams => (pc[u] \in AnsweredAt <=> l \in AnsweredAt),
           UNCHANGED <<slots, permits>>
    PROVE  Counts'
<1>1. Types
  BY DEF LInv
<1>2. u \in Conns \/ u \in Datagrams
  BY DEF Units
<1>3. Served' = Served
  <2>1. CASE u \in Conns /\ l \in ServedAt
    BY <1>1, <2>1, HoldersMove, Holders
  <2>2. CASE ~(u \in Conns /\ l \in ServedAt)
    <3>1. Served' = Served \ {u} /\ u \notin Served
      BY <1>1, <2>2, HoldersMove, Holders
    <3> QED
      BY <3>1
  <2> QED
    BY <2>1, <2>2
<1>4. Answered' = Answered
  <2>1. CASE u \in Datagrams /\ l \in AnsweredAt
    BY <1>1, <2>1, HoldersMove, Holders
  <2>2. CASE ~(u \in Datagrams /\ l \in AnsweredAt)
    <3>1. Answered' = Answered \ {u} /\ u \notin Answered
      BY <1>1, <2>2, HoldersMove, Holders
    <3> QED
      BY <3>1
  <2> QED
    BY <2>1, <2>2
<1> QED
  BY <1>3, <1>4 DEF LInv, Counts

\* A task takes a guard: a connection a slot, a datagram a permit.
LEMMA CountsTaken ==
    ASSUME LInv, NEW u \in Units, NEW l, pc' = [pc EXCEPT ![u] = l],
           u \in Conns => pc[u] \notin ServedAt /\ l \in ServedAt /\ slots < MaxConnections,
           u \in Datagrams => pc[u] \notin AnsweredAt /\ l \in AnsweredAt /\ permits < MaxUdpTasks,
           slots' = slots + (IF u \in Conns THEN 1 ELSE 0), permits' = permits + (IF u \in Conns THEN 0 ELSE 1)
    PROVE  Counts'
<1>1. slots \in Nat /\ permits \in Nat /\ MaxConnections \in Nat /\ MaxUdpTasks \in Nat
  BY ListenerAssumption DEF LInv, Types
<1>2. CASE u \in Conns
  <2>1. u \notin Datagrams /\ Served' = Served \cup {u} /\ u \notin Served /\ Answered' = Answered
    BY ZenonT(60), <1>2, HoldersMove, Holders, ListenerAssumption DEF LInv
  <2>2. IsFiniteSet(Served') /\ Cardinality(Served') = Cardinality(Served) + 1
    BY <2>1, FS_AddElement DEF LInv, Counts
  <2> QED
    BY <1>1, <1>2, <2>1, <2>2 DEF LInv, Counts
<1>3. CASE u \in Datagrams
  <2>1. u \notin Conns /\ Answered' = Answered \cup {u} /\ u \notin Answered /\ Served' = Served
    BY ZenonT(60), <1>3, HoldersMove, Holders, ListenerAssumption DEF LInv
  <2>2. IsFiniteSet(Answered') /\ Cardinality(Answered') = Cardinality(Answered) + 1
    BY <2>1, FS_AddElement DEF LInv, Counts
  <2> QED
    BY <1>1, <1>3, <2>1, <2>2 DEF LInv, Counts
<1> QED
  BY <1>2, <1>3 DEF Units

\* A task ends and its guard is dropped.
LEMMA CountsReleased ==
    ASSUME LInv, NEW u \in Units, NEW l, pc' = [pc EXCEPT ![u] = l],
           u \in Conns => pc[u] \in ServedAt /\ l \notin ServedAt,
           u \in Datagrams => pc[u] \in AnsweredAt /\ l \notin AnsweredAt, Release(u)
    PROVE  Counts'
<1>1. slots \in Nat /\ permits \in Nat /\ MaxConnections \in Nat /\ MaxUdpTasks \in Nat
  BY ListenerAssumption DEF LInv, Types
<1>2. CASE u \in Conns
  <2>1. u \notin Datagrams /\ Served' = Served \ {u} /\ u \in Served /\ Answered' = Answered
    BY ZenonT(60), <1>2, HoldersMove, Holders, ListenerAssumption DEF LInv
  <2>2. IsFiniteSet(Served') /\ Cardinality(Served') = Cardinality(Served) - 1
    BY <2>1, FS_RemoveElement DEF LInv, Counts
  <2> QED
    BY <1>1, <1>2, <2>1, <2>2 DEF LInv, Counts, Release
<1>3. CASE u \in Datagrams
  <2>1. u \notin Conns /\ Answered' = Answered \ {u} /\ u \in Answered /\ Served' = Served
    BY ZenonT(60), <1>3, HoldersMove, Holders, ListenerAssumption DEF LInv
  <2>2. IsFiniteSet(Answered') /\ Cardinality(Answered') = Cardinality(Answered) - 1
    BY <2>1, FS_RemoveElement DEF LInv, Counts
  <2> QED
    BY <1>1, <1>3, <2>1, <2>2 DEF LInv, Counts, Release
<1> QED
  BY <1>2, <1>3 DEF Units

\* Every step keeps the counters equal to the number of guards held.
LEMMA CountsStep == ASSUME LInv, Next PROVE Counts'
<1> USE DEF Goto, ServedAt, AnsweredAt
<1>1. ASSUME UNCHANGED <<pc, slots, permits>> PROVE Counts'
  BY <1>1 DEF LInv, Counts, Served, Answered, Registered
<1>2. \A c \in Conns : c \in Units /\ c \notin Datagrams
  BY ListenerAssumption DEF Units
<1>3. ASSUME NEW c \in Conns, Connect(c) \/ Refuse(c) \/ RemoveFlow(c) \/ RemoveSession(c) PROVE Counts'
  BY <1>2, <1>3, CountsKept DEF Connect, Refuse, RemoveFlow, RemoveSession
<1>4. ASSUME NEW c \in Conns, Accept(c) PROVE Counts'
  <2>1. slots \in Nat /\ permits \in Nat
    BY DEF LInv, Types
  <2>2. /\ c \in Units /\ c \notin Datagrams /\ pc' = [pc EXCEPT ![c] = "take"]
        /\ pc[c] = "sent" /\ slots < MaxConnections
    BY <1>2, <1>4 DEF Accept, acquire_connection_slot
  <2>3. slots' = slots + (IF c \in Conns THEN 1 ELSE 0) /\ permits' = permits + (IF c \in Conns THEN 0 ELSE 1)
    BY <1>4, <2>1 DEF Accept
  <2> QED
    BY <2>2, <2>3, CountsTaken
<1>5. ASSUME NEW c \in Conns, Panic(c) \/ ClearDestination(c) PROVE Counts'
  BY <1>2, <1>5, CountsReleased DEF Panic, ClearDestination
<1>6. ASSUME NEW d \in Datagrams, SendDatagram(d) PROVE Counts'
  BY <1>2, <1>6, CountsKept DEF SendDatagram, Units
<1>7. CASE recv_udp_packet
  <2>1. backlog # <<>> /\ backlog \in Seq(Datagrams)
    BY <1>7 DEF recv_udp_packet, LInv, Types
  <2>2. Head(backlog) \in Datagrams /\ 1 \in 1..Len(backlog) /\ Head(backlog) = backlog[1]
    BY <2>1
  <2>3. pc[Head(backlog)] = "sent"
    BY <2>2 DEF LInv, BacklogWaits
  <2> QED
    BY <1>2, <1>7, <2>2, <2>3, CountsKept DEF recv_udp_packet, Units
<1>8. ASSUME NEW u \in Units, TakeDestination(u) \/ RegisterSession(u) \/ UpdateFlow(u) \/ UpdateBytes(u)
      PROVE  Counts'
  BY <1>8, CountsKept DEF TakeDestination, RegisterSession, UpdateFlow, UpdateBytes
<1>9. ASSUME NEW u \in Units, EnsureFlow(u) PROVE Counts'
  <2>1. permits \in Nat /\ slots \in Nat
    BY DEF LInv, Types
  <2>2. CASE u \in Conns
    BY <1>2, <1>9, <2>1, <2>2, CountsKept DEF EnsureFlow
  <2>3. CASE u \notin Conns /\ permits < MaxUdpTasks
    BY <1>9, <2>1, <2>3, CountsTaken DEF EnsureFlow
  <2>4. CASE u \notin Conns /\ ~(permits < MaxUdpTasks)
    BY <1>9, <2>4, CountsKept DEF EnsureFlow
  <2> QED
    BY <2>2, <2>3, <2>4
<1>10. ASSUME NEW u \in Units, Attribute(u) PROVE Counts'
  <2>1. CASE pc' = [pc EXCEPT ![u] = "serve"] /\ UNCHANGED <<slots, permits>>
    BY <1>10, <2>1, CountsKept DEF Attribute
  <2>2. CASE u \in Conns /\ pc' = [pc EXCEPT ![u] = "unflow"] /\ UNCHANGED <<slots, permits>>
    BY <1>2, <1>10, <2>2, CountsKept DEF Attribute
  <2>3. CASE u \notin Conns /\ pc' = [pc EXCEPT ![u] = "gone"] /\ Release(u)
    BY <1>10, <2>3, CountsReleased DEF Attribute
  <2> QED
    BY <1>10, <2>1, <2>2, <2>3 DEF Attribute, AfterRefusal
<1>11. ASSUME NEW u \in Units, Finish(u) PROVE Counts'
  <2>1. CASE u \in Conns
    BY <1>2, <1>11, <2>1, CountsKept DEF Finish
  <2>2. CASE u \notin Conns
    BY <1>11, <2>2, CountsReleased DEF Finish
  <2> QED
    BY <2>1, <2>2
<1>12. CASE (\E c \in Conns, last \in BOOLEAN : Packet(c, last))
            \/ CleanupSessions \/ CleanupFlow \/ CleanupDestinations \/ FlowExpires \/ Tick
  BY <1>1, <1>12 DEF Packet, CleanupSessions, CleanupFlow, CleanupDestinations, FlowExpires, Tick
<1> QED
  BY <1>3, <1>4, <1>5, <1>6, <1>7, <1>8, <1>9, <1>10, <1>11, <1>12 DEF Next, remove_session

\* The tables are empty, nobody holds a guard.
LEMMA InitInv == Init => LInv
<1> SUFFICES ASSUME Init PROVE LInv
  OBVIOUS
<1>1. Types
  BY TrackerAssumption, ListenerAssumption DEF Init, Types, PcValues
<1>2. Active(sessions) = {} /\ Recorded(dests) = {}
  BY NoSessionType, NoEntryType DEF Init, Active, Recorded, NoDestinations
<1>3. SessionsOK(sessions)
  <2>1. sessions \in Sessions
    BY NoSessionType DEF Init, Sessions
  <2>2. IsFiniteSet(Active(sessions)) /\ Cardinality(Active(sessions)) <= MaxSessions
    BY <1>2, FS_EmptySet, TrackerAssumption
  <2> QED
    BY <2>1, <2>2 DEF SessionsOK
<1>4. DestsOK(dests)
  <2>1. dests \in [RedirectFlowKey -> Queued] /\ \A f \in RedirectFlowKey : Len(dests[f].queue) = 0
    BY NoEntryType DEF Init, NoDestinations
  <2>2. \A f \in RedirectFlowKey : Len(dests[f].queue) <= IF f.protocol = "TCP" THEN 1 ELSE MaxPerFlow
    BY <2>1, TrackerAssumption
  <2>3. IsFiniteSet(Recorded(dests)) /\ Cardinality(Recorded(dests)) <= MaxFlows
    BY <1>2, FS_EmptySet, TrackerAssumption
  <2> QED
    BY <2>1, <2>2, <2>3 DEF DestsOK
<1>5. Served = {} /\ Answered = {}
  BY DEF Init, Served, Answered, Registered, Units
<1>6. Counts
  BY <1>5, FS_EmptySet, ListenerAssumption DEF Init, Counts
<1>7. BacklogWaits
  BY DEF Init, BacklogWaits
<1> QED
  BY <1>1, <1>3, <1>4, <1>6, <1>7 DEF LInv, Tables

\* Types, limits and counters hold in every state.
THEOREM Bookkeeping == Spec => []LInv
<1>1. LInv /\ UNCHANGED vars => LInv'
  <2> SUFFICES ASSUME LInv, UNCHANGED vars PROVE LInv'
    OBVIOUS
  <2> USE DEF vars, inputs
  <2>1. Types'
    BY DEF LInv, Types
  <2>2. Tables'
    BY DEF LInv, Tables
  <2>3. Counts'
    BY DEF LInv, Counts, Served, Answered, Registered
  <2>4. BacklogWaits'
    BY DEF LInv, BacklogWaits
  <2> QED
    BY <2>1, <2>2, <2>3, <2>4 DEF LInv
<1>2. LInv /\ Next => LInv'
  BY TypesStep, TablesStep, CountsStep, BacklogStep DEF LInv
<1> QED
  BY InitInv, <1>1, <1>2, PTL DEF Spec

\* The slot counter is that of the connections being registered or served, on
\* every path out of a connection, and the tables keep to their limits
\* (ConnectionSlot, enforce_session_capacity, enforce_original_destination_flow_capacity).
THEOREM SlotsAreExact == Spec => []SlotsKept
<1>1. LInv => SlotsKept
  <2> SUFFICES ASSUME LInv PROVE SlotsKept
    OBVIOUS
  <2>1. SlotsExact
    BY DEF LInv, Counts, Served, SlotsExact
  <2>2. /\ sessions \in Sessions /\ Cardinality(Active(sessions)) <= MaxSessions
        /\ Cardinality(Recorded(dests)) <= MaxFlows
    BY DEF LInv, Tables, SessionsOK, DestsOK
  <2>3. \A f \in RedirectFlowKey :
          /\ Len(dests[f].queue) <= MaxPerFlow
          /\ \A i \in 1..Len(dests[f].queue) : dests[f].queue[i] \in Forwarded
    <3> SUFFICES ASSUME NEW f \in RedirectFlowKey
                 PROVE  /\ Len(dests[f].queue) <= MaxPerFlow
                        /\ \A i \in 1..Len(dests[f].queue) : dests[f].queue[i] \in Forwarded
      OBVIOUS
    <3>1. dests[f].queue \in Seq(Forwarded) /\ Len(dests[f].queue) <= IF f.protocol = "TCP" THEN 1 ELSE MaxPerFlow
      BY DEF LInv, Tables, DestsOK, Queued
    <3>2. Len(dests[f].queue) \in Nat
      BY <3>1
    <3> QED
      BY <3>1, <3>2, TrackerAssumption
  <2>4. slots \in 0..MaxConnections /\ permits \in 0..MaxUdpTasks
    BY ListenerAssumption DEF LInv, Types, Counts
  <2>5. TypeOK
    BY <2>2, <2>3, <2>4 DEF LInv, Types, TypeOK
  <2> QED
    BY <2>1, <2>5 DEF SlotsKept
<1> QED
  BY <1>1, Bookkeeping, PTL

-----------------------------------------------------------------------------
(* Who will remove a connection's session and flow *)

\* Tasks that have registered a flow and not yet removed it, and the same for
\* the session.
FlowAt    == {"filter", "serve", "bytes", "unflow", "panicked"}
SessionAt == FlowAt \cup {"flow", "unsession"}

\* Every TCP flow and session is that of a connection whose task will remove it
\* or has panicked.
Owned ==
    /\ \A k \in flows : k.protocol = "TCP" => \E c \in Conns : Key(c) = k /\ pc[c] \in FlowAt
    /\ \A k \in Active(sessions) : k.protocol = "TCP" => \E c \in Conns : Key(c) = k /\ pc[c] \in SessionAt

\* A connection keeps its key once it has taken its destination.
LEMMA KeysStay ==
    ASSUME LInv, Next, NEW c \in Conns, pc[c] # "take"
    PROVE  Key(c)' = Key(c) /\ FlowKey(c)' = FlowKey(c)
<1>1. src' = src /\ dst'[c] = dst[c]
  <2>1. ASSUME NEW u \in Units, TakeDestination(u) PROVE src' = src /\ dst'[c] = dst[c]
    BY <2>1 DEF TakeDestination, inputs, LInv, Types
  <2> QED
    BY <2>1 DEF Next, Connect, Refuse, Accept, Packet, Panic, remove_session, RemoveFlow, RemoveSession,
                ClearDestination, SendDatagram, recv_udp_packet, RegisterSession, EnsureFlow, Attribute,
                UpdateFlow, UpdateBytes, Finish, CleanupSessions, CleanupFlow, CleanupDestinations,
                FlowExpires, Tick, inputs
<1> QED
  BY <1>1 DEF Key, FlowKey, Proto

\* A step that adds nothing and leaves every owner an owner.
LEMMA OwnedKept ==
    ASSUME LInv, Owned, Next,
           \A k \in flows' : k \in flows \/ k.protocol # "TCP",
           \A k \in Active(sessions)' : k \in Active(sessions) \/ k.protocol # "TCP",
           \A c \in Conns : pc[c] \in FlowAt => pc'[c] \in FlowAt \/ Key(c) \notin flows',
           \A c \in Conns : pc[c] \in SessionAt => pc'[c] \in SessionAt \/ Key(c) \notin Active(sessions)'
    PROVE  Owned'
<1>1. \A c \in Conns : pc[c] \in SessionAt => Key(c)' = Key(c)
  BY KeysStay DEF SessionAt, FlowAt
<1>2. FlowAt \subseteq SessionAt
  BY DEF SessionAt
<1>3. ASSUME NEW k \in flows', k.protocol = "TCP" PROVE \E c \in Conns : Key(c)' = k /\ pc'[c] \in FlowAt
  <2>1. PICK c \in Conns : Key(c) = k /\ pc[c] \in FlowAt
    BY <1>3 DEF Owned
  <2> QED
    BY <1>1, <1>2, <1>3, <2>1
<1>4. ASSUME NEW k \in Active(sessions)', k.protocol = "TCP" PROVE \E c \in Conns : Key(c)' = k /\ pc'[c] \in SessionAt
  <2>1. PICK c \in Conns : Key(c) = k /\ pc[c] \in SessionAt
    BY <1>4 DEF Owned
  <2> QED
    BY <1>1, <1>4, <2>1
<1> QED
  BY <1>3, <1>4 DEF Owned

\* The same for a step that adds the flow and the session of c.
LEMMA OwnedAdd ==
    ASSUME LInv, Owned, Next, NEW c \in Conns,
           flows' \subseteq flows \/ (flows' \subseteq flows \cup {Key(c)} /\ pc'[c] \in FlowAt),
           Active(sessions)' \subseteq Active(sessions) \cup {Key(c)},
           pc[c] # "take", pc'[c] \in SessionAt, pc[c] \in FlowAt => pc'[c] \in FlowAt,
           \A b \in Conns \ {c} : pc'[b] = pc[b]
    PROVE  Owned'
<1>1. \A b \in Conns : pc[b] \in SessionAt => Key(b)' = Key(b)
  BY KeysStay DEF SessionAt, FlowAt
<1>2. FlowAt \subseteq SessionAt /\ Key(c)' = Key(c)
  BY KeysStay DEF SessionAt
<1>3. ASSUME NEW k \in flows', k.protocol = "TCP" PROVE \E b \in Conns : Key(b)' = k /\ pc'[b] \in FlowAt
  <2>1. CASE k \in flows
    <3>1. PICK b \in Conns : Key(b) = k /\ pc[b] \in FlowAt
      BY <1>3, <2>1 DEF Owned
    <3> QED
      BY <1>1, <1>2, <3>1
  <2>2. CASE k \notin flows
    BY <1>2, <1>3, <2>2
  <2> QED
    BY <2>1, <2>2
<1>4. ASSUME NEW k \in Active(sessions)', k.protocol = "TCP" PROVE \E b \in Conns : Key(b)' = k /\ pc'[b] \in SessionAt
  <2>1. CASE k = Key(c)
    BY <1>2, <2>1
  <2>2. CASE k # Key(c)
    <3>1. PICK b \in Conns : Key(b) = k /\ pc[b] \in SessionAt
      BY <1>4, <2>2 DEF Owned
    <3> QED
      BY <1>1, <2>2, <3>1
  <2> QED
    BY <2>1, <2>2
<1> QED
  BY <1>3, <1>4 DEF Owned

\* Every step keeps an owner for every session and flow.
LEMMA OwnedStep == ASSUME LInv, Owned, Next PROVE Owned'
<1>1. now \in 0..MaxTime /\ pc \in [Units -> PcValues] /\ SessionsOK(sessions) /\ Conns \subseteq Units
  BY DEF LInv, Types, Tables, Units
<1>2. \A u \in Units : Key(u) \in SessionKey /\ Key(u).protocol = Proto(u)
  BY KeyTypes DEF LInv
<1>3. \A c \in Conns : c \in Units /\ c \notin Datagrams
  BY ListenerAssumption DEF Units
<1>4. SessionAt = {"filter", "serve", "bytes", "unflow", "panicked", "flow", "unsession"}
  BY DEF SessionAt, FlowAt
<1>5. Active(cleanup_expired_sessions(sessions, now)) \subseteq Active(sessions)
  BY <1>1, ExpirySessions
<1> USE DEF Goto, FlowAt
\* A task moves that owns nothing, or to where it owns the same.
<1>6. ASSUME NEW u \in Units, NEW l, pc' = [pc EXCEPT ![u] = l],
             \A k \in flows' : k \in flows \/ k.protocol # "TCP",
             \A k \in Active(sessions)' : k \in Active(sessions) \/ k.protocol # "TCP",
             u \in Conns => (pc[u] \in FlowAt => l \in FlowAt) /\ (pc[u] \in SessionAt => l \in SessionAt)
      PROVE  Owned'
  BY <1>1, <1>6, OwnedKept
<1>7. ASSUME NEW c \in Conns, Connect(c) \/ Refuse(c) \/ Accept(c) \/ Panic(c) PROVE Owned'
  BY <1>3, <1>4, <1>6, <1>7 DEF Connect, Refuse, Accept, Panic
<1>8. ASSUME NEW c \in Conns, RemoveFlow(c) PROVE Owned'
  <2>1. pc[c] = "unflow" /\ pc' = [pc EXCEPT ![c] = "unsession"] /\ flows' = flows \ {Key(c)} /\ sessions' = sessions
    BY <1>8 DEF RemoveFlow
  <2>2. \A b \in Conns : pc'[b] = IF b = c THEN "unsession" ELSE pc[b]
    BY <1>1, <2>1
  <2> QED
    BY <1>4, <2>1, <2>2, OwnedKept
<1>9. ASSUME NEW c \in Conns, RemoveSession(c) PROVE Owned'
  <2>1. /\ pc[c] = "unsession" /\ pc' = [pc EXCEPT ![c] = "undest"] /\ flows' = flows
        /\ sessions' = remove(sessions, Key(c))
    BY <1>9 DEF RemoveSession
  <2>2. \A b \in Conns : pc'[b] = IF b = c THEN "undest" ELSE pc[b]
    BY <1>1, <2>1
  <2>3. Active(remove(sessions, Key(c))) = Active(sessions) \ {Key(c)}
    BY <1>1, <1>2, NoSessionType DEF remove, Active, SessionsOK, Sessions
  <2>4. Active(sessions)' = Active(sessions) \ {Key(c)}
    BY <2>1, <2>3
  <2> QED
    BY <1>4, <2>1, <2>2, <2>4, OwnedKept
<1>10. ASSUME NEW c \in Conns, ClearDestination(c) PROVE Owned'
  BY <1>3, <1>4, <1>6, <1>10 DEF ClearDestination
<1>11. ASSUME NEW d \in Datagrams, SendDatagram(d) PROVE Owned'
  BY <1>3, <1>6, <1>11 DEF SendDatagram, Units
<1>12. CASE recv_udp_packet
  <2>1. Head(backlog) \in Datagrams
    BY <1>12 DEF recv_udp_packet, LInv, Types
  <2> QED
    BY <1>3, <1>6, <1>12, <2>1 DEF recv_udp_packet, Units
<1>13. ASSUME NEW u \in Units, TakeDestination(u) PROVE Owned'
  BY <1>4, <1>6, <1>13 DEF TakeDestination
<1>14. ASSUME NEW u \in Units, RegisterSession(u) PROVE Owned'
  <2>1. Active(sessions)' \subseteq Active(sessions) \cup {Key(u)}
    BY <1>1, <1>2, <1>14, RegisterSessions DEF RegisterSession
  <2>2. pc[u] = "register" /\ pc' = [pc EXCEPT ![u] = "flow"] /\ flows' = flows
    BY <1>14 DEF RegisterSession
  <2>3. CASE u \in Conns
    BY <1>1, <1>4, <2>1, <2>2, <2>3, OwnedAdd
  <2>4. CASE u \notin Conns
    BY <1>2, <1>6, <2>1, <2>2, <2>4 DEF Proto
  <2> QED
    BY <2>3, <2>4
<1>15. ASSUME NEW u \in Units, EnsureFlow(u) \/ UpdateFlow(u) PROVE Owned'
  <2>1. flows' = flows \cup {Key(u)} /\ sessions' = cleanup_expired_sessions(sessions, now)
    BY <1>15 DEF EnsureFlow, UpdateFlow, ensure_session_flow
  <2>2. Active(sessions)' \subseteq Active(sessions)
    BY <1>5, <2>1
  <2>3. PICK l \in {"filter", "gone", "bytes"} :
            /\ pc' = [pc EXCEPT ![u] = l] /\ pc[u] \in {"flow", "serve"} /\ (u \in Conns => l \in FlowAt)
    BY <1>15 DEF EnsureFlow, UpdateFlow
  <2>4. CASE u \in Conns
    BY <1>1, <1>4, <2>1, <2>2, <2>3, <2>4, OwnedAdd
  <2>5. CASE u \notin Conns
    BY <1>2, <1>6, <2>1, <2>2, <2>3, <2>5 DEF Proto
  <2> QED
    BY <2>4, <2>5
<1>16. ASSUME NEW u \in Units, Attribute(u) \/ UpdateBytes(u) PROVE Owned'
  <2>1. Active(sessions)' \subseteq Active(sessions)
    <3>1. NoProcess \in Processes \cup {NoProcess}
      OBVIOUS
    <3> QED
      BY <1>1, <1>2, <1>16, <3>1, UpdateSessions DEF Attribute, UpdateBytes
  <2>2. PICK l \in {"serve", "unflow", "gone"} :
            /\ pc' = [pc EXCEPT ![u] = l] /\ (u \in Conns => l \in FlowAt) /\ flows' = flows
    BY <1>16 DEF Attribute, UpdateBytes, AfterRefusal
  <2> QED
    BY <1>4, <1>6, <2>1, <2>2
<1>17. ASSUME NEW u \in Units, Finish(u) PROVE Owned'
  BY <1>4, <1>6, <1>17 DEF Finish
<1>18. ASSUME UNCHANGED pc, flows' \subseteq flows, Active(sessions)' \subseteq Active(sessions) PROVE Owned'
  BY <1>18, OwnedKept
<1>19. ASSUME NEW c \in Conns, NEW last \in BOOLEAN, Packet(c, last) PROVE Owned'
  BY <1>18, <1>19 DEF Packet
<1>20. CASE CleanupSessions
  BY <1>5, <1>18, <1>20 DEF CleanupSessions
<1>21. CASE CleanupFlow \/ CleanupDestinations \/ FlowExpires \/ Tick
  BY <1>18, <1>21 DEF CleanupFlow, CleanupDestinations, FlowExpires, Tick
<1> QED
  BY <1>7, <1>8, <1>9, <1>10, <1>11, <1>12, <1>13, <1>14, <1>15, <1>16, <1>17, <1>19, <1>20, <1>21
     DEF Next, remove_session

\* When every connection is over, only what a task that panicked registered is
\* left in the session and the flow table (remove_session).
THEOREM NoResidue == Spec => []NothingLeftBehind
<1>1. Init => Owned
  BY NoSessionType DEF Init, Owned, Active
<1>2. LInv /\ Owned /\ [Next]_vars => Owned'
  <2>1. ASSUME Owned, UNCHANGED vars PROVE Owned'
    BY <2>1 DEF Owned, vars, inputs, Key, Proto
  <2> QED
    BY <2>1, OwnedStep
<1>3. Owned => NothingLeftBehind
  BY DEF Owned, NothingLeftBehind, FlowAt, SessionAt
<1> QED
  BY <1>1, <1>2, <1>3, Bookkeeping, PTL DEF Spec

-----------------------------------------------------------------------------
(* Whose destination is in the queue *)

Unregistered == {"sent", "take"}

\* A source port serves one connection at a time: of two connections from it,
\* one is closed by the client and past taking its destination.
SoleUser ==
    \A b, c \in Conns :
        b # c /\ src[b] = src[c] /\ pc[b] # "new" /\ pc[c] # "new" =>
            \E x \in {b, c} : x \in closed /\ pc[x] \notin Unregistered

\* What is queued for a redirected connection that has not taken its
\* destination is that destination.
QueueIsOwn ==
    \A c \in Conns : pc[c] \in Unregistered /\ orig[c] \in Forwarded =>
        dests[FlowKey(c)].queue \in {<<>>, <<orig[c]>>}

DestInv == SoleUser /\ QueueIsOwn /\ TcpDestinationIsOwn

\* What a step does to the connections: none becomes unregistered unless it
\* connects, and the client's closing is final.
LEMMA PortStep ==
    ASSUME LInv, Next
    PROVE  /\ inputs' = inputs /\ closed \subseteq closed'
           /\ \A c \in Conns : pc'[c] \in Unregistered => pc[c] \in Unregistered \/ Connect(c)
           /\ \A c \in Conns : pc[c] = "new" => pc'[c] = "new" \/ Connect(c)
<1> USE DEF Goto, Unregistered
<1>1. pc \in [Units -> PcValues] /\ Conns \subseteq Units
  BY DEF LInv, Types, Units
<1>2. \A c \in Conns : c \in Units /\ c \notin Datagrams
  BY ListenerAssumption DEF Units
<1>3. ASSUME NEW c \in Conns,
             Connect(c) \/ Refuse(c) \/ Accept(c) \/ (\E last \in BOOLEAN : Packet(c, last)) \/ Panic(c)
                \/ remove_session(c)
      PROVE  /\ inputs' = inputs /\ closed \subseteq closed'
             /\ \A b \in Conns : pc'[b] \in Unregistered => pc[b] \in Unregistered \/ Connect(b)
             /\ \A b \in Conns : pc[b] = "new" => pc'[b] = "new" \/ Connect(b)
  <2>1. CASE Connect(c)
    BY <1>1, <2>1 DEF Connect
  <2>2. CASE \E last \in BOOLEAN : Packet(c, last)
    BY <2>2 DEF Packet
  <2>3. CASE Refuse(c) \/ Accept(c) \/ Panic(c) \/ remove_session(c)
    BY <1>1, <2>3 DEF ServerCloses, Refuse, Accept, Panic, remove_session, RemoveFlow, RemoveSession, ClearDestination
  <2> QED
    BY <1>3, <2>1, <2>2, <2>3
<1>4. ASSUME NEW d \in Datagrams, SendDatagram(d)
      PROVE  inputs' = inputs /\ closed' = closed /\ \A b \in Conns : pc'[b] = pc[b]
  BY <1>1, <1>2, <1>4 DEF SendDatagram
<1>5. ASSUME recv_udp_packet
      PROVE  inputs' = inputs /\ closed' = closed /\ \A b \in Conns : pc'[b] = pc[b]
  <2>1. Head(backlog) \in Datagrams
    BY <1>5 DEF recv_udp_packet, LInv, Types
  <2> QED
    BY <1>1, <1>2, <1>5, <2>1 DEF recv_udp_packet
<1>6. ASSUME NEW u \in Units,
             TakeDestination(u) \/ RegisterSession(u) \/ EnsureFlow(u) \/ Attribute(u) \/ UpdateFlow(u)
                \/ UpdateBytes(u) \/ Finish(u)
      PROVE  /\ inputs' = inputs /\ closed' = closed
             /\ \A b \in Conns : pc'[b] = pc[b] \/ (pc[b] # "new" /\ pc'[b] \notin Unregistered)
  BY <1>1, <1>6 DEF TakeDestination, RegisterSession, EnsureFlow, Attribute, UpdateFlow, UpdateBytes, Finish,
                    AfterRefusal
<1>7. ASSUME CleanupSessions \/ CleanupFlow \/ CleanupDestinations \/ FlowExpires \/ Tick
      PROVE  inputs' = inputs /\ closed' = closed /\ pc' = pc
  BY <1>7 DEF CleanupSessions, CleanupFlow, CleanupDestinations, FlowExpires, Tick
<1> QED
  BY <1>3, <1>4, <1>5, <1>6, <1>7 DEF Next

\* Every step keeps the source ports apart.
LEMMA SoleUserStep == ASSUME PromptAccept, LInv, SoleUser, Next PROVE SoleUser'
<1>1. /\ src' = src /\ closed \subseteq closed'
      /\ \A c \in Conns : pc'[c] \in Unregistered => pc[c] \in Unregistered \/ Connect(c)
      /\ \A c \in Conns : pc[c] = "new" => pc'[c] = "new" \/ Connect(c)
  BY PortStep DEF inputs
<1>2. ASSUME NEW b \in Conns, NEW c \in Conns, b # c, src[b] = src[c], Connect(b), pc'[c] # "new"
      PROVE  c \in closed' /\ pc'[c] \notin Unregistered
  <2>1. pc' = [pc EXCEPT ![b] = "sent"] /\ pc'[c] = pc[c]
    BY <1>2 DEF Connect, Goto, LInv, Types, Units
  <2>2. c \in closed /\ pc[c] \notin Unregistered
    BY <1>2, <2>1 DEF Connect, Unregistered
  <2> QED
    BY <1>1, <2>1, <2>2
<1>3. ASSUME NEW b \in Conns, NEW c \in Conns, b # c, src'[b] = src'[c], pc'[b] # "new", pc'[c] # "new"
      PROVE  \E x \in {b, c} : x \in closed' /\ pc'[x] \notin Unregistered
  <2>1. CASE Connect(b)
    BY <1>1, <1>2, <1>3, <2>1
  <2>2. CASE Connect(c)
    BY <1>1, <1>2, <1>3, <2>2
  <2>3. CASE ~Connect(b) /\ ~Connect(c)
    <3>1. \E x \in {b, c} : x \in closed /\ pc[x] \notin Unregistered
      BY <1>1, <1>3, <2>3 DEF SoleUser
    <3> QED
      BY <1>1, <2>3, <3>1
  <2> QED
    BY <2>1, <2>2, <2>3
<1> QED
  BY <1>3 DEF SoleUser

\* A step leaves the queue of a connection that has not taken its destination,
\* empties it, or notes that connection's destination again.
LEMMA QueueStep ==
    ASSUME PromptAccept, LInv, SoleUser, Next, NEW c \in Conns, pc'[c] \in Unregistered, orig[c] \in Forwarded,
           ~Connect(c)
    PROVE  dests'[FlowKey(c)].queue \in {dests[FlowKey(c)].queue, <<>>, <<orig[c]>>}
<1> DEFINE f == FlowKey(c)
<1>1. /\ f \in RedirectFlowKey /\ f.protocol = "TCP" /\ DestsOK(dests) /\ Types /\ now \in 0..MaxTime
      /\ c \in Units /\ pc[c] \in Unregistered
  BY KeyTypes, PortStep DEF LInv, Types, Tables, Units, Proto
<1>2. ASSUME NEW u \in Units, FlowKey(u) = f PROVE u \in Conns /\ src[u] = src[c]
  BY <1>1, <1>2, KeyTypes DEF Proto
<1>3. \A u \in Units : FlowKey(u) \in RedirectFlowKey
  BY <1>1, KeyTypes
<1> HIDE DEF f
<1>4. ASSUME NEW u \in Units, FlowKey(u) # f, track_original_destination(u)
      PROVE  dests'[f].queue \in {dests[f].queue, <<>>, <<orig[c]>>}
  BY <1>1, <1>4, TrackDests DEF Touches
<1>5. ASSUME NEW b \in Conns, Connect(b) PROVE dests'[f].queue \in {dests[f].queue, <<>>, <<orig[c]>>}
  <2>1. b \in Units /\ b # c
    BY <1>5 DEF Units
  <2>2. src[b] # src[c]
    BY <1>1, <1>5, <2>1 DEF Connect, Unregistered
  <2> QED
    BY <1>2, <1>4, <1>5, <2>1, <2>2 DEF Connect
<1>6. ASSUME NEW b \in Conns, NEW last \in BOOLEAN, Packet(b, last)
      PROVE  dests'[f].queue \in {dests[f].queue, <<>>, <<orig[c]>>}
  <2>1. b \in Units /\ track_original_destination(b) /\ b \notin closed /\ pc[b] # "new" /\ pc[c] # "new"
    BY <1>1, <1>6 DEF Packet, Units, Unregistered
  <2>2. CASE b = c
    BY <1>1, <2>1, <2>2, TrackDests DEF f
  <2>3. CASE b # c
    <3>1. src[b] # src[c]
      BY <1>1, <2>1, <2>3 DEF SoleUser
    <3> QED
      BY <1>2, <1>4, <2>1, <3>1
  <2> QED
    BY <2>2, <2>3
<1>7. ASSUME NEW d \in Datagrams, SendDatagram(d) PROVE dests'[f].queue \in {dests[f].queue, <<>>, <<orig[c]>>}
  BY <1>2, <1>4, <1>7, ListenerAssumption DEF SendDatagram, Units
<1>8. ASSUME NEW g \in RedirectFlowKey,
             dests' \in {take_original_dest(dests, g, now), clear_original_dest(dests, g),
                         purge_stale_destinations(dests, now)}
      PROVE  dests'[f].queue \in {dests[f].queue, <<>>, <<orig[c]>>}
  <2>1. Touches(dests, dests', g) /\ (g.protocol = "TCP" => dests'[g].queue \in {dests[g].queue, <<>>})
    BY <1>1, <1>8, TakeDests
  <2> QED
    BY <1>1, <2>1 DEF Touches
<1>9. ASSUME NEW u \in Units, TakeDestination(u) \/ ClearDestination(u)
      PROVE  dests'[f].queue \in {dests[f].queue, <<>>, <<orig[c]>>}
  BY <1>3, <1>8, <1>9 DEF TakeDestination, ClearDestination
<1>10. ASSUME CleanupDestinations PROVE dests'[f].queue \in {dests[f].queue, <<>>, <<orig[c]>>}
  BY <1>1, <1>8, <1>10 DEF CleanupDestinations
<1>11. ASSUME UNCHANGED dests PROVE dests'[f].queue \in {dests[f].queue, <<>>, <<orig[c]>>}
  BY <1>11
<1>12. dests'[f].queue \in {dests[f].queue, <<>>, <<orig[c]>>}
  BY <1>5, <1>6, <1>7, <1>9, <1>10, <1>11
     DEF Next, remove_session, Refuse, Accept, Panic, RemoveFlow, RemoveSession, recv_udp_packet, RegisterSession,
         EnsureFlow, Attribute, UpdateFlow, UpdateBytes, Finish, CleanupSessions, CleanupFlow, FlowExpires, Tick,
         Units
<1> QED
  BY <1>12 DEF f

\* Every step keeps the queues.
LEMMA QueueIsOwnStep == ASSUME PromptAccept, LInv, SoleUser, QueueIsOwn, Next PROVE QueueIsOwn'
<1> SUFFICES ASSUME NEW c \in Conns, pc'[c] \in Unregistered, orig'[c] \in Forwarded
             PROVE  dests'[FlowKey(c)'].queue \in {<<>>, <<orig'[c]>>}
  BY DEF QueueIsOwn
<1>1. /\ orig' = orig /\ src' = src /\ FlowKey(c)' = FlowKey(c)
      /\ pc[c] \in Unregistered \/ Connect(c)
  BY PortStep DEF inputs, FlowKey, Proto
<1>2. CASE Connect(c)
  BY <1>1, <1>2, TrackDests DEF Connect, LInv, Tables, Units
<1>3. CASE ~Connect(c)
  BY <1>1, <1>3, QueueStep DEF QueueIsOwn
<1> QED
  BY <1>2, <1>3

\* Every step keeps the destinations taken.
LEMMA OwnDestinationStep ==
    ASSUME PromptAccept, LInv, SoleUser, QueueIsOwn, TcpDestinationIsOwn, Next
    PROVE  TcpDestinationIsOwn'
<1> SUFFICES ASSUME NEW c \in Conns, Registered(c)', orig'[c] \in Forwarded
             PROVE  dst'[c] \in {orig'[c], Fallback(c)'}
  BY DEF TcpDestinationIsOwn
<1>1. orig' = orig /\ Fallback(c)' = Fallback(c) /\ c \in Units /\ pc \in [Units -> PcValues]
      /\ dst \in [Units -> Dests \cup {Local}]
  BY PortStep DEF inputs, Fallback, Units, LInv, Types
<1>2. ASSUME TakeDestination(c) PROVE dst'[c] \in {orig'[c], Fallback(c)'}
  <2>1. pc[c] = "take" /\ dests[FlowKey(c)].queue \in {<<>>, <<orig[c]>>}
    BY <1>1, <1>2 DEF TakeDestination, QueueIsOwn, Unregistered
  <2>2. dst'[c] = IF dests[FlowKey(c)].queue = <<>> THEN Fallback(c) ELSE Head(dests[FlowKey(c)].queue)
    BY <1>1, <1>2 DEF TakeDestination, NextDest
  <2> QED
    BY <1>1, <2>1, <2>2
<1>3. ASSUME NEW u \in Units \ {c}, TakeDestination(u) PROVE dst'[c] = dst[c] /\ pc'[c] = pc[c]
  BY <1>1, <1>3 DEF TakeDestination, Goto
<1>4. ASSUME \A u \in Units : ~TakeDestination(u) PROVE dst' = dst /\ (Registered(c)' => Registered(c))
  <2>1. c \notin Datagrams
    BY ListenerAssumption
  <2>2. dst' = dst
    BY <1>4 DEF Next, Connect, Refuse, Accept, Packet, Panic, remove_session, RemoveFlow, RemoveSession,
                ClearDestination, SendDatagram, recv_udp_packet, RegisterSession, EnsureFlow, Attribute,
                UpdateFlow, UpdateBytes, Finish, CleanupSessions, CleanupFlow, CleanupDestinations,
                FlowExpires, Tick
  <2>3. ASSUME NEW b \in Conns, Connect(b) \/ Refuse(b) \/ Accept(b) \/ Panic(b) \/ remove_session(b)
        PROVE  Registered(c)' => Registered(c)
    BY <1>1, <2>3 DEF Connect, Refuse, Accept, Panic, remove_session, RemoveFlow, RemoveSession,
                      ClearDestination, Registered, Goto
  <2>4. ASSUME NEW d \in Datagrams, SendDatagram(d) PROVE pc'[c] = pc[c]
    BY <1>1, <2>1, <2>4 DEF SendDatagram, Goto
  <2>5. CASE recv_udp_packet
    <3>1. Head(backlog) \in Datagrams
      BY <2>5 DEF recv_udp_packet, LInv, Types
    <3>2. pc'[c] = pc[c]
      BY <1>1, <2>1, <2>5, <3>1 DEF recv_udp_packet, Goto
    <3> QED
      BY <2>2, <3>2 DEF Registered
  <2>6. ASSUME NEW u \in Units, RegisterSession(u) \/ EnsureFlow(u) \/ Attribute(u) \/ UpdateFlow(u)
                                  \/ UpdateBytes(u) \/ Finish(u)
        PROVE  Registered(c)' => Registered(c)
    BY <1>1, <2>6 DEF RegisterSession, EnsureFlow, Attribute, UpdateFlow, UpdateBytes, Finish, Registered, Goto
  <2>7. CASE UNCHANGED pc
    BY <2>2, <2>7 DEF Registered
  <2> QED
    BY <1>4, <2>2, <2>3, <2>4, <2>5, <2>6, <2>7
       DEF Next, Packet, CleanupSessions, CleanupFlow, CleanupDestinations, FlowExpires, Tick, Registered
<1> QED
  BY <1>1, <1>2, <1>3, <1>4 DEF TcpDestinationIsOwn, Registered

\* Where a connection is registered before its source port comes back, a
\* redirected connection is registered with its own destination, or with what
\* the socket says (register_session_state, track_original_destination).
THEOREM OwnDestination == PromptAccept => (Spec => []TcpDestinationIsOwn)
<1> SUFFICES ASSUME PromptAccept PROVE Spec => []TcpDestinationIsOwn
  OBVIOUS
<1>1. Init => DestInv
  BY DEF Init, DestInv, SoleUser, QueueIsOwn, TcpDestinationIsOwn, Unregistered, Registered, Units
<1>2. LInv /\ DestInv /\ [Next]_vars => DestInv'
  <2>1. ASSUME DestInv, UNCHANGED vars PROVE DestInv'
    BY <2>1 DEF DestInv, SoleUser, QueueIsOwn, TcpDestinationIsOwn, Registered, FlowKey, Proto, Fallback, vars, inputs
  <2> QED
    BY <2>1, SoleUserStep, QueueIsOwnStep, OwnDestinationStep DEF DestInv
<1>3. DestInv => TcpDestinationIsOwn
  BY DEF DestInv
<1> QED
  BY <1>1, <1>2, <1>3, Bookkeeping, PTL DEF Spec
=============================================================================
