---------------------------- MODULE StreamSinks ----------------------------
(***************************************************************************)
(* The TCP and the syslog sink (nettrap-distributed/src/sinks.rs): a       *)
(* connection or a socket kept between sends and replaced after an error.  *)
(* What was written is kept as streams of lines, whole or torn; each       *)
(* datagram of the syslog sink is a stream of its own.  A send holds the   *)
(* lock of the connection, and its task may be aborted at any await.       *)
(***************************************************************************)
EXTENDS Naturals, Sequences

CONSTANTS SinkEvents,
          Oversized            \* those above TCP_SINK_MAX_EVENT_BYTES, SYSLOG_UDP_MAX_DATAGRAM_BYTES

VARIABLES sinkKind,            \* "tcp" or "syslog"
          connection,          \* of the mutex: "none" or "open"
          sending,             \* [at, e]: the task that holds it: "idle", "connecting" or "writing"
          streams, verdict
streamVars == <<sinkKind, connection, sending, streams, verdict>>

NotSending == [at |-> "idle"]
SinksInit ==
    /\ sinkKind \in {"tcp", "syslog"} /\ connection = "none" /\ sending = NotSending /\ streams = <<>>
    /\ verdict = [e \in SinkEvents |-> "new"]

Ends(state) == sending' = NotSending /\ verdict' = [verdict EXCEPT ![sending.e] = state]
(* The bytes of an event in the stream of the connection; a datagram is    *)
(* sent whole or not at all.                                               *)
Line(e, whole) == [e |-> e, whole |-> whole]
Wrote(e, amount) ==
    streams' = CASE amount = "nothing" -> streams
                 [] amount # "nothing" /\ sinkKind = "syslog" -> Append(streams, <<Line(e, TRUE)>>)
                 [] OTHER -> [streams EXCEPT ![Len(streams)] = Append(@, Line(e, amount = "all"))]
Partly == IF sinkKind = "tcp" THEN {"nothing", "half"} ELSE {"nothing"}

(* Mutant: an event whose fate is unknown may be sent once more.           *)
send_retries(e) ==
    /\ sending = NotSending /\ verdict[e] \in {"new", "unknown"}
    /\ sending' = [at |-> IF connection = "none" THEN "connecting" ELSE "writing", e |-> e]
    /\ UNCHANGED <<sinkKind, connection, streams, verdict>>
send(e) ==
    /\ sending = NotSending /\ verdict[e] = "new"
    /\ IF e \in Oversized THEN verdict' = [verdict EXCEPT ![e] = "lost"] /\ UNCHANGED sending
       ELSE /\ sending' = [at |-> IF connection = "none" THEN "connecting" ELSE "writing", e |-> e]
            /\ UNCHANGED verdict
    /\ UNCHANGED <<sinkKind, connection, streams>>
(* TCP: connected within five seconds; syslog: the address resolved, a     *)
(* socket bound and connected.                                             *)
connects ==
    /\ sending.at = "connecting" /\ connection' = "open" /\ sending' = [sending EXCEPT !.at = "writing"]
    /\ streams' = IF sinkKind = "tcp" THEN Append(streams, <<>>) ELSE streams
    /\ UNCHANGED <<sinkKind, verdict>>
connect_fails == sending.at = "connecting" /\ Ends("lost") /\ UNCHANGED <<sinkKind, connection, streams>>
writes ==
    /\ sending.at = "writing" /\ Wrote(sending.e, "all") /\ Ends("delivered")
    /\ UNCHANGED <<sinkKind, connection>>
(* An error, and for TCP the timeout of a write.                           *)
(* Mutants: the connection is kept; the event counts as lost.              *)
write_fails_keeps ==
    /\ sending.at = "writing" /\ \E amount \in Partly : Wrote(sending.e, amount)
    /\ Ends(IF sinkKind = "tcp" THEN "unknown" ELSE "lost") /\ UNCHANGED <<sinkKind, connection>>
write_fails_lost ==
    /\ sending.at = "writing" /\ \E amount \in Partly : Wrote(sending.e, amount)
    /\ connection' = "none" /\ Ends("lost") /\ UNCHANGED sinkKind
write_fails ==
    /\ sending.at = "writing" /\ \E amount \in Partly : Wrote(sending.e, amount)
    /\ connection' = "none" /\ Ends(IF sinkKind = "tcp" THEN "unknown" ELSE "lost") /\ UNCHANGED sinkKind
flush_fails ==
    /\ sinkKind = "tcp" /\ sending = NotSending /\ connection = "open" /\ connection' = "none"
    /\ UNCHANGED <<sinkKind, sending, streams, verdict>>
(* The worker is aborted: what it was writing stays on the connection.     *)
Aborted ==
    /\ sending # NotSending /\ Ends(IF sending.at = "writing" THEN "aborted" ELSE "untried")
    /\ IF sending.at = "writing" THEN \E amount \in Partly : Wrote(sending.e, amount) ELSE UNCHANGED streams
    /\ UNCHANGED <<sinkKind, connection>>

SinksNext == \/ \E e \in SinkEvents : send(e)
             \/ connects \/ connect_fails \/ writes \/ write_fails \/ flush_fails \/ Aborted
SinksSpec == SinksInit /\ [][SinksNext]_streamVars

------------------------------------------------------------------------------
Lines(i) == {streams[i][k] : k \in DOMAIN streams[i]}

(* An event is called lost only if no byte of it left this process, so the *)
(* fanout may report it as lost for certain (SinkSendResult::lost).        *)
LostNeverLeft == \A e \in SinkEvents, i \in DOMAIN streams :
                     verdict[e] = "lost" => \A l \in Lines(i) : l.e # e

(* An event called delivered is written whole and once, and on a line of   *)
(* its own: what stands torn before it is of an aborted task, never of a   *)
(* write that failed (TcpSink::send).                                      *)
DeliveredWhole ==
    /\ \A e \in SinkEvents : verdict[e] = "delivered" =>
         \E i \in DOMAIN streams : \E k \in DOMAIN streams[i] :
           /\ streams[i][k] = Line(e, TRUE)
           /\ \A j \in DOMAIN streams : \A m \in DOMAIN streams[j] : <<j, m>> # <<i, k>> => streams[j][m].e # e
    /\ \A i \in DOMAIN streams : \A k \in DOMAIN streams[i] :
         k < Len(streams[i]) /\ ~streams[i][k].whole => verdict[streams[i][k].e] = "aborted"

SendStatus(e) ==
    CASE verdict[e] \in {"lost", "untried"} -> "refused"
      [] verdict[e] = "delivered" -> "accepted"
      [] verdict[e] = "unknown" -> "unknown"
      [] verdict[e] = "aborted" -> "dropped"
      [] verdict[e] = "new" -> IF sending = [at |-> "writing", e |-> e] THEN "held" ELSE "new"
TcpSends == INSTANCE SinkContract WITH
    Events <- SinkEvents, status <- [e \in SinkEvents |-> IF sinkKind = "tcp" THEN SendStatus(e) ELSE "new"]
(* The TCP sink gives the fanout what the buffering sink gives it: an      *)
(* event is refused before anything of it is written, or it is taken,      *)
(* unknown or aborted once, and that is final (TcpSink::send).             *)
TcpContract == TcpSends!Spec

(* What the TCP and syslog sinks say of an event is true of the stream:    *)
(* lost, no byte of it left the process; delivered, its line was written   *)
(* whole (TcpSink::send, SyslogUdpSink::send).                             *)
LinesTruthful == LostNeverLeft /\ DeliveredWhole
=============================================================================
