--------------------------- MODULE DeliveryTracker ---------------------------
(***************************************************************************)
(* The per-event delivery trackers of an event fanout                      *)
(* (nettrap-distributed/src/fanout.rs, EventDeliveryTracker and the        *)
(* methods of EventFanout that run under the pending_records lock).        *)
(*                                                                         *)
(* pending_records is a function from event ids to trackers; an id without *)
(* a tracker is mapped to Absent.  Every operator maps such a function to  *)
(* the one the method leaves behind.                                       *)
(***************************************************************************)
EXTENDS Naturals, FiniteSets

CONSTANTS
    Events,   \* event ids
    Sinks     \* indices of the fanout's sinks

Tracker == [ present          : BOOLEAN,
             queued           : BOOLEAN,
             in_flight        : BOOLEAN,
             buffered_by      : SUBSET Sinks,
             delivered        : BOOLEAN,
             unknown          : BOOLEAN,
             unknown_reported : BOOLEAN ]

Absent == [ present |-> FALSE, queued |-> FALSE, in_flight |-> FALSE, buffered_by |-> {},
            delivered |-> FALSE, unknown |-> FALSE, unknown_reported |-> FALSE ]

\* entry(event_id).or_default()
OrDefault(t) == [t EXCEPT !.present = TRUE]

NoRecords == [e \in Events |-> Absent]

-----------------------------------------------------------------------------
(* finalize_tracker_if_resolved *)

Resolved(t) ==
    /\ t.present /\ ~t.queued /\ ~t.in_flight /\ t.buffered_by = {}
    /\ t.unknown => t.unknown_reported

\* Mutant: the entry is closed but what it learned is kept.
Finalized_mutant(t) == IF Resolved(t) THEN [t EXCEPT !.present = FALSE] ELSE t

Finalized(t) == IF Resolved(t) THEN Absent ELSE t

\* The value finalize_tracker_if_resolved returns: the event is lost.
IsFinalLoss(t) == Resolved(t) /\ ~t.delivered /\ ~t.unknown

-----------------------------------------------------------------------------
(* The life of one record. *)

\* A record already being sent keeps what the send has learned.
note_queued_record(p, e) ==
    LET t == [OrDefault(p[e]) EXCEPT !.queued = TRUE]
    IN  [p EXCEPT ![e] = IF t.in_flight THEN t
                         ELSE [t EXCEPT !.buffered_by = {}, !.delivered = FALSE,
                                        !.unknown = FALSE, !.unknown_reported = FALSE]]

forget_queued_record(p, e) ==
    [p EXCEPT ![e] = IF @.queued /\ ~@.in_flight THEN Absent ELSE @]

note_send_started(p, e) ==
    [p EXCEPT ![e] = [OrDefault(@) EXCEPT !.queued = FALSE, !.in_flight = TRUE]]

\* Mutant: a send whose outcome is unknown is taken for a failed one.
ApplySinkResults_mutant(p, e, answer) ==
    LET With(r) == {s \in Sinks : answer[s] = r}
        t == OrDefault(p[e])
    IN  [p EXCEPT ![e] = Finalized([t EXCEPT
            !.buffered_by = (@ \ {s \in Sinks : answer[s] # "Buffered"}) \cup With("Buffered"),
            !.delivered   = @ \/ With("Delivered") # {}])]

\* send: what each sink answered.  A sink that answered Delivered, Lost or
\* Unknown no longer buffers the event.
ApplySinkResults(p, e, answer) ==
    LET With(r) == {s \in Sinks : answer[s] = r}
        t == OrDefault(p[e])
    IN  [p EXCEPT ![e] = Finalized([t EXCEPT
            !.buffered_by = (@ \ {s \in Sinks : answer[s] # "Buffered"}) \cup With("Buffered"),
            !.delivered   = @ \/ With("Delivered") # {},
            !.unknown     = @ \/ With("Unknown") # {}])]

\* note_dequeued_record: the tracker after it, and the SendCompletion.
Dequeued(t) == [t EXCEPT !.queued = FALSE, !.in_flight = FALSE,
                         !.unknown_reported = @ \/ t.unknown]

note_dequeued_record(p, e) ==
    [p EXCEPT ![e] = IF @.present THEN Finalized(Dequeued(@)) ELSE @]

BecameUnknown(p, e) == p[e].present /\ p[e].unknown /\ ~p[e].unknown_reported
FinalLoss(p, e)     == p[e].present /\ IsFinalLoss(Dequeued(p[e]))

-----------------------------------------------------------------------------
(* Whole-map operations.  held[s] is a sample of the ids sink s buffers;   *)
(* gone is terminally_dropped_event_ids.                                   *)

\* An event that left a buffer since the last look counts as delivered.
SyncTracker(t, e, held, gone) ==
    LET now    == {s \in Sinks : e \in held[s]}
        before == IF now = {} THEN t ELSE [OrDefault(t) EXCEPT !.buffered_by = @ \cup now]
    IN  IF e \in gone \/ ~before.present THEN Absent
        ELSE [before EXCEPT !.buffered_by = @ \cap now,
                            !.delivered = @ \/ before.buffered_by \ now # {}]

sync_pending_records_with_buffers(p, held, gone) ==
    [e \in Events |-> SyncTracker(p[e], e, held, gone)]

\* refresh_pending_records_from_buffers and the first half of pending_event_ids.
refresh_pending_records_from_buffers(p, held, gone) ==
    [e \in Events |-> LET t == SyncTracker(p[e], e, held, gone)
                      IN  IF t.unknown THEN t ELSE Finalized(t)]

pending_event_ids(p) ==
    {e \in Events : p[e].queued \/ p[e].in_flight \/ p[e].buffered_by # {}}

\* mark_inflight_unknown: the deliveries an interrupted worker left open.
NewlyUnknown(p) == {e \in Events : p[e].in_flight /\ ~p[e].unknown_reported}

mark_inflight_unknown(p) ==
    [e \in Events |->
        IF p[e].in_flight
        THEN Finalized([p[e] EXCEPT !.in_flight = FALSE, !.unknown = TRUE, !.unknown_reported = TRUE])
        ELSE p[e]]

\* consume_unknown_sink_events: ids are what the sinks handed out.
ConsumedUnknown(p, ids, held, gone) ==
    LET q == sync_pending_records_with_buffers(p, held, gone)
    IN  {e \in ids \ gone : ~q[e].unknown_reported}

consume_unknown_sink_events(p, ids, held, gone) ==
    LET q == sync_pending_records_with_buffers(p, held, gone)
    IN  IF ids = {} THEN p
        ELSE [e \in Events |->
                IF e \in ids \ gone
                THEN Finalized([OrDefault(q[e]) EXCEPT !.queued = FALSE, !.in_flight = FALSE,
                                    !.unknown = TRUE, !.unknown_reported = TRUE])
                ELSE q[e]]

\* drop_queued_records: the ids it purges, the events it counts as lost and
\* the map it leaves behind.
QueuedIds(p, held, gone) ==
    LET q == sync_pending_records_with_buffers(p, held, gone) IN {e \in Events : q[e].queued}

Unqueued(t) == [t EXCEPT !.queued = FALSE, !.buffered_by = {}]

LostQueued(p, held, gone) ==
    LET q == sync_pending_records_with_buffers(p, held, gone)
    IN  {e \in Events : q[e].queued /\ IsFinalLoss(Unqueued(q[e]))}

drop_queued_records(p, held, gone) ==
    LET q == sync_pending_records_with_buffers(p, held, gone)
    IN  [e \in Events |-> IF q[e].queued THEN Finalized(Unqueued(q[e])) ELSE q[e]]

\* drop_pending_records empties the map; these are counted as lost.
CountsAsLoss(t) == ~t.in_flight /\ ~t.unknown /\ (t.queued \/ t.buffered_by # {})

LostPending(p, held, gone) ==
    LET q == sync_pending_records_with_buffers(p, held, gone)
    IN  {e \in Events : CountsAsLoss(q[e]) /\ ~q[e].delivered}
=============================================================================
