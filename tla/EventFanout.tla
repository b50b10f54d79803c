----------------------------- MODULE EventFanout -----------------------------
(***************************************************************************)
(* One event fanout used by several tasks (nettrap-distributed/src/        *)
(* fanout.rs, EventFanout).                                                *)
(*                                                                         *)
(* Producers queue records, the export worker sends them, a flusher (the   *)
(* worker, the supervisor or a flush caller) flushes the sinks and brings  *)
(* the trackers up to date, and an interrupter drops what a stopped worker *)
(* left behind.  The trackers change under the pending_records lock, but   *)
(* the ids the sinks buffer are sampled before that lock is taken, and the *)
(* sinks are purged after it is released: samples are stale when used.     *)
(*                                                                         *)
(* Sinks behave as SinkContract says, seen from outside: an event given to *)
(* a sink is answered with Delivered, Buffered, Lost or Unknown, and a     *)
(* flush resolves any part of what a buffering sink holds.                 *)
(***************************************************************************)
EXTENDS DeliveryTracker, Sequences

CONSTANTS
    BufferingSinks,   \* the sinks with a batch (HTTP)
    MaxTries,         \* times a producer queues one record: 2 in the code
    AllowInterrupt    \* the worker may be stopped with work under way

ASSUME FanoutAssumption == /\ BufferingSinks \subseteq Sinks
                           /\ MaxTries \in 1..2
                           /\ AllowInterrupt \in BOOLEAN

VARIABLES
    pending,     \* pending_records
    gone,        \* terminally_dropped_event_ids
    held,        \* [Sinks -> ids buffered]
    unk,         \* [Sinks -> ids take_unknown_event_ids would return]
    channel,     \* [Events -> "new" | "noted" | "queued" | "taken" | "refused"]: the worker's queue
    tries,       \* [Events -> times its producer queued it]
    worker,      \* [pc, ev, answer, left]: the record being sent
    flusher,     \* [pc, ids, sample]
    dropper,     \* [pc, ids, sample]
    accepted,    \* history: [Sinks -> events the remote side took]
    maybe,       \* history: events some sink could not tell the fate of
    lost,        \* history: [Events -> times counted as lost]
    reported,    \* history: events the fanout found unknown
    counted      \* history: events a caller added to export_unknown

sinkVars == <<held, unk, accepted, maybe>>
vars == <<pending, gone, sinkVars, channel, tries, worker, flusher, dropper, lost, reported, counted>>

Answers == {"Delivered", "Buffered", "Lost", "Unknown"}
None == "none"
Nothing == [s \in Sinks |-> {}]
Idle == [pc |-> "idle", ids |-> {}, sample |-> Nothing]
IdleWorker == [pc |-> "idle", ev |-> None, answer |-> [s \in Sinks |-> None], left |-> {}]

\* dead: stopped, nothing reconciled yet; cleared: its queue was dropped;
\* closing, closed: the same on the way to the end of the program.
Stopped == {"dead", "cleared", "closing", "closed"}

TypeOK ==
    /\ pending \in [Events -> Tracker]
    /\ \A e \in Events : ~pending[e].present => pending[e] = Absent
    /\ gone \subseteq Events
    /\ held \in [Sinks -> SUBSET Events] /\ \A s \in Sinks \ BufferingSinks : held[s] = {}
    /\ unk \in [Sinks -> SUBSET Events]
    /\ channel \in [Events -> {"new", "noted", "queued", "taken", "refused"}]
    /\ tries \in [Events -> 0..MaxTries]
    /\ worker \in [pc : {"idle", "sending", "answered", "applied"} \cup Stopped, ev : Events \cup {None},
                   answer : [Sinks -> Answers \cup {None}], left : SUBSET Sinks]
    /\ flusher \in [pc : {"idle", "taken", "sampled", "consumed", "resampled", "refreshed"},
                    ids : SUBSET Events, sample : [Sinks -> SUBSET Events]]
    /\ dropper \in [pc : {"idle", "queued", "pending", "purge", "forget"},
                    ids : SUBSET Events, sample : [Sinks -> SUBSET Events]]
    /\ accepted \in [Sinks -> SUBSET Events]
    /\ maybe \subseteq Events
    /\ lost \in [Events -> 0..3] /\ reported \subseteq Events /\ counted \subseteq Events

Init ==
    /\ pending = NoRecords
    /\ gone = {}
    /\ held = Nothing /\ unk = Nothing
    /\ channel = [e \in Events |-> "new"]
    /\ tries = [e \in Events |-> 0]
    /\ worker = IdleWorker
    /\ flusher = Idle
    /\ dropper = Idle
    /\ accepted = Nothing
    /\ maybe = {}
    /\ lost = [e \in Events |-> 0]
    /\ reported = {}
    /\ counted = {}

Add(f, E) == [e \in Events |-> f[e] + (IF e \in E THEN 1 ELSE 0)]

-----------------------------------------------------------------------------
(* Producers: note the record, then hand it to the worker's channel. *)

NoteQueued(e) ==
    /\ channel[e] = "new"
    /\ gone' = gone \ {e}
    /\ pending' = note_queued_record(pending, e)
    /\ channel' = [channel EXCEPT ![e] = "noted"]
    /\ tries' = [tries EXCEPT ![e] = @ + 1]
    /\ UNCHANGED <<sinkVars, worker, flusher, dropper, lost, reported, counted>>

\* try_send succeeds; or the channel is full and the record is refused; or it
\* is closed and the record is taken back and, once, noted again for the next
\* worker.
Enqueue(e) ==
    /\ channel[e] = "noted" /\ worker.pc \notin Stopped
    /\ channel' = [channel EXCEPT ![e] = "queued"]
    /\ UNCHANGED <<tries, pending, gone, sinkVars, worker, flusher, dropper, lost, reported, counted>>

Forget(e) ==
    /\ channel[e] = "noted"
    /\ pending' = forget_queued_record(pending, e)
    /\ channel' = [channel EXCEPT ![e] = IF worker.pc \in Stopped /\ tries[e] < MaxTries
                                        THEN "new" ELSE "refused"]
    /\ UNCHANGED <<tries, gone, sinkVars, worker, flusher, dropper, lost, reported, counted>>

-----------------------------------------------------------------------------
(* The export worker's handling of one record. *)

SendStarted(e) ==
    /\ worker.pc = "idle" /\ channel[e] = "queued"
    /\ channel' = [channel EXCEPT ![e] = "taken"]
    /\ pending' = note_send_started(pending, e)
    /\ worker' = [IdleWorker EXCEPT !.pc = "sending", !.ev = e, !.left = Sinks]
    /\ UNCHANGED <<tries, gone, sinkVars, flusher, dropper, lost, reported, counted>>

\* sink.send(event).await of one sink, and what it leaves in the sink.
SinkAnswers(s, a) ==
    LET e == worker.ev
    IN  /\ worker.pc = "sending" /\ s \in worker.left
        /\ a = "Buffered" => s \in BufferingSinks
        /\ worker' = [worker EXCEPT !.answer[s] = a, !.left = @ \ {s},
                                    !.pc = IF worker.left = {s} THEN "answered" ELSE @]
        /\ held' = IF a = "Buffered" THEN [held EXCEPT ![s] = @ \cup {e}] ELSE held
        /\ accepted' = IF a = "Delivered" THEN [accepted EXCEPT ![s] = @ \cup {e}] ELSE accepted
        /\ maybe' = IF a = "Unknown" THEN maybe \cup {e} ELSE maybe
        /\ UNCHANGED <<tries, pending, gone, unk, channel, flusher, dropper, lost, reported, counted>>

ApplyAnswers ==
    /\ worker.pc = "answered"
    /\ pending' = ApplySinkResults(pending, worker.ev, worker.answer)
    /\ worker' = [worker EXCEPT !.pc = "applied"]
    /\ UNCHANGED <<tries, gone, sinkVars, channel, flusher, dropper, lost, reported, counted>>

\* note_dequeued_record and the counters the worker then adds to.
SendFinished ==
    LET e == worker.ev
        newly == IF BecameUnknown(pending, e) THEN {e} ELSE {}
    IN  /\ worker.pc = "applied"
        /\ pending' = note_dequeued_record(pending, e)
        /\ lost' = Add(lost, IF FinalLoss(pending, e) THEN {e} ELSE {})
        /\ reported' = reported \cup newly
        /\ counted' = counted \cup newly
        /\ worker' = IdleWorker
        /\ UNCHANGED <<tries, gone, sinkVars, channel, flusher, dropper>>

-----------------------------------------------------------------------------
(* flush_all / flush_stale_batches, as every flusher runs them. *)

\* A flush of a buffering sink, by whichever task: some copies are taken, some
\* have an unknown fate, the refused ones stay.
SinkFlush(s) ==
    \E took \in SUBSET held[s] : \E open \in SUBSET (held[s] \ took) :
        /\ took \cup open # {}
        /\ held' = [held EXCEPT ![s] = @ \ (took \cup open)]
        /\ accepted' = [accepted EXCEPT ![s] = @ \cup took]
        /\ unk' = [unk EXCEPT ![s] = @ \cup open]
        /\ maybe' = maybe \cup open
        /\ UNCHANGED <<tries, pending, gone, channel, worker, flusher, dropper, lost, reported, counted>>

AllUnknown == UNION {unk[s] : s \in Sinks}

\* consume_unknown_sink_events takes the ids, samples the buffers, then locks.
TakeUnknown(from, to) ==
    /\ flusher.pc = from
    /\ flusher' = [flusher EXCEPT !.pc = to, !.ids = AllUnknown]
    /\ unk' = Nothing
    /\ UNCHANGED <<tries, pending, gone, held, accepted, maybe, channel, worker,
                   dropper, lost, reported, counted>>

SampleBuffers(from, to) ==
    /\ flusher.pc = from
    /\ flusher' = [flusher EXCEPT !.pc = to, !.sample = held]
    /\ UNCHANGED <<tries, pending, gone, sinkVars, channel, worker, dropper, lost, reported, counted>>

\* The first consume of a flush is flush_all's own, whose count nobody uses;
\* the second is the caller's, who adds it to export_unknown.
Consume ==
    LET newly == ConsumedUnknown(pending, flusher.ids, flusher.sample, gone)
    IN  /\ flusher.pc = "sampled"
        /\ pending' = consume_unknown_sink_events(pending, flusher.ids, flusher.sample, gone)
        /\ reported' = reported \cup newly
        /\ flusher' = [Idle EXCEPT !.pc = "consumed"]
        /\ UNCHANGED <<tries, gone, sinkVars, channel, worker, dropper, lost, counted>>

Refresh ==
    /\ flusher.pc = "resampled"
    /\ pending' = refresh_pending_records_from_buffers(pending, flusher.sample, gone)
    /\ flusher' = [Idle EXCEPT !.pc = "refreshed"]
    /\ UNCHANGED <<tries, gone, sinkVars, channel, worker, dropper, lost, reported, counted>>

CallerConsume ==
    LET newly == ConsumedUnknown(pending, AllUnknown, held, gone)
    IN  /\ flusher.pc = "refreshed"
        /\ pending' = consume_unknown_sink_events(pending, AllUnknown, held, gone)
        /\ unk' = Nothing
        /\ reported' = reported \cup newly
        /\ counted' = counted \cup newly
        /\ flusher' = Idle
        /\ UNCHANGED <<tries, gone, held, accepted, maybe, channel, worker, dropper, lost>>

flush_all ==
    \/ TakeUnknown("idle", "taken")
    \/ SampleBuffers("taken", "sampled")
    \/ Consume
    \/ SampleBuffers("consumed", "resampled")
    \/ Refresh
    \/ CallerConsume

-----------------------------------------------------------------------------
(* A stopped worker: its channel is gone, its send is never finished. *)

WorkerStops ==
    /\ AllowInterrupt
    /\ worker.pc \in {"idle", "sending"}
    /\ worker' = [IdleWorker EXCEPT !.pc = "dead"]
    /\ channel' = [e \in Events |-> IF channel[e] = "queued" THEN "taken" ELSE channel[e]]
    /\ UNCHANGED <<tries, pending, gone, sinkVars, flusher, dropper, lost, reported, counted>>

\* drop_queued_records (kind "queued") when a worker has to be replaced,
\* drop_pending_records (kind "pending") when the program ends.  The first one
\* also runs beside a live worker, after a flush that timed out: that is
\* reconciled in ExportPipeline, where the trackers' methods are atomic.
DropSample(kind) ==
    /\ dropper.pc = "idle" /\ worker.pc = IF kind = "queued" THEN "dead" ELSE "closing"
    /\ dropper' = [Idle EXCEPT !.pc = kind, !.sample = held]
    /\ UNCHANGED <<tries, pending, gone, sinkVars, channel, worker, flusher, lost, reported, counted>>

\* Mutant: the queue drop does not count what it takes away.
DropQueued_mutant ==
    LET ids == QueuedIds(pending, dropper.sample, gone)
    IN  /\ dropper.pc = "queued"
        /\ pending' = drop_queued_records(pending, dropper.sample, gone)
        /\ gone' = gone \cup ids
        /\ dropper' = [Idle EXCEPT !.pc = "purge", !.ids = ids]
        /\ UNCHANGED <<tries, sinkVars, channel, worker, flusher, lost, reported, counted>>

DropQueued ==
    LET ids == QueuedIds(pending, dropper.sample, gone)
    IN  /\ dropper.pc = "queued"
        /\ pending' = drop_queued_records(pending, dropper.sample, gone)
        /\ lost' = Add(lost, LostQueued(pending, dropper.sample, gone))
        /\ gone' = gone \cup ids
        /\ dropper' = [Idle EXCEPT !.pc = "purge", !.ids = ids]
        /\ UNCHANGED <<tries, sinkVars, channel, worker, flusher, reported, counted>>

DropPending ==
    LET q == sync_pending_records_with_buffers(pending, dropper.sample, gone)
    IN  /\ dropper.pc = "pending"
        /\ pending' = NoRecords
        /\ lost' = Add(lost, LostPending(pending, dropper.sample, gone))
        /\ gone' = gone \cup {e \in Events : CountsAsLoss(q[e])}
        /\ dropper' = [Idle EXCEPT !.pc = "purge", !.ids = {e \in Events : q[e].present}]
        /\ UNCHANGED <<tries, sinkVars, channel, worker, flusher, reported, counted>>

purge_buffered_events ==
    /\ dropper.pc = "purge"
    /\ held' = [s \in Sinks |-> held[s] \ dropper.ids]
    /\ unk' = [s \in Sinks |-> unk[s] \ dropper.ids]
    /\ dropper' = [dropper EXCEPT !.pc = "forget"]
    /\ UNCHANGED <<tries, pending, gone, accepted, maybe, channel, worker, flusher, lost, reported, counted>>

forget_terminally_dropped_ids ==
    /\ dropper.pc = "forget"
    /\ gone' = gone \ dropper.ids
    /\ dropper' = Idle
    /\ worker' = [worker EXCEPT !.pc = IF @ = "dead" THEN "cleared" ELSE "closed"]
    /\ UNCHANGED <<tries, pending, sinkVars, channel, flusher, lost, reported, counted>>

\* mark_inflight_unknown: after the queue was dropped, and a new worker is
\* started; or before the final flush of finalize_distributed_shutdown.
MarkInflight ==
    /\ worker.pc \in {"dead", "cleared"} /\ dropper.pc = "idle"
    /\ pending' = mark_inflight_unknown(pending)
    /\ reported' = reported \cup NewlyUnknown(pending)
    /\ counted' = counted \cup NewlyUnknown(pending)
    /\ maybe' = maybe \cup {e \in Events : pending[e].in_flight}
    /\ worker' = IF worker.pc = "cleared" THEN IdleWorker ELSE [worker EXCEPT !.pc = "closing"]
    /\ UNCHANGED <<tries, gone, held, unk, accepted, channel, flusher, dropper, lost>>

interrupt ==
    \/ WorkerStops
    \/ \E kind \in {"queued", "pending"} : DropSample(kind)
    \/ DropQueued \/ DropPending
    \/ purge_buffered_events \/ forget_terminally_dropped_ids
    \/ MarkInflight

-----------------------------------------------------------------------------
Next ==
    \/ \E e \in Events : NoteQueued(e) \/ Enqueue(e) \/ Forget(e) \/ SendStarted(e)
    \/ \E s \in Sinks, a \in Answers : SinkAnswers(s, a)
    \/ ApplyAnswers \/ SendFinished
    \/ \E s \in BufferingSinks : SinkFlush(s)
    \/ flush_all
    \/ interrupt

Spec == Init /\ [][Next]_vars

-----------------------------------------------------------------------------
(* Properties *)

InSink(e) == \E s \in Sinks : e \in held[s] \cup unk[s]
Taken(e)  == \E s \in Sinks : e \in accepted[s]
Settled   == worker.pc \in {"idle", "closed"} /\ flusher = Idle /\ dropper = Idle

\* The event is in the hands of a sink, was taken by the remote side, or was
\* reported, as lost or as unknown.
AccountedFor(e) == InSink(e) \/ Taken(e) \/ lost[e] > 0 \/ e \in reported

\* As long as the program runs, and no method is half done, every event a worker
\* ever took is accounted for: stale samples, a queue dropped under a worker's
\* feet and concurrent flushes make no event vanish.
NothingVanishes ==
    Settled /\ worker.pc = "idle" =>
        \A e \in Events : channel[e] = "taken" => AccountedFor(e)

\* The worker reports a loss only for an event that no sink took, holds or
\* may have delivered.
FinalLossIsReal ==
    [][\A e \in Events :
          worker.pc = "applied" /\ lost'[e] > lost[e]
              => ~Taken(e) /\ ~InSink(e) /\ e \notin maybe]_vars

\* worker_ctl.rs "distributed export flush left delivery state unknown": what
\* the fanout finds unknown reaches the caller's counter.  flush_all throws
\* the number away, so the caller's own consume finds nothing.
UnknownIsCounted ==
    Settled => \A e \in Events : e \in reported => e \in counted

\* An event handed to the fanout stays with a tracker, a sink or a counter until
\* its fate is known, and the trackers stay well formed.
EventsKept == TypeOK /\ NothingVanishes
=============================================================================
