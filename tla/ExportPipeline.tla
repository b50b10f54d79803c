--------------------------- MODULE ExportPipeline ---------------------------
(***************************************************************************)
(* The export half of the NBI collector (nettrap-cli/src/nbi.rs and        *)
(* nbi/worker_ctl.rs, nbi/fanout.rs, nbi/worker.rs) around one fanout.     *)
(*                                                                         *)
(* Connection tasks record events into the export worker's bounded channel *)
(* and restart the worker when it is gone; the worker sends them through   *)
(* the fanout; the supervisor looks for a finished worker and flushes      *)
(* stale batches; the shutdown code flushes twice, asks the worker to      *)
(* stop, aborts it when it does not answer, and counts what is left.  The  *)
(* depth counter `queued`, the fanout's trackers and the channel are three *)
(* views of the same backlog, each updated on its own.                     *)
(*                                                                         *)
(* The fanout is DeliveryTracker's with one buffering sink and its methods *)
(* atomic (EventFanout opens them up).                                     *)
(***************************************************************************)
EXTENDS DeliveryTracker, Sequences

CONSTANTS
    Ctl, Sup,       \* the shutdown code and the supervisor
    Capacity,       \* NBI_EXPORT_QUEUE_CAPACITY
    UsizeModulus,   \* queued is an AtomicUsize and wraps
    MaxCrashes,     \* bound: times the worker panics
    LateRecords,    \* connection tasks may still be inside record when shutdown starts
    AllowTimeout    \* the worker may take longer than NBI_EXPORT_OPERATION_TIMEOUT_MS

Nobody == "nobody"
NoEvent == "no event"
Actors == Events \cup {Ctl, Sup}
s1 == CHOOSE s \in Sinks : TRUE

\* waitN: the command of that name was sent and its answer is awaited.
Commands == {"wait1", "wait2", "wait3"}

ASSUME PipelineAssumption ==
    /\ IsFiniteSet(Events) /\ Sinks = {s1}
    /\ Capacity \in Nat \ {0}
    /\ UsizeModulus \in Nat /\ UsizeModulus > Cardinality(Events) + 1
    /\ MaxCrashes \in Nat /\ AllowTimeout \in BOOLEAN /\ LateRecords \in BOOLEAN
    /\ Ctl # Sup /\ {Ctl, Sup} \cap Events = {}
    /\ Actors \cap (Commands \cup {Nobody, NoEvent}) = {}

VARIABLES
    pending, held,      \* the fanout's trackers, the sink's buffer
    queued,             \* export_worker.queued
    chan,               \* the channel: events and Commands
    alive,              \* the worker task runs (its receiver is open)
    handle,             \* export_worker.handle is Some
    lock,               \* who holds the handle lock over several steps
    wk,                 \* [pc, ev] of the worker
    pc,                 \* per actor: a producer per event, Ctl, Sup
    tries,              \* per producer: try_send attempts made
    rc,                 \* per actor: reconcile_export_worker_interruption under way
    ack,                \* the answer to the flush or shutdown command
    timed_out,          \* shutdown_timed_out
    crashes,
    dropped, unknown, rejected,   \* export_dropped, export_unknown, export_rejected
    accepted, maybe               \* history: taken by the server; fate open

fanVars  == <<pending, held, accepted, maybe>>
slotVars == <<chan, alive, handle, lock>>
cntVars  == <<dropped, unknown, rejected>>
vars == <<fanVars, queued, slotVars, wk, pc, tries, rc, ack, timed_out, crashes, cntVars>>

IdleWorker == [pc |-> "idle", ev |-> NoEvent]
NotReconciling == [step |-> "none", lost |-> 0]

ProducerPc == {"new", "ensure", "spawn", "note", "count", "send", "full", "closed", "done"}

ControllerPc == Commands \cup
    {"run", "ensure1", "spawn1", "flush1", "fallback1", "ensure2", "spawn2", "flush2", "fallback2",
     "stop", "mark", "take", "join", "fallback3", "swap", "drop", "halt", "stopped"}

TypeOK ==
    /\ pending \in [Events -> Tracker] /\ held \in [Sinks -> SUBSET Events]
    /\ queued \in 0..(UsizeModulus - 1)
    /\ Len(chan) <= Capacity
    /\ \A i \in 1..Len(chan) : chan[i] \in Events \cup Commands
    /\ ~alive => chan = <<>> /\ wk = IdleWorker
    /\ handle \in BOOLEAN /\ lock \in Actors \cup {Nobody}
    /\ wk \in [pc : {"idle", "count", "send", "command"}, ev : Events \cup Commands \cup {NoEvent}]
    /\ \A e \in Events : pc[e] \in ProducerPc /\ tries[e] \in 0..2
    /\ pc[Ctl] \in ControllerPc /\ pc[Sup] \in {"run", "stopped"}
    /\ \A a \in Actors : rc[a].step \in {"none", "swap", "drop", "mark"}
    /\ ack \in {"none", "waiting", "ok", "err", "gone"}
    /\ timed_out \in BOOLEAN
    /\ crashes \in 0..MaxCrashes
    /\ accepted \subseteq Events /\ maybe \subseteq Events

Init ==
    /\ pending = NoRecords /\ held = [s \in Sinks |-> {}]
    /\ queued = 0
    /\ chan = <<>> /\ alive = FALSE /\ handle = FALSE /\ lock = Nobody
    /\ wk = IdleWorker
    /\ pc = [a \in Actors |-> IF a \in Events THEN "new" ELSE "run"]
    /\ tries = [e \in Events |-> 0]
    /\ rc = [a \in Actors |-> NotReconciling]
    /\ ack = "none" /\ timed_out = FALSE /\ crashes = 0
    /\ dropped = 0 /\ unknown = 0 /\ rejected = 0
    /\ accepted = {} /\ maybe = {}

Goto(a, label) == pc' = [pc EXCEPT ![a] = label]

\* fetch_add and fetch_sub of an AtomicUsize.
Inc(n) == (n + 1) % UsizeModulus
Dec(n) == (n + UsizeModulus - 1) % UsizeModulus

\* atomic_fetch_add_saturating; the ceiling stands for u64::MAX.
Saturating(n, k) == IF n + k > 2 * UsizeModulus THEN 2 * UsizeModulus ELSE n + k

-----------------------------------------------------------------------------
(* reconcile_export_worker_interruption inside note_export_worker_restart:  *)
(* read and clear the depth, drop the queued records, mark the open sends.  *)

StartReconcile(a) == rc' = [rc EXCEPT ![a] = [step |-> "swap", lost |-> 0]]

Ready(a) == rc[a].step = "none"

ReconcileSwap(a) ==
    /\ rc[a].step = "swap"
    /\ rc' = [rc EXCEPT ![a] = [step |-> "drop", lost |-> queued]]
    /\ queued' = 0
    /\ UNCHANGED <<fanVars, slotVars, wk, pc, tries, ack, timed_out, crashes, cntVars>>

ReconcileDrop(a) ==
    /\ rc[a].step = "drop"
    /\ rc' = [rc EXCEPT ![a].step = "mark",
                        ![a].lost = @ + Cardinality(LostQueued(pending, held, {}))]
    /\ pending' = drop_queued_records(pending, held, {})
    /\ held' = [s \in Sinks |-> held[s] \ QueuedIds(pending, held, {})]
    /\ UNCHANGED <<queued, slotVars, wk, pc, tries, ack, timed_out, crashes, cntVars, accepted, maybe>>

\* mark_inflight_unknown, then the counters.
ReconcileMark(a) ==
    /\ rc[a].step = "mark"
    /\ pending' = mark_inflight_unknown(pending)
    /\ dropped' = Saturating(dropped, rc[a].lost)
    /\ unknown' = Saturating(unknown, Cardinality(NewlyUnknown(pending)))
    /\ rc' = [rc EXCEPT ![a] = NotReconciling]
    /\ UNCHANGED <<held, queued, slotVars, wk, pc, tries, ack, timed_out, crashes, rejected, accepted, maybe>>

reconcile_export_worker_interruption(a) == ReconcileSwap(a) \/ ReconcileDrop(a) \/ ReconcileMark(a)

-----------------------------------------------------------------------------
(* ensure_export_worker_started: the handle lock is held while a finished   *)
(* worker is reconciled and replaced.                                       *)

EnsureRunning(a, next) ==
    /\ lock = Nobody /\ handle /\ alive
    /\ Goto(a, next)
    /\ UNCHANGED <<fanVars, queued, slotVars, wk, tries, rc, ack, timed_out, crashes, cntVars>>

EnsureFinished(a, spawn) ==
    /\ lock = Nobody /\ handle /\ ~alive
    /\ handle' = FALSE /\ lock' = a
    /\ StartReconcile(a)
    /\ Goto(a, spawn)
    /\ UNCHANGED <<fanVars, queued, chan, alive, wk, tries, ack, timed_out, crashes, cntVars>>

EnsureAbsent(a, spawn) ==
    /\ lock = Nobody /\ ~handle /\ ~alive
    /\ lock' = a
    /\ Goto(a, spawn)
    /\ UNCHANGED <<fanVars, queued, chan, alive, handle, wk, tries, rc, ack, timed_out, crashes, cntVars>>

\* ensure_receiver makes a new channel, and the worker is spawned on it.
Spawn(a, next) ==
    /\ lock = a /\ Ready(a)
    /\ chan' = <<>> /\ alive' = TRUE /\ handle' = TRUE /\ lock' = Nobody
    /\ wk' = IdleWorker
    /\ Goto(a, next)
    /\ UNCHANGED <<fanVars, queued, tries, rc, ack, timed_out, crashes, cntVars>>

ensure_export_worker_started(a, spawn, next) ==
    EnsureRunning(a, next) \/ EnsureFinished(a, spawn) \/ EnsureAbsent(a, spawn)

-----------------------------------------------------------------------------
(* enqueue_export_record, by the connection task of event e. *)

\* Records are taken until the listeners are stopped.
EnsureWorker(e) ==
    /\ Ready(e)
    /\ \/ pc[e] = "new" /\ pc[Ctl] = "run"
       \/ pc[e] = "ensure"
    /\ ensure_export_worker_started(e, "spawn", "note")

SpawnWorker(e) == pc[e] = "spawn" /\ Spawn(e, "note")

NoteQueued(e) ==
    /\ pc[e] = "note"
    /\ pending' = note_queued_record(pending, e)
    /\ Goto(e, "count")
    /\ UNCHANGED <<held, accepted, maybe, queued, slotVars, wk, tries, rc, ack, timed_out, crashes, cntVars>>

CountQueued(e) ==
    /\ pc[e] = "count"
    /\ queued' = Inc(queued)
    /\ Goto(e, "send")
    /\ UNCHANGED <<fanVars, slotVars, wk, tries, rc, ack, timed_out, crashes, cntVars>>

\* Mutant: one record too many is let into the channel.
TrySend_mutant(e) ==
    /\ pc[e] = "send"
    /\ tries' = [tries EXCEPT ![e] = @ + 1]
    /\ IF alive /\ Len(chan) <= Capacity
       THEN chan' = Append(chan, e) /\ Goto(e, "done")
       ELSE chan' = chan /\ Goto(e, IF alive THEN "full" ELSE "closed")
    /\ UNCHANGED <<fanVars, queued, alive, handle, lock, wk, rc, ack, timed_out, crashes, cntVars>>

TrySend(e) ==
    /\ pc[e] = "send"
    /\ tries' = [tries EXCEPT ![e] = @ + 1]
    /\ IF alive /\ Len(chan) < Capacity
       THEN chan' = Append(chan, e) /\ Goto(e, "done")
       ELSE chan' = chan /\ Goto(e, IF alive THEN "full" ELSE "closed")
    /\ UNCHANGED <<fanVars, queued, alive, handle, lock, wk, rc, ack, timed_out, crashes, cntVars>>

\* fetch_sub and forget_queued_record.
TakeBack(e) ==
    /\ queued' = Dec(queued)
    /\ pending' = forget_queued_record(pending, e)
    /\ UNCHANGED <<held, accepted, maybe, slotVars, wk, tries, ack, timed_out, crashes, dropped, unknown>>

GiveUp(e) ==
    /\ pc[e] = "full" \/ (pc[e] = "closed" /\ tries[e] = 2)
    /\ TakeBack(e)
    /\ rejected' = rejected + 1
    /\ Goto(e, "done")
    /\ UNCHANGED rc

Retry(e) ==
    /\ pc[e] = "closed" /\ tries[e] = 1
    /\ TakeBack(e)
    /\ StartReconcile(e)
    /\ Goto(e, "ensure")
    /\ UNCHANGED rejected

enqueue_export_record(e) ==
    \/ EnsureWorker(e) \/ SpawnWorker(e) \/ NoteQueued(e) \/ CountQueued(e)
    \/ TrySend(e) \/ GiveUp(e) \/ Retry(e)
    \/ reconcile_export_worker_interruption(e)

-----------------------------------------------------------------------------
(* flush_all of the fanout, then the caller's consume_unknown_sink_events,  *)
(* which finds nothing left to count.                                       *)

FlushFanout(took, open) ==
    LET after == [held EXCEPT ![s1] = @ \ (took \cup open)]
    IN  /\ held' = after
        /\ accepted' = accepted \cup took
        /\ maybe' = maybe \cup open
        /\ pending' = refresh_pending_records_from_buffers(
                          consume_unknown_sink_events(pending, open, after, {}), after, {})

flush_all == \E took \in SUBSET held[s1] : \E open \in SUBSET (held[s1] \ took) : FlushFanout(took, open)

-----------------------------------------------------------------------------
(* run_export_worker *)

WorkerReceives ==
    LET c == Head(chan)
    IN  /\ alive /\ wk.pc = "idle" /\ chan # <<>>
        /\ chan' = Tail(chan)
        /\ wk' = [pc |-> IF c \in Events THEN "count" ELSE "command", ev |-> c]
        /\ pending' = IF c \in Events THEN note_send_started(pending, c) ELSE pending
        /\ UNCHANGED <<held, accepted, maybe, queued, alive, handle, lock, pc, tries, rc, ack,
                       timed_out, crashes, cntVars>>

WorkerUncounts ==
    /\ wk.pc = "count"
    /\ queued' = Dec(queued)
    /\ wk' = [wk EXCEPT !.pc = "send"]
    /\ UNCHANGED <<fanVars, slotVars, pc, tries, rc, ack, timed_out, crashes, cntVars>>

\* fanout.send, note_dequeued_record and the counters.
WorkerSends(answer) ==
    LET e == wk.ev
        applied == ApplySinkResults(pending, e, [s \in Sinks |-> answer])
    IN  /\ wk.pc = "send"
        /\ held' = IF answer = "Buffered" THEN [held EXCEPT ![s1] = @ \cup {e}] ELSE held
        /\ accepted' = IF answer = "Delivered" THEN accepted \cup {e} ELSE accepted
        /\ maybe' = IF answer = "Unknown" THEN maybe \cup {e} ELSE maybe
        /\ pending' = note_dequeued_record(applied, e)
        /\ dropped' = Saturating(dropped, IF FinalLoss(applied, e) THEN 1 ELSE 0)
        /\ unknown' = Saturating(unknown, IF BecameUnknown(applied, e) THEN 1 ELSE 0)
        /\ wk' = IdleWorker
        /\ UNCHANGED <<queued, slotVars, pc, tries, rc, ack, timed_out, crashes, rejected>>

\* The answer reaches the caller only while it still waits for this command.
Answer(c, a) == ack' = IF pc[Ctl] = c THEN a ELSE ack

WorkerFlushes ==
    /\ wk.pc = "command" /\ wk.ev # "wait3"
    /\ flush_all
    /\ Answer(wk.ev, IF accepted' = accepted \cup held[s1] THEN "ok" ELSE "err")
    /\ wk' = IdleWorker
    /\ UNCHANGED <<queued, slotVars, pc, tries, rc, timed_out, crashes, cntVars>>

\* Mutant: the loop is not left.
WorkerStops_mutant ==
    /\ wk.pc = "command" /\ wk.ev = "wait3"
    /\ flush_all
    /\ Answer(wk.ev, "ok")
    /\ wk' = IdleWorker
    /\ UNCHANGED <<queued, slotVars, pc, tries, rc, timed_out, crashes, cntVars>>

\* Shutdown: flush, acknowledge, leave the loop.
WorkerStops ==
    /\ wk.pc = "command" /\ wk.ev = "wait3"
    /\ flush_all
    /\ Answer(wk.ev, "ok")
    /\ alive' = FALSE /\ chan' = <<>> /\ wk' = IdleWorker
    /\ UNCHANGED <<queued, handle, lock, pc, tries, rc, timed_out, crashes, cntVars>>

\* The task is gone with its channel; a send under way may have arrived.
WorkerEnds ==
    /\ alive' = FALSE /\ chan' = <<>> /\ wk' = IdleWorker
    /\ maybe' = maybe \cup (IF wk.pc = "send" THEN {wk.ev} ELSE {})
    /\ ack' = IF ack = "waiting" /\ (wk.ev = pc[Ctl] \/ \E i \in 1..Len(chan) : chan[i] = pc[Ctl])
              THEN "gone" ELSE ack

WorkerPanics ==
    /\ alive /\ crashes < MaxCrashes /\ wk.pc \in {"send", "command"}
    /\ crashes' = crashes + 1
    /\ WorkerEnds
    /\ UNCHANGED <<pending, held, accepted, queued, handle, lock, pc, tries, rc, timed_out, cntVars>>

run_export_worker ==
    \/ WorkerReceives \/ WorkerUncounts
    \/ \E answer \in {"Delivered", "Buffered", "Lost", "Unknown"} : WorkerSends(answer)
    \/ WorkerFlushes \/ WorkerStops

-----------------------------------------------------------------------------
(* run_worker_supervisor *)

check_export_worker_exit ==
    /\ pc[Sup] = "run" /\ Ready(Sup) /\ lock = Nobody
    /\ handle /\ ~alive
    /\ handle' = FALSE
    /\ StartReconcile(Sup)
    /\ UNCHANGED <<fanVars, queued, chan, alive, lock, wk, pc, tries, ack, timed_out, crashes, cntVars>>

flush_stale_batches ==
    /\ pc[Sup] = "run" /\ Ready(Sup) /\ held[s1] # {}
    /\ flush_all
    /\ UNCHANGED <<queued, slotVars, wk, pc, tries, rc, ack, timed_out, crashes, cntVars>>

run_worker_supervisor ==
    \/ check_export_worker_exit \/ flush_stale_batches
    \/ reconcile_export_worker_interruption(Sup)

-----------------------------------------------------------------------------
(* execute_shutdown: flush_all_pending, finalize_distributed_shutdown (which *)
(* flushes once more), stop_background_tasks.                                *)

\* A step of the shutdown code that touches nothing but its own position.
At(label) == pc[Ctl] = label /\ Ready(Ctl)

BeginShutdown ==
    /\ At("run")
    /\ LateRecords \/ \A e \in Events : pc[e] \in {"new", "done"} /\ Ready(e)
    /\ Goto(Ctl, "ensure1")
    /\ UNCHANGED <<fanVars, queued, slotVars, wk, tries, rc, ack, timed_out, crashes, cntVars>>

\* sender().send(command).await waits for room; it fails when the receiver is gone.
SendCommand(c) ==
    /\ alive /\ Len(chan) < Capacity
    /\ chan' = Append(chan, c)
    /\ ack' = "waiting"
    /\ Goto(Ctl, c)
    /\ UNCHANGED <<fanVars, queued, alive, handle, lock, wk, tries, rc, timed_out, crashes, cntVars>>

CommandRefused(next) ==
    /\ ~alive
    /\ StartReconcile(Ctl)
    /\ Goto(Ctl, next)
    /\ UNCHANGED <<fanVars, queued, slotVars, wk, tries, ack, timed_out, crashes, cntVars>>

Acknowledged(next) ==
    /\ ack = "ok" /\ ack' = "none"
    /\ Goto(Ctl, next)
    /\ UNCHANGED <<fanVars, queued, slotVars, wk, tries, rc, timed_out, crashes, cntVars>>

\* The flush failed, its answer was lost with the worker, or it came too late:
\* note_export_worker_restart in all three cases.
NotAcknowledged(next) ==
    /\ ack \in {"err", "gone"} \/ (AllowTimeout /\ ack = "waiting" /\ pc[Ctl] # "wait3")
    /\ ack' = "none"
    /\ StartReconcile(Ctl)
    /\ Goto(Ctl, next)
    /\ UNCHANGED <<fanVars, queued, slotVars, wk, tries, timed_out, crashes, cntVars>>

FallbackFlush(next) ==
    /\ flush_all
    /\ Goto(Ctl, next)
    /\ UNCHANGED <<queued, slotVars, wk, tries, rc, ack, timed_out, crashes, cntVars>>

flush_distributed(ensure, spawn, flush, wait, fallback, next) ==
    \/ At(ensure) /\ ensure_export_worker_started(Ctl, spawn, flush)
    \/ pc[Ctl] = spawn /\ Spawn(Ctl, flush)
    \/ At(flush) /\ (SendCommand(wait) \/ CommandRefused(fallback))
    \/ At(wait) /\ (Acknowledged(next) \/ NotAcknowledged(next))
    \/ At(fallback) /\ FallbackFlush(next)

AskToStop ==
    /\ At("stop") /\ lock = Nobody
    /\ \/ handle /\ (SendCommand("wait3") \/ CommandRefused("take"))
       \/ ~handle /\ Goto(Ctl, "take")
          /\ UNCHANGED <<fanVars, queued, slotVars, wk, tries, rc, ack, timed_out, crashes, cntVars>>

\* shutdown_timed_out: the handle's owner goes on without an answer.
StopTimesOut ==
    /\ At("wait3") /\ AllowTimeout /\ ack = "waiting"
    /\ timed_out' = TRUE
    /\ Goto(Ctl, "mark")
    /\ UNCHANGED <<fanVars, queued, slotVars, wk, tries, rc, ack, crashes, cntVars>>

MarkInflight ==
    /\ At("mark")
    /\ pending' = mark_inflight_unknown(pending)
    /\ unknown' = Saturating(unknown, Cardinality(NewlyUnknown(pending)))
    /\ Goto(Ctl, "take")
    /\ UNCHANGED <<held, accepted, maybe, queued, slotVars, wk, tries, rc, ack, timed_out, crashes,
                   dropped, rejected>>

\* Mutant: the handle is dropped without abort and without join.
TakeHandle_mutant ==
    /\ At("take") /\ lock = Nobody
    /\ handle' = FALSE
    /\ Goto(Ctl, "fallback3")
    /\ UNCHANGED <<fanVars, alive, chan, wk, ack, queued, lock, tries, rc, timed_out, crashes, cntVars>>

\* handle.take(), and abort() when the worker did not answer: it ends at the
\* await it is in.
TakeHandle ==
    /\ At("take") /\ lock = Nobody
    /\ handle' = FALSE
    /\ Goto(Ctl, IF handle THEN "join" ELSE "fallback3")
    /\ IF handle /\ timed_out
       THEN wk.pc # "count" /\ WorkerEnds
       ELSE UNCHANGED <<alive, chan, wk, maybe, ack>>
    /\ UNCHANGED <<pending, held, accepted, queued, lock, tries, rc, timed_out, crashes, cntVars>>

\* handle.await; without an acknowledgement the shutdown code flushes itself.
Join ==
    /\ At("join") /\ ~alive
    /\ Goto(Ctl, IF ack = "ok" THEN "swap" ELSE "fallback3")
    /\ UNCHANGED <<fanVars, queued, slotVars, wk, tries, rc, ack, timed_out, crashes, cntVars>>

\* lost_from_queue, then drop_pending_records and the counter.
SwapQueued ==
    /\ At("swap")
    /\ queued' = 0
    /\ rc' = [rc EXCEPT ![Ctl].lost = queued]
    /\ Goto(Ctl, "drop")
    /\ UNCHANGED <<fanVars, slotVars, wk, tries, ack, timed_out, crashes, cntVars>>

\* Mutant: what the fanout still held is not counted.
DropPending_mutant ==
    /\ At("drop")
    /\ dropped' = Saturating(dropped, rc[Ctl].lost)
    /\ pending' = NoRecords
    /\ held' = [s \in Sinks |-> {}]
    /\ rc' = [rc EXCEPT ![Ctl] = NotReconciling]
    /\ Goto(Ctl, "halt")
    /\ UNCHANGED <<accepted, maybe, queued, slotVars, wk, tries, ack, timed_out, crashes, unknown, rejected>>

DropPending ==
    /\ At("drop")
    /\ dropped' = Saturating(dropped, rc[Ctl].lost + Cardinality(LostPending(pending, held, {})))
    /\ pending' = NoRecords
    /\ held' = [s \in Sinks |-> {}]
    /\ rc' = [rc EXCEPT ![Ctl] = NotReconciling]
    /\ Goto(Ctl, "halt")
    /\ UNCHANGED <<accepted, maybe, queued, slotVars, wk, tries, ack, timed_out, crashes, unknown, rejected>>

stop_background_tasks ==
    /\ At("halt") /\ Ready(Sup)
    /\ pc' = [pc EXCEPT ![Ctl] = "stopped", ![Sup] = "stopped"]
    /\ UNCHANGED <<fanVars, queued, slotVars, wk, tries, rc, ack, timed_out, crashes, cntVars>>

finalize_distributed_shutdown ==
    \/ flush_distributed("ensure2", "spawn2", "flush2", "wait2", "fallback2", "stop")
    \/ AskToStop
    \/ At("wait3") /\ ack = "ok" /\ Goto(Ctl, "take")
       /\ UNCHANGED <<fanVars, queued, slotVars, wk, tries, rc, ack, timed_out, crashes, cntVars>>
    \/ At("wait3") /\ NotAcknowledged("take")
    \/ StopTimesOut \/ MarkInflight \/ TakeHandle \/ Join
    \/ At("fallback3") /\ FallbackFlush("swap")
    \/ SwapQueued \/ DropPending

execute_shutdown ==
    \/ flush_distributed("ensure1", "spawn1", "flush1", "wait1", "fallback1", "ensure2")
    \/ finalize_distributed_shutdown
    \/ stop_background_tasks
    \/ reconcile_export_worker_interruption(Ctl)

-----------------------------------------------------------------------------
Next ==
    \/ \E e \in Events : enqueue_export_record(e)
    \/ run_export_worker \/ WorkerPanics
    \/ run_worker_supervisor
    \/ BeginShutdown \/ execute_shutdown

Spec == Init /\ [][Next]_vars

\* Tasks that can run do run; a sink answers in the end (every request has a
\* timeout); the shutdown, once begun, is not abandoned.  The supervisor's
\* flushes, the panics and the timeouts are never assumed.
Fairness ==
    /\ WF_vars(run_export_worker)
    /\ WF_vars(execute_shutdown)
    /\ WF_vars(reconcile_export_worker_interruption(Sup))
    /\ \A e \in Events : WF_vars(pc[e] # "new" /\ enqueue_export_record(e))

LiveSpec == Spec /\ Fairness

-----------------------------------------------------------------------------
(* Properties *)

AllDone ==
    /\ pc[Ctl] = "stopped"
    /\ \A e \in Events : pc[e] \in {"new", "done"} /\ Ready(e)

\* The recorded events that certainly never arrived.
Lost == {e \in Events : pc[e] = "done" /\ e \notin accepted \cup maybe}

\* At the end the counters account for at least the events that were lost: no
\* panic, timeout, restart or full queue loses an event without a trace.
NoSilentLoss == AllDone => Cardinality(Lost) <= dropped + rejected + unknown

\* After execute_shutdown no worker runs, nobody's command or record is left
\* in a channel, and the fanout holds nothing.
CleanStop ==
    AllDone => ~alive /\ chan = <<>> /\ pending = NoRecords /\ held[s1] = {}

\* The shutdown comes to its end, whatever the worker is doing when it starts.
ShutdownCompletes == (pc[Ctl] # "run") ~> (pc[Ctl] = "stopped")
=============================================================================
