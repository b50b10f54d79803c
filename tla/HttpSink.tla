------------------------------ MODULE HttpSink ------------------------------
(***************************************************************************)
(* The batching HTTP sink (nettrap-distributed/src/sinks.rs, HttpSink).    *)
(*                                                                         *)
(* The export worker sends, the supervisor flushes stale batches, and the  *)
(* flush and shutdown callers flush and drop.  A flush copies the batch    *)
(* under the state lock, posts the copies one by one with the lock         *)
(* released, and reconciles the batch under the lock again.  The sets      *)
(* pending_sequences, unknown_event_ids and unknown_event_sequences have   *)
(* locks of their own, which send and take_unknown_event_ids take without  *)
(* the state lock, so the reconciliation and the drop are seen half done.  *)
(*                                                                         *)
(* An event is sent at most once (NbiCollector::record gives each one a    *)
(* fresh id), so its buffer entry is its id with the sequence number it    *)
(* got.  The order of the batch and the clock are left out: whether the    *)
(* oldest entry is older than flush_interval is a free choice.             *)
(***************************************************************************)
EXTENDS Naturals, FiniteSets

CONSTANTS
    Events,       \* event ids
    Tasks,        \* callers of the sink
    Senders,      \* the tasks that call send
    None,         \* no task / no entry
    BatchSize,    \* batch_size
    MaxBuffered,  \* HTTP_SINK_MAX_BUFFERED_EVENTS
    AllowCancel   \* a task may be aborted while it waits for a response

\* An element of the batch.
Entry == [sequence : Nat, event_id : Events]

ASSUME SinkAssumption ==
    /\ Senders \subseteq Tasks
    /\ None \notin Tasks /\ None \notin Entry
    /\ BatchSize \in Nat \ {0}
    /\ MaxBuffered \in Nat /\ BatchSize <= MaxBuffered
    /\ AllowCancel \in BOOLEAN

VARIABLES
    batch,             \* state.batch: entries
    flushing,          \* state.flushing
    holder,            \* the task inside a multi-step critical section of state
    purging,           \* the unknown ids the drop under way has still to remove
    next_sequence,
    pending_sequences,
    unknown_ids,       \* unknown_event_ids
    unknown_sequences, \* unknown_event_sequences
    pc, cur, unsent, sent, failed, unknown,  \* per task: see Init
    accepted,          \* history: how often the server took each event
    dropped,           \* history: events of which drop_buffered_events removed the record
    taken,             \* history: ids handed out by take_unknown_event_ids
    result             \* history: what send returned for each event

lockVars == <<batch, flushing, next_sequence>>
setVars  == <<pending_sequences, unknown_ids, unknown_sequences>>
taskVars == <<pc, cur, unsent, sent, failed, unknown>>
histVars == <<accepted, dropped, taken, result>>
vars == <<lockVars, holder, purging, setVars, taskVars, histVars>>

Sequences(E) == {x.sequence : x \in E}
Ids(E)       == {x.event_id : x \in E}

Results == {"none", "Delivered", "Buffered", "Lost", "Unknown", "Cancelled"}

PcValues == {"idle", "flush", "posting", "reconcile2", "reconcile3",
             "check", "check_unknown", "drop2", "drop3"}

TypeOK ==
    /\ batch \subseteq Entry /\ Cardinality(batch) <= MaxBuffered
    /\ flushing \in BOOLEAN
    /\ holder \in Tasks \cup {None}
    /\ purging \subseteq Events
    /\ next_sequence \in Nat
    /\ pending_sequences \subseteq Nat
    /\ unknown_ids \subseteq Events
    /\ unknown_sequences \subseteq Nat
    /\ pc \in [Tasks -> PcValues]
    /\ cur \in [Tasks -> Entry \cup {None}]
    /\ unsent \in [Tasks -> SUBSET Entry]
    /\ sent \in [Tasks -> SUBSET Entry]
    /\ failed \in [Tasks -> SUBSET Entry]
    /\ unknown \in [Tasks -> SUBSET Entry]
    /\ accepted \in [Events -> Nat]
    /\ dropped \subseteq Events
    /\ taken \subseteq Events
    /\ result \in [Events -> Results]

Init ==
    /\ batch = {}
    /\ flushing = FALSE
    /\ holder = None
    /\ purging = {}
    /\ next_sequence = 0
    /\ pending_sequences = {}
    /\ unknown_ids = {}
    /\ unknown_sequences = {}
    /\ pc = [t \in Tasks |-> "idle"]
    /\ cur = [t \in Tasks |-> None]        \* the entry a send is about
    /\ unsent = [t \in Tasks |-> {}]       \* copies still to post
    /\ sent = [t \in Tasks |-> {}]         \* all copies of this flush
    /\ failed = [t \in Tasks |-> {}]       \* outcome.failed_events
    /\ unknown = [t \in Tasks |-> {}]      \* outcome.unknown_event_*
    /\ accepted = [e \in Events |-> 0]
    /\ dropped = {}
    /\ taken = {}
    /\ result = [e \in Events |-> "none"]

Goto(t, label) == pc' = [pc EXCEPT ![t] = label]

Free == holder = None   \* the state lock can be taken

-----------------------------------------------------------------------------
(* send *)

InSend(e) == \E t \in Tasks : cur[t] # None /\ cur[t].event_id = e

Fresh == {e \in Events : result[e] = "none" /\ ~InSend(e)}

\* The event cannot be serialised, is too large, or the buffer is full.
SendLost(t, e) ==
    /\ pc[t] = "idle" /\ t \in Senders /\ e \in Fresh /\ Free
    /\ result' = [result EXCEPT ![e] = "Lost"]
    /\ next_sequence' = next_sequence + (IF Cardinality(batch) >= MaxBuffered THEN 1 ELSE 0)
    /\ UNCHANGED <<batch, flushing, holder, purging, setVars, taskVars, accepted, dropped, taken>>

\* Mutant: the capacity check is off by one.
SendPush_mutant(t, e) ==
    LET entry == [sequence |-> next_sequence, event_id |-> e]
        after == batch \cup {entry}
    IN  /\ pc[t] = "idle" /\ t \in Senders /\ e \in Fresh /\ Free
        /\ Cardinality(batch) <= MaxBuffered
        /\ next_sequence' = next_sequence + 1
        /\ batch' = after
        /\ pending_sequences' = pending_sequences \cup {next_sequence}
        /\ cur' = [cur EXCEPT ![t] = entry]
        /\ Goto(t, "check")
        /\ UNCHANGED <<flushing, holder, purging, unknown_ids, unknown_sequences,
                       unsent, sent, failed, unknown, histVars>>

\* Push under the state lock and decide whether this call flushes.
SendPush(t, e) ==
    LET entry == [sequence |-> next_sequence, event_id |-> e]
        after == batch \cup {entry}
    IN  /\ pc[t] = "idle" /\ t \in Senders /\ e \in Fresh /\ Free
        /\ Cardinality(batch) < MaxBuffered
        /\ next_sequence' = next_sequence + 1
        /\ batch' = after
        /\ pending_sequences' = pending_sequences \cup {next_sequence}
        /\ cur' = [cur EXCEPT ![t] = entry]
        /\ \E stale \in BOOLEAN :
              Goto(t, IF ~flushing /\ (Cardinality(after) >= BatchSize \/ stale)
                      THEN "flush" ELSE "check")
        /\ UNCHANGED <<flushing, holder, purging, unknown_ids, unknown_sequences,
                       unsent, sent, failed, unknown, histVars>>

Return(t, e, r) ==
    /\ result' = [result EXCEPT ![e] = r]
    /\ cur' = [cur EXCEPT ![t] = None]
    /\ Goto(t, "idle")

\* still_buffered = pending_sequences.read().contains(&sequence)
CheckPending(t) ==
    /\ pc[t] = "check"
    /\ IF cur[t].sequence \in pending_sequences
       THEN /\ Return(t, cur[t].event_id, "Buffered")
            /\ unknown_sequences' = unknown_sequences \ {cur[t].sequence}
       ELSE /\ Goto(t, "check_unknown")
            /\ UNCHANGED <<unknown_sequences, result, cur>>
    /\ UNCHANGED <<lockVars, holder, purging, pending_sequences, unknown_ids,
                   unsent, sent, failed, unknown, accepted, dropped, taken>>

\* is_unknown = unknown_event_sequences.lock().remove(&sequence)
CheckUnknown(t) ==
    LET e == cur[t].event_id
    IN  /\ pc[t] = "check_unknown"
        /\ IF cur[t].sequence \in unknown_sequences
           THEN Return(t, e, "Unknown") /\ unknown_ids' = unknown_ids \ {e}
           ELSE Return(t, e, "Delivered") /\ UNCHANGED unknown_ids
        /\ unknown_sequences' = unknown_sequences \ {cur[t].sequence}
        /\ UNCHANGED <<lockVars, holder, purging, pending_sequences,
                       unsent, sent, failed, unknown, accepted, dropped, taken>>

-----------------------------------------------------------------------------
(* flush_due_to *)

\* After a flush a send looks at its own event; flush and flush_stale return.
AfterFlush(t) == IF cur[t] = None THEN "idle" ELSE "check"

\* Mutant: a flush does not ask whether another one is under way.
FlushBegin_mutant(t) ==
    /\ pc[t] = "flush" \/ pc[t] = "idle"
    /\ Free /\ batch # {}
    /\ flushing' = TRUE
    /\ unsent' = [unsent EXCEPT ![t] = batch]
    /\ sent' = [sent EXCEPT ![t] = batch]
    /\ Goto(t, "posting")
    /\ UNCHANGED <<batch, next_sequence, holder, purging, setVars, cur, failed, unknown, histVars>>

\* Mutant: flush and flush_stale pass over a batch that is not full.
FlushBeginFull_mutant(t) ==
    /\ pc[t] = "flush" \/ (pc[t] = "idle" /\ Cardinality(batch) >= BatchSize)
    /\ Free /\ ~flushing /\ batch # {}
    /\ flushing' = TRUE
    /\ unsent' = [unsent EXCEPT ![t] = batch]
    /\ sent' = [sent EXCEPT ![t] = batch]
    /\ Goto(t, "posting")
    /\ UNCHANGED <<batch, next_sequence, holder, purging, setVars, cur, failed, unknown, histVars>>

\* flush(), flush_stale() of an idle task, or the flush inside send: take the
\* copies unless somebody else is flushing.  An idle caller that finds nothing
\* to do returns at once, which is a stuttering step.
FlushBegin(t) ==
    /\ pc[t] = "flush" \/ pc[t] = "idle"
    /\ Free /\ ~flushing /\ batch # {}
    /\ flushing' = TRUE
    /\ unsent' = [unsent EXCEPT ![t] = batch]
    /\ sent' = [sent EXCEPT ![t] = batch]
    /\ Goto(t, "posting")
    /\ UNCHANGED <<batch, next_sequence, holder, purging, setVars, cur, failed, unknown, histVars>>

FlushSkip(t) ==
    /\ pc[t] = "flush" /\ Free
    /\ flushing \/ batch = {}
    /\ Goto(t, AfterFlush(t))
    /\ UNCHANGED <<lockVars, holder, purging, setVars, cur, unsent, sent, failed, unknown, histVars>>

\* send_batch: one request.  A timeout or a broken connection leaves it open
\* whether the server took the event.
PostAccepted(t, x) ==
    /\ accepted' = [accepted EXCEPT ![x.event_id] = @ + 1]
    /\ UNCHANGED <<failed, unknown>>

PostRefused(t, x) ==
    /\ failed' = [failed EXCEPT ![t] = @ \cup {x}]
    /\ UNCHANGED <<accepted, unknown>>

PostUnknown(t, x) ==
    /\ unknown' = [unknown EXCEPT ![t] = @ \cup {x}]
    /\ accepted' \in {accepted, [accepted EXCEPT ![x.event_id] = @ + 1]}
    /\ UNCHANGED failed

send_batch(t) ==
    /\ pc[t] = "posting"
    /\ \E x \in unsent[t] :
        /\ unsent' = [unsent EXCEPT ![t] = @ \ {x}]
        /\ PostAccepted(t, x) \/ PostRefused(t, x) \/ PostUnknown(t, x)
    /\ UNCHANGED <<lockVars, holder, purging, setVars, pc, cur, sent, dropped, taken, result>>

\* Mutant: refused copies are put back without asking whether they were dropped.
KeptResurrected_mutant(t) == failed[t] \cup {x \in batch : x \notin sent[t]}

\* Mutant: entries pushed during the flush are forgotten.
KeptForgotten_mutant(t) == failed[t] \cap batch

\* The batch after the flush: refused copies nobody dropped meanwhile, then
\* the entries pushed during the flush.
Kept(t) == (failed[t] \cap batch) \cup {x \in batch : x \notin sent[t]}

\* Under the state lock: batch and pending_sequences first, then the two
\* unknown sets, each behind its own lock.
Reconcile1(t) ==
    /\ pc[t] = "posting" /\ unsent[t] = {} /\ Free
    /\ holder' = t
    /\ flushing' = FALSE
    /\ unknown' = [unknown EXCEPT ![t] = @ \cap batch]
    /\ batch' = Kept(t)
    /\ pending_sequences' = Sequences(Kept(t))
    /\ failed' = [failed EXCEPT ![t] = {}]
    /\ sent' = [sent EXCEPT ![t] = {}]
    /\ Goto(t, "reconcile2")
    /\ UNCHANGED <<next_sequence, purging, unknown_ids, unknown_sequences, cur, unsent, histVars>>

Reconcile2(t) ==
    /\ pc[t] = "reconcile2"
    /\ unknown_ids' = unknown_ids \cup Ids(unknown[t])
    /\ Goto(t, "reconcile3")
    /\ UNCHANGED <<lockVars, holder, purging, pending_sequences, unknown_sequences,
                   cur, unsent, sent, failed, unknown, histVars>>

Reconcile3(t) ==
    /\ pc[t] = "reconcile3"
    /\ unknown_sequences' = unknown_sequences \cup Sequences(unknown[t])
    /\ unknown' = [unknown EXCEPT ![t] = {}]
    /\ holder' = None
    /\ Goto(t, AfterFlush(t))
    /\ UNCHANGED <<lockVars, purging, pending_sequences, unknown_ids, cur, unsent, sent, failed, histVars>>

\* JoinHandle::abort takes effect at the await of a request: the task is gone,
\* what it had under way is forgotten, and flushing stays as it was.
Cancel(t) ==
    /\ AllowCancel
    /\ pc[t] = "posting"
    /\ Goto(t, "idle")
    /\ cur' = [cur EXCEPT ![t] = None]
    /\ result' = [e \in Events |-> IF cur[t] # None /\ cur[t].event_id = e
                                   THEN "Cancelled" ELSE result[e]]
    /\ unsent' = [unsent EXCEPT ![t] = {}]
    /\ sent' = [sent EXCEPT ![t] = {}]
    /\ failed' = [failed EXCEPT ![t] = {}]
    /\ unknown' = [unknown EXCEPT ![t] = {}]
    /\ UNCHANGED <<lockVars, holder, purging, setVars, accepted, dropped, taken>>

-----------------------------------------------------------------------------
(* drop_buffered_events, take_unknown_event_ids *)

\* The fanout names any ids, those the sink does not hold included; the
\* sequences go with the batch.  Nothing is added to unknown_event_ids while the
\* lock is held, so only the ids in it now matter to the second step.
Drop1(t, ids) ==
    LET kept == {x \in batch : x.event_id \notin ids}
    IN  /\ pc[t] = "idle" /\ Free /\ ids # {}
        /\ holder' = t
        /\ purging' = ids \cap unknown_ids
        /\ batch' = kept
        /\ pending_sequences' = Sequences(kept)
        /\ dropped' = dropped \cup (ids \cap Ids(batch))
        /\ Goto(t, "drop2")
        /\ UNCHANGED <<flushing, next_sequence, unknown_ids, unknown_sequences,
                       cur, unsent, sent, failed, unknown, accepted, taken, result>>

\* A drop that changes nothing but who holds the lock.
IdleDrop(t) ==
    /\ pc[t] = "idle" /\ pc'[t] = "drop2"
    /\ batch' = batch /\ purging' = {} /\ unknown_sequences \subseteq Sequences(batch)

\* The same ids leave unknown_event_ids: nobody will be told that their fate
\* was unknown.
Drop2(t) ==
    /\ pc[t] = "drop2"
    /\ unknown_ids' = unknown_ids \ purging
    /\ dropped' = dropped \cup (unknown_ids \cap purging)
    /\ purging' = {}
    /\ Goto(t, "drop3")
    /\ UNCHANGED <<lockVars, holder, pending_sequences, unknown_sequences,
                   cur, unsent, sent, failed, unknown, accepted, taken, result>>

\* unknown_event_sequences keeps only what is still in the batch.
Drop3(t) ==
    /\ pc[t] = "drop3"
    /\ unknown_sequences' = unknown_sequences \cap Sequences(batch)
    /\ holder' = None
    /\ Goto(t, "idle")
    /\ UNCHANGED <<lockVars, purging, pending_sequences, unknown_ids,
                   cur, unsent, sent, failed, unknown, histVars>>

take_unknown_event_ids(t) ==
    /\ pc[t] = "idle" /\ unknown_ids # {}
    /\ taken' = taken \cup unknown_ids
    /\ unknown_ids' = {}
    /\ UNCHANGED <<lockVars, holder, purging, pending_sequences, unknown_sequences,
                   taskVars, accepted, dropped, result>>

-----------------------------------------------------------------------------
Progress(t) ==
    \/ CheckPending(t) \/ CheckUnknown(t)
    \/ FlushSkip(t) \/ (pc[t] = "flush" /\ FlushBegin(t)) \/ send_batch(t)
    \/ Reconcile1(t) \/ Reconcile2(t) \/ Reconcile3(t)
    \/ Drop2(t) \/ Drop3(t)

Next ==
    \E t \in Tasks :
        \/ \E e \in Events : SendLost(t, e) \/ SendPush(t, e)
        \/ FlushBegin(t)
        \/ Progress(t)
        \/ Cancel(t)
        \/ \E ids \in SUBSET Events : Drop1(t, ids)
        \/ take_unknown_event_ids(t)

Spec == Init /\ [][Next]_vars

\* A task that runs keeps running; the supervisor's 250 ms ticks and the flush
\* calls make some task start a flush again and again; a server that keeps
\* answering takes a copy it is offered often enough; a drop that changes
\* nothing does not come for ever (the fanout drops when it retires or shuts down).
Fairness ==
    /\ \A t \in Tasks : WF_vars(Progress(t))
    /\ SF_vars(\E t \in Tasks : FlushBegin(t))
    /\ \A t \in Tasks : \A e \in Events :
          SF_vars(send_batch(t) /\ accepted'[e] > accepted[e])
    /\ <>[][\A t \in Tasks : ~IdleDrop(t)]_vars

LiveSpec == Spec /\ Fairness

-----------------------------------------------------------------------------
(* Properties *)

\* The sink knows that it does not know the fate of e.
KnownUnknown(e) ==
    e \in unknown_ids \cup taken \/ result[e] = "Unknown" \/ \E t \in Tasks : e \in Ids(unknown[t])

\* send(e) put an entry into the batch.
Pushed(e) ==
    result[e] \in {"Delivered", "Buffered", "Unknown", "Cancelled"} \/ InSend(e)

\* Every event the sink took is somewhere: still in the batch, taken by the
\* server, known to be of unknown fate, or dropped on request, from the batch
\* or from the unknown events.  A flush, a concurrent push and a concurrent drop
\* never make one vanish.
Accounted ==
    \A e \in Events :
        Pushed(e) => e \in Ids(batch) \cup dropped \/ accepted[e] > 0 \/ KnownUnknown(e)

\* The server never takes an event twice: flushes exclude each other, and a
\* copy that was taken or may have been taken is not posted again.
AtMostOnce == \A e \in Events : accepted[e] <= 1

\* A flush that was under way while its copies were dropped does not bring
\* them back.
DroppedStaysOut == Ids(batch) \cap dropped = {}

\* nbi.rs "Call this during shutdown to prevent data loss": a flush finds the
\* batch locked against it only while some task is really flushing it.
FlushingIsOwned ==
    flushing => \E t \in Tasks : pc[t] = "posting"

\* With a server that keeps answering the batch drains: no entry stays for
\* ever, unless an aborted flush has left the sink locked.
BatchDrains ==
    \A e \in Events : (e \in Ids(batch)) ~> (e \notin Ids(batch) \/ ~FlushingIsOwned)

\* The fate of an event as the sink knows it.
StatusOf(e) ==
    IF e \in dropped THEN "dropped"
    ELSE IF e \in Ids(batch) THEN "held"
    ELSE IF KnownUnknown(e) THEN "unknown"
    ELSE IF accepted[e] > 0 THEN "accepted"
    ELSE IF result[e] = "Lost" THEN "refused"
    ELSE "new"

Contract == INSTANCE SinkContract WITH status <- [e \in Events |-> StatusOf(e)]

\* The sink implements the contract the fanout relies on: an event leaves the
\* batch once and for one reason, whatever send, flush and drop interleave; only
\* the record of an unknown fate can still be erased by a drop.
ContractSpec == Contract!Spec
=============================================================================
