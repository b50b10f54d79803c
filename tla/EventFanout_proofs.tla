------------------------- MODULE EventFanout_proofs -------------------------
(***************************************************************************)
(* Proofs about the event fanout, for every set of events and of sinks.    *)
(*                                                                         *)
(* The invariant has two halves.  Seen says which events a sink, or a      *)
(* sample taken of a sink, can know of; a record that is still queued is   *)
(* not among them, so a stale sample cannot resurrect it, and what the     *)
(* worker counts as lost no sink has.  Custody says who answers for an     *)
(* event the worker took; no step gives it up without handing it on.       *)
(***************************************************************************)
EXTENDS EventFanout, TLAPS

Active == {"sending", "answered", "applied"}
Ending == {"closing", "closed"}
Sends(e) == worker.pc \in Active /\ worker.ev = e

\* The tracker of a record that waits for the worker.
Waiting == [present |-> TRUE, queued |-> TRUE, in_flight |-> FALSE, buffered_by |-> {},
            delivered |-> FALSE, unknown |-> FALSE, unknown_reported |-> FALSE]

Sampled(e) == \E s \in Sinks : e \in flusher.sample[s] \/ e \in dropper.sample[s]
Seen(e)    == Taken(e) \/ InSink(e) \/ e \in maybe \/ e \in flusher.ids \/ Sampled(e)
Custody(e) == AccountedFor(e) \/ e \in flusher.ids

\* TypeOK, without the bound on the losses, which LossBound gives.
Types ==
    /\ pending \in [Events -> Tracker] /\ \A e \in Events : ~pending[e].present => pending[e] = Absent
    /\ gone \subseteq Events
    /\ held \in [Sinks -> SUBSET Events] /\ \A s \in Sinks \ BufferingSinks : held[s] = {}
    /\ unk \in [Sinks -> SUBSET Events]
    /\ channel \in [Events -> {"new", "noted", "queued", "taken", "refused"}]
    /\ tries \in [Events -> 0..MaxTries]
    /\ worker \in [pc : {"idle", "sending", "answered", "applied"} \cup Stopped, ev : Events \cup {None},
                   answer : [Sinks -> Answers \cup {None}], left : SUBSET Sinks]
    /\ flusher \in [pc : {"idle", "taken", "sampled", "consumed", "resampled", "refreshed"},
                    ids : SUBSET Events, sample : [Sinks -> SUBSET Events]]
    /\ dropper \in [pc : {"idle", "queued", "pending", "purge", "forget"},
                    ids : SUBSET Events, sample : [Sinks -> SUBSET Events]]
    /\ accepted \in [Sinks -> SUBSET Events]
    /\ maybe \subseteq Events
    /\ lost \in [Events -> Nat] /\ reported \subseteq Events /\ counted \subseteq Events

\* Who may be where: the worker's record, the dropper, the flusher's ids.
Shape ==
    /\ worker.pc \in Active => worker.ev \in Events /\ channel[worker.ev] = "taken"
    /\ worker.pc = "sending" => \A s \in worker.left : worker.answer[s] = None
    /\ dropper.pc = "queued" => worker.pc = "dead"
    /\ dropper.pc = "pending" => worker.pc = "closing"
    /\ dropper.pc \in {"purge", "forget"} => worker.pc \in {"dead", "closing"}
    /\ flusher.pc \notin {"taken", "sampled"} => flusher.ids = {}
    /\ gone \subseteq (IF dropper.pc \in {"purge", "forget"} THEN dropper.ids ELSE {})
    /\ \A e \in Events : channel[e] = "new" => tries[e] < MaxTries

\* What is known of an event that was not sent, or is being sent.
KnowledgeOf(e) ==
    /\ channel[e] # "taken" => ~Seen(e) /\ pending[e] \in {Absent, Waiting}
    /\ pending[e].queued => ~Seen(e) /\ pending[e] = Waiting
    /\ pending[e].in_flight => Sends(e) \/ worker.pc \in {"dead", "cleared"}
    /\ Sends(e) => ~pending[e].queued
    /\ Sends(e) /\ worker.pc # "applied" /\ Seen(e) =>
          \E s \in Sinks : worker.answer[s] \in {"Delivered", "Buffered", "Unknown"}
    /\ Sends(e) /\ worker.pc = "applied" /\ pending[e].present /\ ~pending[e].delivered
          /\ ~pending[e].unknown /\ pending[e].buffered_by = {} => ~Seen(e)
Knowledge == \A e \in Events : KnowledgeOf(e)

\* An event is counted as lost at most once for each time it was queued, and
\* once more after it was sent.
Finished(e) == channel[e] = "taken" /\ pending[e] = Absent /\ ~Seen(e) /\ ~Sends(e)
Over        == worker.pc = "closed" \/ (worker.pc = "closing" /\ dropper.pc \in {"purge", "forget"})
Claims(e)   == lost[e] + (IF pending[e].queued THEN 1 ELSE 0)
LossOf(e)   == \/ Claims(e) <= tries[e]
               \/ Claims(e) <= tries[e] + 1 /\ (Finished(e) \/ Over)
LossBound   == \A e \in Events : LossOf(e)

\* Who answers for an event, until the program ends.
Answered(e) ==
    \/ Custody(e) \/ Sends(e)
    \/ pending[e].queued /\ worker.pc = "dead" /\ dropper.pc \in {"idle", "queued"}
    \/ pending[e].in_flight /\ worker.pc \in {"dead", "cleared"}
KeptOf(e) ==
    /\ pending[e].delivered \/ pending[e].buffered_by # {} \/ Sampled(e) => Custody(e)
    /\ pending[e].unknown_reported => e \in reported
    /\ e \in gone \/ (dropper.pc \in {"purge", "forget"} /\ e \in dropper.ids) => lost[e] > 0
    /\ Sends(e) => pending[e].in_flight \/ Custody(e)
    /\ Sends(e) /\ worker.pc # "applied" /\ (\E s \in Sinks : worker.answer[s] \in {"Delivered", "Buffered"})
          => Custody(e)
    /\ channel[e] \in {"noted", "queued"} => pending[e].queued \/ lost[e] > 0
    /\ channel[e] = "taken" => Answered(e)
Kept == worker.pc \notin Ending => \A e \in Events : KeptOf(e)

FanoutInv == Types /\ Shape /\ Knowledge /\ LossBound /\ Kept

-----------------------------------------------------------------------------
(* One tracker. *)

WellFormed == {t \in Tracker : ~t.present => t = Absent}

LEMMA AbsentWellFormed == Absent \in WellFormed /\ Waiting \in WellFormed
  BY DEF Absent, Waiting, WellFormed, Tracker

\* A tracker that does not exist knows nothing.
LEMMA AbsentFields ==
    /\ ~Absent.present /\ ~Absent.queued /\ ~Absent.in_flight /\ Absent.buffered_by = {}
    /\ ~Absent.delivered /\ ~Absent.unknown /\ ~Absent.unknown_reported
  BY DEF Absent

LEMMA WaitingFields ==
    /\ Waiting.present /\ Waiting.queued /\ ~Waiting.in_flight /\ Waiting.buffered_by = {}
    /\ ~Waiting.delivered /\ ~Waiting.unknown /\ ~Waiting.unknown_reported
  BY DEF Waiting

\* A tracker is what its fields say.
LEMMA IsWaiting ==
    ASSUME NEW t \in Tracker, t.present, t.queued, ~t.in_flight, t.buffered_by = {},
           ~t.delivered, ~t.unknown, ~t.unknown_reported
    PROVE  t = Waiting
<1>1. /\ t.present = TRUE /\ t.queued = TRUE /\ t.in_flight = FALSE /\ t.delivered = FALSE
      /\ t.unknown = FALSE /\ t.unknown_reported = FALSE
  BY DEF Tracker
<1> QED
  BY <1>1 DEF Tracker, Waiting

LEMMA OrDefaultFacts ==
    ASSUME NEW t \in WellFormed
    PROVE  /\ OrDefault(t) \in WellFormed /\ OrDefault(t).present
           /\ (OrDefault(t).queued <=> t.queued) /\ (OrDefault(t).in_flight <=> t.in_flight)
           /\ OrDefault(t).buffered_by = t.buffered_by /\ (OrDefault(t).delivered <=> t.delivered)
           /\ (OrDefault(t).unknown <=> t.unknown) /\ (OrDefault(t).unknown_reported <=> t.unknown_reported)
           /\ t.present => OrDefault(t) = t
  BY DEF OrDefault, WellFormed, Tracker

LEMMA FinalizedFacts ==
    ASSUME NEW t \in WellFormed
    PROVE  /\ Finalized(t) \in WellFormed
           /\ Finalized(t) = t \/ Finalized(t) = Absent
           /\ Finalized(t) = Absent => ~t.present \/ (~t.queued /\ ~t.in_flight /\ t.buffered_by = {}
                                                      /\ (t.unknown => t.unknown_reported))
  BY AbsentWellFormed, AbsentFields DEF Finalized, Resolved, WellFormed

\* sync_pending_records_with_buffers, for one event: what it learns comes from
\* the sample (now) or was there before.
Synced(t, r, now, dropped) ==
    /\ r \in WellFormed
    /\ dropped => r = Absent
    /\ ~dropped /\ now = {} /\ t.buffered_by = {} => r = t
    /\ r.queued => t.queued
    /\ r.in_flight => t.in_flight
    /\ ~dropped /\ t.in_flight => r.in_flight
    /\ ~dropped /\ t.queued => r.queued
    /\ r.unknown_reported => t.unknown_reported
    /\ r.delivered \/ r.buffered_by # {} => t.delivered \/ t.buffered_by # {} \/ now # {}
    /\ r.present /\ r.buffered_by = {} /\ ~r.delivered => now = {} /\ r = t

LEMMA SyncFacts ==
    ASSUME NEW t \in WellFormed, NEW e, NEW h \in [Sinks -> SUBSET Events], NEW g
    PROVE  Synced(t, SyncTracker(t, e, h, g), {s \in Sinks : e \in h[s]}, e \in g)
<1> DEFINE now == {s \in Sinks : e \in h[s]}
           b == IF now = {} THEN t ELSE [OrDefault(t) EXCEPT !.buffered_by = @ \cup now]
           c == [b EXCEPT !.buffered_by = @ \cap now, !.delivered = @ \/ b.buffered_by \ now # {}]
           r == SyncTracker(t, e, h, g)
<1>1. r = IF e \in g \/ ~b.present THEN Absent ELSE c
  BY DEF SyncTracker
<1>2. /\ b \in WellFormed /\ (b.queued <=> t.queued) /\ (b.in_flight <=> t.in_flight)
      /\ b.buffered_by = t.buffered_by \cup now /\ (b.delivered <=> t.delivered)
      /\ (b.unknown <=> t.unknown) /\ (b.unknown_reported <=> t.unknown_reported)
      /\ (now = {} => b = t) /\ (now # {} => b.present)
  <2>1. CASE now = {}
    BY <2>1 DEF WellFormed, Tracker
  <2>2. CASE now # {}
    <3>1. b = [OrDefault(t) EXCEPT !.buffered_by = t.buffered_by \cup now]
      BY <2>2, OrDefaultFacts
    <3>2. now \in SUBSET Sinks /\ t.buffered_by \in SUBSET Sinks
      BY DEF WellFormed, Tracker
    <3> HIDE DEF now, b
    <3> QED
      BY <2>2, <3>1, <3>2, OrDefaultFacts DEF WellFormed, Tracker
  <2> QED
    BY <2>1, <2>2
<1>3. /\ c \in Tracker /\ (c.present <=> b.present) /\ (c.queued <=> b.queued) /\ (c.in_flight <=> b.in_flight)
      /\ c.buffered_by = b.buffered_by \cap now
      /\ (c.delivered <=> b.delivered \/ b.buffered_by \ now # {})
      /\ (c.unknown <=> b.unknown) /\ (c.unknown_reported <=> b.unknown_reported)
  <2> HIDE DEF b, now
  <2> QED
    BY <1>2 DEF WellFormed, Tracker
<1>4. b.buffered_by \ now = {} /\ b.buffered_by \cap now = {} => now = {} /\ b = t /\ c = t
  <2>1. ASSUME b.buffered_by \ now = {}, b.buffered_by \cap now = {} PROVE now = {} /\ b = t /\ b.buffered_by = {}
    BY <1>2, <2>1
  <2>2. ASSUME b.buffered_by = {}, now = {} PROVE c = b
    BY <1>2, <2>2 DEF WellFormed, Tracker
  <2> QED
    BY <2>1, <2>2
<1> HIDE DEF b, c, now, r
<1>5. /\ r \in WellFormed
      /\ e \in g => r = Absent
      /\ e \notin g /\ now = {} /\ t.buffered_by = {} => r = t
      /\ r.queued => t.queued
      /\ r.in_flight => t.in_flight
  BY <1>1, <1>2, <1>3, <1>4, AbsentWellFormed, AbsentFields DEF WellFormed
<1>6. /\ e \notin g /\ t.in_flight => r.in_flight
      /\ e \notin g /\ t.queued => r.queued
      /\ r.unknown_reported => t.unknown_reported
  BY <1>1, <1>2, <1>3, AbsentWellFormed, AbsentFields DEF WellFormed
<1>7. r.delivered \/ r.buffered_by # {} => t.delivered \/ t.buffered_by # {} \/ now # {}
  BY <1>1, <1>2, <1>3, AbsentFields
<1>8. r.present /\ r.buffered_by = {} /\ ~r.delivered => now = {} /\ r = t
  BY <1>1, <1>2, <1>3, <1>4, AbsentFields
<1> QED
  BY <1>5, <1>6, <1>7, <1>8 DEF r, now, Synced

LEMMA TrackerTypes == Types => pending \in [Events -> WellFormed]
  BY DEF Types, WellFormed

LEMMA TrackersOf ==
    ASSUME NEW p \in [Events -> WellFormed]
    PROVE  p \in [Events -> Tracker] /\ \A e \in Events : ~p[e].present => p[e] = Absent
  BY DEF WellFormed

\* What a step leaves alone.
LEMMA SeenSame ==
    ASSUME UNCHANGED <<sinkVars, flusher, dropper>>
    PROVE  \A e : (Seen(e)' <=> Seen(e)) /\ (Sampled(e)' <=> Sampled(e))
  BY DEF Seen, Sampled, Taken, InSink, sinkVars

LEMMA CustodySame ==
    ASSUME UNCHANGED <<held, unk, accepted, flusher>>, reported \subseteq reported',
           \A e \in Events : lost[e] > 0 => lost'[e] > 0
    PROVE  \A e \in Events : Custody(e) => Custody(e)'
  BY DEF Custody, AccountedFor, Taken, InSink

\* The record of an event that a step does not touch.
LEMMA Untouched ==
    ASSUME NEW e \in Events, UNCHANGED worker, pending'[e] = pending[e], channel'[e] = channel[e],
           Seen(e)' => Seen(e)
    PROVE  /\ KnowledgeOf(e) => KnowledgeOf(e)'
           /\ Finished(e) => Finished(e)'
  BY DEF KnowledgeOf, Finished, Sends

\* A step that claims nothing for the event.
LEMMA NoClaim ==
    ASSUME NEW e \in Events, Types, LossOf(e), lost'[e] = lost[e], tries'[e] = tries[e],
           pending'[e].queued => pending[e].queued,
           Finished(e) => Finished(e)', Over => Over'
    PROVE  LossOf(e)'
<1>1. lost[e] \in Nat /\ tries[e] \in Nat
  BY FanoutAssumption DEF Types
<1>2. Claims(e)' \in Nat /\ Claims(e) \in Nat /\ Claims(e)' <= Claims(e)
  BY <1>1 DEF Claims
<1> QED
  BY <1>1, <1>2 DEF LossOf

LEMMA KeptUntouched ==
    ASSUME NEW e \in Events, UNCHANGED worker, pending'[e] = pending[e], channel'[e] = channel[e], KeptOf(e),
           Custody(e) => Custody(e)', Sampled(e)' => Sampled(e) \/ Custody(e)', reported \subseteq reported',
           lost[e] > 0 => lost'[e] > 0, e \in gone' => e \in gone,
           dropper'.pc \in {"purge", "forget"} /\ e \in dropper'.ids =>
               (dropper.pc \in {"purge", "forget"} /\ e \in dropper.ids) \/ lost'[e] > 0,
           dropper.pc \in {"idle", "queued"} =>
               dropper'.pc \in {"idle", "queued"} \/ Custody(e)' \/ ~pending[e].queued \/ worker.pc # "dead"
    PROVE  KeptOf(e)'
<1>1. Sends(e)' <=> Sends(e)
  BY DEF Sends
<1>2. channel'[e] = "taken" => Answered(e)'
  BY <1>1 DEF KeptOf, Answered
<1>3. /\ pending'[e].delivered \/ pending'[e].buffered_by # {} \/ Sampled(e)' => Custody(e)'
      /\ pending'[e].unknown_reported => e \in reported'
  BY DEF KeptOf
<1>4. e \in gone' \/ (dropper'.pc \in {"purge", "forget"} /\ e \in dropper'.ids) => lost'[e] > 0
  BY DEF KeptOf
<1>5. /\ Sends(e)' => pending'[e].in_flight \/ Custody(e)'
      /\ Sends(e)' /\ worker'.pc # "applied" /\ (\E s \in Sinks : worker'.answer[s] \in {"Delivered", "Buffered"})
            => Custody(e)'
  BY <1>1 DEF KeptOf
<1>6. channel'[e] \in {"noted", "queued"} => pending'[e].queued \/ lost'[e] > 0
  BY DEF KeptOf
<1> QED
  BY <1>2, <1>3, <1>4, <1>5, <1>6 DEF KeptOf

-----------------------------------------------------------------------------
(* The producers. *)

LEMMA NoteQueuedStep ==
    ASSUME FanoutInv, NEW d \in Events, NoteQueued(d)
    PROVE  FanoutInv'
<1>1. Types /\ Shape /\ Knowledge /\ LossBound /\ Kept
  BY DEF FanoutInv
<1>2. /\ channel[d] = "new" /\ gone' = gone \ {d} /\ pending' = note_queued_record(pending, d)
      /\ channel' = [channel EXCEPT ![d] = "noted"] /\ tries' = [tries EXCEPT ![d] = @ + 1]
      /\ UNCHANGED <<sinkVars, held, unk, accepted, maybe, worker, flusher, dropper, lost, reported, counted>>
  BY DEF NoteQueued, sinkVars
<1>3. pending[d] \in {Absent, Waiting} /\ ~Seen(d) /\ tries[d] < MaxTries /\ ~Sends(d) /\ pending \in [Events -> WellFormed]
  BY <1>1, <1>2, TrackerTypes DEF Knowledge, KnowledgeOf, Shape, Sends
<1>4. pending' = [pending EXCEPT ![d] = Waiting]
  <2> DEFINE t == [OrDefault(pending[d]) EXCEPT !.queued = TRUE]
  <2>1. pending' = [pending EXCEPT ![d] = IF t.in_flight THEN t
                         ELSE [t EXCEPT !.buffered_by = {}, !.delivered = FALSE,
                                        !.unknown = FALSE, !.unknown_reported = FALSE]]
    BY <1>2 DEF note_queued_record
  <2>2. pending[d] \in WellFormed /\ ~pending[d].in_flight
    BY <1>3, AbsentFields, WaitingFields
  <2>3. t \in Tracker /\ t.present /\ t.queued /\ ~t.in_flight
    <3>1. PICK o : o = OrDefault(pending[d])
      OBVIOUS
    <3>2. o \in Tracker /\ o.present /\ ~o.in_flight
      BY <2>2, <3>1, OrDefaultFacts DEF WellFormed
    <3>3. LET v == [o EXCEPT !.queued = TRUE] IN v \in Tracker /\ v.present /\ v.queued /\ ~v.in_flight
      BY <3>2 DEF Tracker
    <3> QED
      BY <3>1, <3>3
  <2> DEFINE u == [t EXCEPT !.buffered_by = {}, !.delivered = FALSE, !.unknown = FALSE, !.unknown_reported = FALSE]
  <2>4. pending' = [pending EXCEPT ![d] = u]
    BY <2>1, <2>3
  <2> HIDE DEF t
  <2>5. /\ u \in Tracker /\ u.present /\ u.queued /\ ~u.in_flight /\ u.buffered_by = {} /\ ~u.delivered
        /\ ~u.unknown /\ ~u.unknown_reported
    BY <2>3 DEF Tracker
  <2> HIDE DEF u
  <2> QED
    BY <2>4, <2>5, IsWaiting
<1>5. /\ \A e \in Events : e # d => pending'[e] = pending[e] /\ channel'[e] = channel[e] /\ tries'[e] = tries[e]
      /\ pending'[d] = Waiting /\ channel'[d] = "noted" /\ tries'[d] = tries[d] + 1 /\ tries[d] \in Nat
      /\ pending' \in [Events -> WellFormed]
  BY <1>1, <1>2, <1>3, <1>4, AbsentWellFormed, FanoutAssumption DEF Types
<1>6. Types'
  <2>1. tries' \in [Events -> 0..MaxTries]
    BY <1>1, <1>2, <1>3, FanoutAssumption DEF Types
  <2> QED
    BY <1>1, <1>2, <1>5, <2>1, TrackersOf DEF Types
<1>7. \A e : (Seen(e)' <=> Seen(e)) /\ (Sampled(e)' <=> Sampled(e)) /\ (Sends(e)' <=> Sends(e))
  BY <1>2, SeenSame DEF Sends
<1>8. \A e \in Events : Custody(e) => Custody(e)'
  BY <1>2, CustodySame
<1>9. Shape'
  BY <1>1, <1>2, <1>3, <1>5 DEF Shape, Sends
<1>10. KnowledgeOf(d)' /\ LossOf(d)' /\ (worker.pc \notin Ending => KeptOf(d)')
  <2>1. KnowledgeOf(d)'
    BY <1>3, <1>5, <1>7, WaitingFields DEF KnowledgeOf
  <2>2. LossOf(d)'
    <3>1. lost[d] \in Nat /\ Claims(d)' = lost[d] + 1 /\ Claims(d) >= lost[d] /\ Claims(d) \in Nat /\ ~Finished(d)
      BY <1>1, <1>2, <1>5, WaitingFields DEF Claims, Types, Finished
    <3>2. Over => Over'
      BY <1>2 DEF Over
    <3> QED
      BY <1>1, <1>5, <3>1, <3>2 DEF LossBound, LossOf
  <2>3. worker.pc \notin Ending => KeptOf(d)'
    BY <1>1, <1>2, <1>3, <1>5, <1>7, <1>8, WaitingFields DEF Kept, KeptOf, Seen
  <2> QED
    BY <2>1, <2>2, <2>3
<1>11. ASSUME NEW e \in Events, e # d
       PROVE  KnowledgeOf(e)' /\ LossOf(e)' /\ (worker.pc \notin Ending => KeptOf(e)')
  <2>1. KnowledgeOf(e)' /\ (Finished(e) => Finished(e)')
    BY <1>1, <1>2, <1>5, <1>7, <1>11, Untouched DEF Knowledge
  <2>2. LossOf(e)'
    BY <1>1, <1>2, <1>5, <1>11, <2>1, NoClaim DEF LossBound, Over
  <2>3. worker.pc \notin Ending => KeptOf(e)'
    BY <1>1, <1>2, <1>5, <1>7, <1>8, <1>11, KeptUntouched DEF Kept
  <2> QED
    BY <2>1, <2>2, <2>3
<1> QED
  BY <1>2, <1>6, <1>9, <1>10, <1>11 DEF FanoutInv, Knowledge, LossBound, Kept

LEMMA EnqueueStep ==
    ASSUME FanoutInv, NEW d \in Events, Enqueue(d)
    PROVE  FanoutInv'
<1>1. Types /\ Shape /\ Knowledge /\ LossBound /\ Kept
  BY DEF FanoutInv
<1>2. /\ channel[d] = "noted" /\ channel' = [channel EXCEPT ![d] = "queued"]
      /\ UNCHANGED <<tries, pending, gone, sinkVars, held, unk, accepted, maybe, worker, flusher, dropper,
                     lost, reported, counted>>
  BY DEF Enqueue, sinkVars
<1>3. channel'[d] = "queued" /\ \A e \in Events : e # d => channel'[e] = channel[e]
  BY <1>1, <1>2 DEF Types
<1>4. Types' /\ Shape'
  <2>1. channel' \in [Events -> {"new", "noted", "queued", "taken", "refused"}]
    BY <1>1, <1>2 DEF Types
  <2>2. Types'
    BY <1>1, <1>2, <2>1 DEF Types
  <2> QED
    BY <1>1, <1>2, <1>3, <2>2 DEF Shape
<1>5. \A e : (Seen(e)' <=> Seen(e)) /\ (Sampled(e)' <=> Sampled(e)) /\ (Sends(e)' <=> Sends(e))
  BY <1>2, SeenSame DEF Sends
<1>6. \A e \in Events : Custody(e) => Custody(e)'
  BY <1>2, CustodySame
<1>7. KnowledgeOf(d)' /\ (worker.pc \notin Ending => KeptOf(d)')
  <2>1. KnowledgeOf(d)'
    BY <1>1, <1>2, <1>3, <1>5 DEF Knowledge, KnowledgeOf
  <2>2. worker.pc \notin Ending => KeptOf(d)'
    BY <1>1, <1>2, <1>3, <1>5, <1>6 DEF Kept, KeptOf
  <2> QED
    BY <2>1, <2>2
<1>8. \A e \in Events : e # d => KnowledgeOf(e)' /\ (worker.pc \notin Ending => KeptOf(e)')
  <2> SUFFICES ASSUME NEW e \in Events, e # d PROVE KnowledgeOf(e)' /\ (worker.pc \notin Ending => KeptOf(e)')
    OBVIOUS
  <2>1. KnowledgeOf(e)'
    BY <1>1, <1>2, <1>3, <1>5, Untouched DEF Knowledge
  <2>2. worker.pc \notin Ending => KeptOf(e)'
    BY <1>1, <1>2, <1>3, <1>5, <1>6, KeptUntouched DEF Kept
  <2> QED
    BY <2>1, <2>2
<1>9. LossBound'
  <2>1. \A e \in Events : Finished(e) => Finished(e)'
    BY <1>2, <1>3, <1>5 DEF Finished
  <2>2. ASSUME NEW e \in Events PROVE LossOf(e)'
    BY <1>1, <1>2, <2>1, NoClaim DEF LossBound, Over
  <2> QED
    BY <2>2 DEF LossBound
<1> QED
  BY <1>2, <1>4, <1>7, <1>8, <1>9 DEF FanoutInv, Knowledge, Kept

LEMMA ForgetStep ==
    ASSUME FanoutInv, NEW d \in Events, Forget(d)
    PROVE  FanoutInv'
<1>1. Types /\ Shape /\ Knowledge /\ LossBound /\ Kept
  BY DEF FanoutInv
<1>2. /\ channel[d] = "noted" /\ pending' = forget_queued_record(pending, d)
      /\ channel' = [channel EXCEPT ![d] = IF worker.pc \in Stopped /\ tries[d] < MaxTries THEN "new" ELSE "refused"]
      /\ UNCHANGED <<tries, gone, sinkVars, held, unk, accepted, maybe, worker, flusher, dropper,
                     lost, reported, counted>>
  BY DEF Forget, sinkVars
<1>3. pending[d] \in {Absent, Waiting} /\ ~Seen(d) /\ ~Sends(d) /\ pending \in [Events -> WellFormed]
  BY <1>1, <1>2, TrackerTypes DEF Knowledge, KnowledgeOf, Shape, Sends
<1>4. pending' = [pending EXCEPT ![d] = Absent]
  BY <1>2, <1>3, AbsentFields, WaitingFields DEF forget_queued_record
<1>5. /\ pending'[d] = Absent /\ channel'[d] \in {"new", "refused"} /\ (channel'[d] = "new" => tries[d] < MaxTries)
      /\ \A e \in Events : e # d => channel'[e] = channel[e] /\ pending'[e] = pending[e]
      /\ pending' \in [Events -> WellFormed]
  BY <1>1, <1>2, <1>3, <1>4, AbsentWellFormed DEF Types
<1>6. Types' /\ Shape'
  <2>1. channel' \in [Events -> {"new", "noted", "queued", "taken", "refused"}]
    BY <1>1, <1>2 DEF Types
  <2>2. Types'
    BY <1>1, <1>2, <1>5, <2>1, TrackersOf DEF Types
  <2> QED
    BY <1>1, <1>2, <1>5, <2>2 DEF Shape
<1>7. \A e : (Seen(e)' <=> Seen(e)) /\ (Sampled(e)' <=> Sampled(e)) /\ (Sends(e)' <=> Sends(e))
  BY <1>2, SeenSame DEF Sends
<1>8. \A e \in Events : Custody(e) => Custody(e)'
  BY <1>2, CustodySame
<1>9. KnowledgeOf(d)' /\ (worker.pc \notin Ending => KeptOf(d)')
  <2>1. KnowledgeOf(d)'
    BY <1>3, <1>5, <1>7, AbsentFields DEF KnowledgeOf
  <2>2. worker.pc \notin Ending => KeptOf(d)'
    BY <1>1, <1>2, <1>3, <1>5, <1>7, <1>8, AbsentFields DEF Kept, KeptOf, Seen
  <2> QED
    BY <2>1, <2>2
<1>10. \A e \in Events : e # d => KnowledgeOf(e)' /\ (worker.pc \notin Ending => KeptOf(e)')
  <2> SUFFICES ASSUME NEW e \in Events, e # d PROVE KnowledgeOf(e)' /\ (worker.pc \notin Ending => KeptOf(e)')
    OBVIOUS
  <2>1. KnowledgeOf(e)'
    BY <1>1, <1>2, <1>5, <1>7, Untouched DEF Knowledge
  <2>2. worker.pc \notin Ending => KeptOf(e)'
    BY <1>1, <1>2, <1>5, <1>7, <1>8, KeptUntouched DEF Kept
  <2> QED
    BY <2>1, <2>2
<1>11. LossBound'
  <2>1. \A e \in Events : Finished(e) => Finished(e)'
    BY <1>2, <1>5, <1>7 DEF Finished
  <2>2. ASSUME NEW e \in Events PROVE pending'[e].queued => pending[e].queued
    BY <1>5, AbsentFields
  <2>3. ASSUME NEW e \in Events PROVE LossOf(e)'
    BY <1>1, <1>2, <2>1, <2>2, NoClaim DEF LossBound, Over
  <2> QED
    BY <2>3 DEF LossBound
<1> QED
  BY <1>2, <1>6, <1>9, <1>10, <1>11 DEF FanoutInv, Knowledge, Kept

-----------------------------------------------------------------------------
(* The worker. *)

LEMMA SendStartedStep ==
    ASSUME FanoutInv, NEW d \in Events, SendStarted(d)
    PROVE  FanoutInv'
<1>1. Types /\ Shape /\ Knowledge /\ LossBound /\ Kept
  BY DEF FanoutInv
<1>2. /\ channel[d] = "queued" /\ worker.pc = "idle" /\ pending' = note_send_started(pending, d)
      /\ channel' = [channel EXCEPT ![d] = "taken"]
      /\ worker' = [IdleWorker EXCEPT !.pc = "sending", !.ev = d, !.left = Sinks]
      /\ UNCHANGED <<tries, gone, sinkVars, held, unk, accepted, maybe, flusher, dropper, lost, reported, counted>>
  BY DEF SendStarted, sinkVars
<1>3. pending[d] \in {Absent, Waiting} /\ ~Seen(d) /\ pending \in [Events -> WellFormed] /\ \A e : ~Sends(e)
  BY <1>1, <1>2, TrackerTypes DEF Knowledge, KnowledgeOf, Sends, Active
<1>4. /\ worker'.pc = "sending" /\ worker'.ev = d /\ worker'.left = Sinks /\ worker'.answer = [s \in Sinks |-> None]
      /\ worker' \in [pc : {"idle", "sending", "answered", "applied"} \cup Stopped, ev : Events \cup {None},
                      answer : [Sinks -> Answers \cup {None}], left : SUBSET Sinks]
  BY <1>2 DEF IdleWorker
<1>5. /\ \A e : Sends(e)' <=> e = d
      /\ \A s \in Sinks : worker'.answer[s] \notin {"Delivered", "Buffered", "Unknown"}
  BY <1>4 DEF Sends, Active, None
<1>6. /\ pending'[d] \in WellFormed /\ pending'[d].in_flight /\ ~pending'[d].queued /\ pending'[d].present
      /\ pending'[d].buffered_by = {} /\ ~pending'[d].delivered /\ ~pending'[d].unknown /\ ~pending'[d].unknown_reported
      /\ \A e \in Events : e # d => pending'[e] = pending[e] /\ channel'[e] = channel[e]
      /\ channel'[d] = "taken" /\ pending' \in [Events -> WellFormed]
  <2>1. PICK o : o = OrDefault(pending[d])
    OBVIOUS
  <2>2. /\ o \in Tracker /\ o.present /\ o.buffered_by = {} /\ ~o.delivered /\ ~o.unknown /\ ~o.unknown_reported
    BY <1>3, <2>1, OrDefaultFacts, AbsentFields, WaitingFields DEF WellFormed
  <2> DEFINE u == [o EXCEPT !.queued = FALSE, !.in_flight = TRUE]
  <2>3. /\ u \in WellFormed /\ u.in_flight /\ ~u.queued /\ u.present
        /\ u.buffered_by = {} /\ ~u.delivered /\ ~u.unknown /\ ~u.unknown_reported
    BY <2>2 DEF Tracker, WellFormed
  <2>4. pending' = [pending EXCEPT ![d] = u]
    BY <1>2, <2>1 DEF note_send_started
  <2> HIDE DEF u
  <2> QED
    BY <1>1, <1>2, <1>3, <2>3, <2>4 DEF Types
<1>7. Types' /\ Shape'
  <2>1. channel' \in [Events -> {"new", "noted", "queued", "taken", "refused"}]
    BY <1>1, <1>2 DEF Types
  <2>2. Types'
    BY SMTT(30), <1>1, <1>2, <1>4, <1>6, <2>1, TrackersOf DEF Types
  <2> QED
    BY <1>1, <1>2, <1>4, <1>6, <2>2 DEF Shape
<1>8. \A e : (Seen(e)' <=> Seen(e)) /\ (Sampled(e)' <=> Sampled(e))
  BY <1>2, SeenSame
<1>9. \A e \in Events : Custody(e) => Custody(e)'
  BY <1>2, CustodySame
<1>10. ASSUME NEW e \in Events PROVE KnowledgeOf(e)' /\ KeptOf(e)'
  <2>1. CASE e = d
    <3>1. KnowledgeOf(d)'
      BY <1>3, <1>4, <1>5, <1>6, <1>8 DEF KnowledgeOf
    <3>2. KeptOf(d)'
      BY <1>1, <1>2, <1>3, <1>4, <1>5, <1>6, <1>8 DEF Kept, KeptOf, Answered, Seen, Ending
    <3> QED
      BY <2>1, <3>1, <3>2
  <2>2. CASE e # d
    <3>1. KnowledgeOf(e) /\ KeptOf(e)
      BY <1>1, <1>2 DEF Knowledge, Kept, Ending
    <3>2. KnowledgeOf(e)'
      BY <1>2, <1>3, <1>5, <1>6, <1>8, <2>2, <3>1 DEF KnowledgeOf
    <3>3. channel'[e] = "taken" => Answered(e)'
      BY <1>2, <1>3, <1>6, <1>9, <2>2, <3>1 DEF KeptOf, Answered
    <3>4. KeptOf(e)'
      BY <1>2, <1>5, <1>6, <1>8, <1>9, <2>2, <3>1, <3>3 DEF KeptOf
    <3> QED
      BY <3>2, <3>4
  <2> QED
    BY <2>1, <2>2
<1>11. LossBound'
  <2>1. \A e \in Events : Finished(e) => Finished(e)'
    BY <1>2, <1>5, <1>6, <1>8 DEF Finished
  <2>2. ASSUME NEW e \in Events PROVE LossOf(e)'
    <3>1. ~Over
      BY <1>2 DEF Over
    <3>2. pending'[e].queued => pending[e].queued
      BY <1>6
    <3> QED
      BY <1>1, <1>2, <2>1, <3>1, <3>2, NoClaim DEF LossBound
  <2> QED
    BY <2>2 DEF LossBound
<1> QED
  BY <1>7, <1>10, <1>11 DEF FanoutInv, Knowledge, Kept

\* What the sinks answered, in the tracker.
LEMMA ApplyFacts ==
    ASSUME NEW p \in [Events -> WellFormed], NEW d \in Events, NEW answer \in [Sinks -> Answers \cup {None}]
    PROVE  LET q == ApplySinkResults(p, d, answer)
               t == p[d]
               r == q[d]
               Got(A) == \E s \in Sinks : answer[s] \in A
           IN  /\ q \in [Events -> WellFormed] /\ \A e \in Events : e # d => q[e] = p[e]
               /\ (r.queued => t.queued) /\ (r.in_flight <=> t.in_flight) /\ (r.unknown_reported => t.unknown_reported)
               /\ r.delivered \/ r.buffered_by # {} =>
                     t.delivered \/ t.buffered_by # {} \/ Got({"Delivered", "Buffered"})
               /\ r.present /\ Got({"Delivered", "Buffered", "Unknown"}) =>
                     r.delivered \/ r.unknown \/ r.buffered_by # {}
<1> DEFINE With(x) == {s \in Sinks : answer[s] = x}
           others == {s \in Sinks : answer[s] # "Buffered"}
           o == OrDefault(p[d])
           u == [o EXCEPT !.buffered_by = (o.buffered_by \ others) \cup With("Buffered"),
                          !.delivered   = o.delivered \/ With("Delivered") # {},
                          !.unknown     = o.unknown \/ With("Unknown") # {}]
<1>1. ApplySinkResults(p, d, answer) = [p EXCEPT ![d] = Finalized(u)]
  BY DEF ApplySinkResults
<1>2. /\ o \in WellFormed /\ o.present /\ (o.queued <=> p[d].queued) /\ (o.in_flight <=> p[d].in_flight)
      /\ o.buffered_by = p[d].buffered_by /\ (o.delivered <=> p[d].delivered)
      /\ (o.unknown_reported <=> p[d].unknown_reported)
  BY OrDefaultFacts
<1> HIDE DEF o
<1>3. /\ u \in Tracker /\ u.present = o.present /\ u.queued = o.queued /\ u.in_flight = o.in_flight
      /\ u.unknown_reported = o.unknown_reported /\ u.buffered_by = (o.buffered_by \ others) \cup With("Buffered")
  BY ZenonT(60), <1>2 DEF WellFormed, Tracker
<1>4. (u.delivered <=> o.delivered \/ With("Delivered") # {}) /\ (u.unknown <=> o.unknown \/ With("Unknown") # {})
  BY <1>2 DEF WellFormed, Tracker
<1>5. u \in WellFormed
  BY <1>2, <1>3 DEF WellFormed
<1> HIDE DEF u
<1>6. /\ Finalized(u) \in WellFormed /\ (Finalized(u) = u \/ Finalized(u) = Absent)
      /\ (Finalized(u) = Absent => ~u.in_flight)
  BY <1>2, <1>3, <1>5, FinalizedFacts
<1>7. PICK r : r = Finalized(u) /\ r = ApplySinkResults(p, d, answer)[d]
  BY <1>1
<1>8. /\ (r.queued => p[d].queued) /\ (r.in_flight <=> p[d].in_flight) /\ (r.unknown_reported => p[d].unknown_reported)
  BY <1>2, <1>3, <1>6, <1>7, AbsentFields
<1>9. r.delivered \/ r.buffered_by # {} =>
         p[d].delivered \/ p[d].buffered_by # {} \/ \E s \in Sinks : answer[s] \in {"Delivered", "Buffered"}
  BY <1>2, <1>3, <1>4, <1>6, <1>7, AbsentFields
<1>10. r.present /\ (\E s \in Sinks : answer[s] \in {"Delivered", "Buffered", "Unknown"}) =>
          r.delivered \/ r.unknown \/ r.buffered_by # {}
  BY <1>3, <1>4, <1>6, <1>7, AbsentFields
<1>11. /\ ApplySinkResults(p, d, answer) \in [Events -> WellFormed]
       /\ \A e \in Events : e # d => ApplySinkResults(p, d, answer)[e] = p[e]
  BY <1>1, <1>6
<1> QED
  BY <1>7, <1>8, <1>9, <1>10, <1>11

\* The tracker when the worker is done with the record.
LEMMA DequeuedFacts ==
    ASSUME NEW p \in [Events -> WellFormed], NEW d \in Events
    PROVE  LET q == note_dequeued_record(p, d)
               t == p[d]
               r == q[d]
           IN  /\ q \in [Events -> WellFormed] /\ \A e \in Events : e # d => q[e] = p[e]
               /\ ~r.queued \/ ~t.present
               /\ ~r.in_flight
               /\ r.delivered \/ r.buffered_by # {} => t.delivered \/ t.buffered_by # {}
               /\ r.unknown_reported => t.unknown_reported \/ (t.present /\ t.unknown)
               /\ FinalLoss(p, d) => r = Absent /\ t.present /\ t.buffered_by = {} /\ ~t.delivered /\ ~t.unknown
               /\ t.present /\ ~FinalLoss(p, d) => t.delivered \/ t.unknown \/ t.buffered_by # {}
<1> DEFINE t == p[d]
           u == Dequeued(t)
           r == note_dequeued_record(p, d)[d]
<1>1. t \in WellFormed
  OBVIOUS
<1>2. note_dequeued_record(p, d) = [p EXCEPT ![d] = IF t.present THEN Finalized(u) ELSE t]
  BY DEF note_dequeued_record
<1>3. r = IF t.present THEN Finalized(u) ELSE t
  BY <1>2
<1>4. FinalLoss(p, d) <=> t.present /\ Resolved(u) /\ ~u.delivered /\ ~u.unknown
  BY DEF FinalLoss, IsFinalLoss
<1> HIDE DEF t, r
<1>5. /\ u \in Tracker /\ u.present = t.present /\ ~u.queued /\ ~u.in_flight /\ u.buffered_by = t.buffered_by
      /\ u.delivered = t.delivered /\ u.unknown = t.unknown
      /\ (u.unknown_reported <=> t.unknown_reported \/ t.unknown)
  BY <1>1 DEF Dequeued, WellFormed, Tracker
<1>6. ASSUME t.present PROVE u \in WellFormed
  BY <1>5, <1>6 DEF WellFormed
<1> HIDE DEF u
<1>7. t.present => /\ Finalized(u) \in WellFormed
                   /\ (Resolved(u) /\ Finalized(u) = Absent) \/ (~Resolved(u) /\ Finalized(u) = u)
                   /\ (Resolved(u) <=> t.buffered_by = {})
  BY <1>5, <1>6, FinalizedFacts DEF Finalized, Resolved
<1>8. r \in WellFormed /\ (~r.queued \/ ~t.present) /\ ~r.in_flight
  BY <1>1, <1>3, <1>5, <1>7, AbsentFields DEF WellFormed
<1>9. /\ r.delivered \/ r.buffered_by # {} => t.delivered \/ t.buffered_by # {}
      /\ r.unknown_reported => t.unknown_reported \/ (t.present /\ t.unknown)
  BY <1>3, <1>5, <1>7, AbsentFields
<1>10. /\ FinalLoss(p, d) => r = Absent /\ t.present /\ t.buffered_by = {} /\ ~t.delivered /\ ~t.unknown
       /\ t.present /\ ~FinalLoss(p, d) => t.delivered \/ t.unknown \/ t.buffered_by # {}
  BY <1>3, <1>4, <1>5, <1>7
<1>11. note_dequeued_record(p, d) \in [Events -> WellFormed] /\ \A e \in Events : e # d => note_dequeued_record(p, d)[e] = p[e]
  BY <1>2, <1>3, <1>8
<1> QED
  BY <1>8, <1>9, <1>10, <1>11 DEF t, r

LEMMA ApplyAnswersStep ==
    ASSUME FanoutInv, ApplyAnswers
    PROVE  FanoutInv'
<1>1. Types /\ Shape /\ Knowledge /\ LossBound /\ Kept
  BY DEF FanoutInv
<1>2. PICK d : d = worker.ev
  OBVIOUS
<1>3. /\ worker.pc = "answered" /\ pending' = ApplySinkResults(pending, d, worker.answer)
      /\ worker' = [worker EXCEPT !.pc = "applied"]
      /\ UNCHANGED <<tries, gone, channel, sinkVars, held, unk, accepted, maybe, flusher, dropper, lost, reported, counted>>
  BY <1>2 DEF ApplyAnswers, sinkVars
<1>4. /\ d \in Events /\ channel[d] = "taken" /\ Sends(d) /\ pending \in [Events -> WellFormed]
      /\ worker.answer \in [Sinks -> Answers \cup {None}]
  BY <1>1, <1>2, <1>3, TrackerTypes DEF Shape, Active, Sends, Types
<1>5. /\ worker'.pc = "applied" /\ worker'.ev = d /\ worker'.answer = worker.answer
      /\ worker' \in [pc : {"idle", "sending", "answered", "applied"} \cup Stopped, ev : Events \cup {None},
                      answer : [Sinks -> Answers \cup {None}], left : SUBSET Sinks]
  BY <1>1, <1>2, <1>3 DEF Types
<1>6. \A e : (Sends(e)' <=> e = d) /\ (Sends(e) <=> e = d)
  BY <1>2, <1>3, <1>5 DEF Sends, Active
<1>7. /\ pending' \in [Events -> WellFormed] /\ \A e \in Events : e # d => pending'[e] = pending[e]
      /\ pending'[d].queued => pending[d].queued
      /\ pending'[d].in_flight <=> pending[d].in_flight
      /\ pending'[d].unknown_reported => pending[d].unknown_reported
      /\ pending'[d].delivered \/ pending'[d].buffered_by # {} =>
            \/ pending[d].delivered \/ pending[d].buffered_by # {}
            \/ \E s \in Sinks : worker.answer[s] \in {"Delivered", "Buffered"}
      /\ pending'[d].present /\ (\E s \in Sinks : worker.answer[s] \in {"Delivered", "Buffered", "Unknown"}) =>
            pending'[d].delivered \/ pending'[d].unknown \/ pending'[d].buffered_by # {}
  BY <1>3, <1>4, ApplyFacts
<1>8. Types' /\ Shape'
  <2>1. Types'
    BY ZenonT(60), <1>1, <1>3, <1>5, <1>7, TrackersOf DEF Types
  <2> QED
    BY <1>1, <1>3, <1>4, <1>5, <2>1 DEF Shape
<1>9. \A e : (Seen(e)' <=> Seen(e)) /\ (Sampled(e)' <=> Sampled(e))
  BY <1>3, SeenSame
<1>10. \A e \in Events : Custody(e) => Custody(e)'
  BY <1>3, CustodySame
<1>11. ASSUME NEW e \in Events PROVE KnowledgeOf(e)' /\ KeptOf(e)'
  <2>1. KnowledgeOf(e) /\ KeptOf(e)
    BY <1>1, <1>3 DEF Knowledge, Kept, Ending
  <2>2. CASE e = d
    <3>1. KnowledgeOf(d)'
      BY <1>3, <1>4, <1>5, <1>6, <1>7, <1>9, <2>1, <2>2 DEF KnowledgeOf
    <3>2. channel'[d] = "taken" => Answered(d)'
      BY <1>6 DEF Answered
    <3>3. KeptOf(d)'
      BY <1>3, <1>4, <1>5, <1>6, <1>7, <1>9, <1>10, <2>1, <2>2, <3>2 DEF KeptOf
    <3> QED
      BY <2>2, <3>1, <3>3
  <2>3. CASE e # d
    <3>1. KnowledgeOf(e)'
      BY <1>3, <1>5, <1>6, <1>7, <1>9, <2>1, <2>3 DEF KnowledgeOf
    <3>2. channel'[e] = "taken" => Answered(e)'
      BY <1>3, <1>6, <1>10, <2>1, <2>3 DEF KeptOf, Answered
    <3>3. KeptOf(e)'
      BY <1>3, <1>6, <1>7, <1>9, <1>10, <2>1, <2>3, <3>2 DEF KeptOf
    <3> QED
      BY <3>1, <3>3
  <2> QED
    BY <2>2, <2>3
<1>12. LossBound'
  <2>1. \A e \in Events : Finished(e) => Finished(e)'
    BY <1>3, <1>6, <1>7, <1>9 DEF Finished
  <2>2. ASSUME NEW e \in Events PROVE LossOf(e)'
    <3>1. ~Over
      BY <1>3 DEF Over
    <3>2. pending'[e].queued => pending[e].queued
      BY <1>7
    <3> QED
      BY <1>1, <1>3, <2>1, <3>1, <3>2, NoClaim DEF LossBound
  <2> QED
    BY <2>2 DEF LossBound
<1> QED
  BY <1>8, <1>11, <1>12 DEF FanoutInv, Knowledge, Kept

LEMMA AddFacts ==
    ASSUME NEW f \in [Events -> Nat], NEW E
    PROVE  /\ Add(f, E) \in [Events -> Nat]
           /\ \A e \in Events : Add(f, E)[e] = IF e \in E THEN f[e] + 1 ELSE f[e]
  BY DEF Add

LEMMA SendFinishedStep ==
    ASSUME FanoutInv, SendFinished
    PROVE  FanoutInv'
<1>1. Types /\ Shape /\ Knowledge /\ LossBound /\ Kept
  BY DEF FanoutInv
<1>2. PICK d : d = worker.ev
  OBVIOUS
<1>3. /\ worker.pc = "applied" /\ pending' = note_dequeued_record(pending, d)
      /\ worker' = IdleWorker /\ lost' = Add(lost, IF FinalLoss(pending, d) THEN {d} ELSE {})
      /\ reported' = reported \cup (IF BecameUnknown(pending, d) THEN {d} ELSE {})
      /\ counted' = counted \cup (IF BecameUnknown(pending, d) THEN {d} ELSE {})
      /\ UNCHANGED <<tries, gone, channel, sinkVars, held, unk, accepted, maybe, flusher, dropper>>
  BY <1>2 DEF SendFinished, sinkVars
<1>4. /\ d \in Events /\ channel[d] = "taken" /\ Sends(d) /\ pending \in [Events -> WellFormed]
      /\ KnowledgeOf(d) /\ KeptOf(d)
  BY <1>1, <1>2, <1>3, TrackerTypes DEF Shape, Active, Sends, Knowledge, Kept, Ending
<1>5. /\ worker'.pc = "idle" /\ \A e : ~Sends(e)'
      /\ worker' \in [pc : {"idle", "sending", "answered", "applied"} \cup Stopped, ev : Events \cup {None},
                      answer : [Sinks -> Answers \cup {None}], left : SUBSET Sinks]
  BY <1>3 DEF IdleWorker, Sends, Active
<1>6. \A e : Sends(e) <=> e = d
  BY <1>2, <1>3 DEF Sends, Active
<1>7. /\ pending' \in [Events -> WellFormed] /\ \A e \in Events : e # d => pending'[e] = pending[e]
      /\ ~pending'[d].queued
      /\ ~pending'[d].in_flight
      /\ pending'[d].delivered \/ pending'[d].buffered_by # {} => pending[d].delivered \/ pending[d].buffered_by # {}
      /\ pending'[d].unknown_reported => pending[d].unknown_reported \/ (pending[d].present /\ pending[d].unknown)
      /\ FinalLoss(pending, d) => /\ pending'[d] = Absent /\ pending[d].present /\ pending[d].buffered_by = {}
                                  /\ ~pending[d].delivered /\ ~pending[d].unknown
      /\ pending[d].present /\ ~FinalLoss(pending, d) =>
            pending[d].delivered \/ pending[d].unknown \/ pending[d].buffered_by # {}
  <2>1. ~pending[d].present => pending[d] = Absent
    BY <1>4 DEF WellFormed
  <2>2. ~pending'[d].queued
    <3>1. ~pending[d].queued
      BY <1>4 DEF KnowledgeOf
    <3>2. CASE pending[d].present
      BY <1>3, <1>4, <3>2, DequeuedFacts
    <3>3. CASE ~pending[d].present
      BY <1>3, <1>4, <2>1, <3>3, AbsentFields DEF note_dequeued_record
    <3> QED
      BY <3>2, <3>3
  <2> QED
    BY <1>3, <1>4, <2>2, DequeuedFacts
<1>8. /\ lost' \in [Events -> Nat] /\ \A e \in Events : lost'[e] = IF e = d /\ FinalLoss(pending, d) THEN lost[e] + 1 ELSE lost[e]
      /\ \A e \in Events : lost[e] \in Nat /\ (lost[e] > 0 => lost'[e] > 0)
  <2>1. lost \in [Events -> Nat]
    BY <1>1 DEF Types
  <2>2. lost' \in [Events -> Nat] /\ \A e \in Events : lost'[e] = IF e \in (IF FinalLoss(pending, d) THEN {d} ELSE {}) THEN lost[e] + 1 ELSE lost[e]
    BY <1>3, <2>1, AddFacts
  <2> QED
    BY <2>1, <2>2
<1>9. Types' /\ Shape'
  <2>1. reported' \subseteq Events /\ counted' \subseteq Events
    BY <1>1, <1>3, <1>4 DEF Types
  <2>2. Types'
    BY <1>1, <1>3, <1>5, <1>7, <1>8, <2>1, TrackersOf DEF Types
  <2>3. worker'.pc \notin Active
    BY <1>5 DEF Active
  <2> QED
    BY <1>1, <1>3, <1>5, <2>2, <2>3 DEF Shape
<1>10. \A e : (Seen(e)' <=> Seen(e)) /\ (Sampled(e)' <=> Sampled(e))
  BY <1>3, SeenSame
<1>11. \A e \in Events : Custody(e) => Custody(e)'
  <2>1. reported \subseteq reported'
    BY <1>3
  <2> QED
    BY <1>3, <1>8, <2>1, CustodySame
<1>12. /\ pending[d].present /\ pending[d].unknown => d \in reported'
       /\ pending[d].unknown_reported => d \in reported'
  BY <1>3, <1>4 DEF BecameUnknown, KeptOf
<1>13. Custody(d)'
  <2>1. pending[d].in_flight => pending[d].present
    BY <1>4, AbsentFields DEF WellFormed
  <2>2. CASE FinalLoss(pending, d)
    BY <1>4, <1>8, <2>2 DEF Custody, AccountedFor
  <2>3. CASE ~FinalLoss(pending, d) /\ pending[d].in_flight
    <3>1. CASE pending[d].delivered \/ pending[d].buffered_by # {}
      BY <1>4, <1>11, <3>1 DEF KeptOf
    <3>2. CASE pending[d].unknown
      BY <1>12, <2>1, <2>3, <3>2 DEF Custody, AccountedFor
    <3> QED
      BY <1>7, <2>1, <2>3, <3>1, <3>2
  <2>4. CASE ~pending[d].in_flight
    BY <1>4, <1>11, <2>4 DEF KeptOf
  <2> QED
    BY <2>2, <2>3, <2>4
<1>14. ASSUME NEW e \in Events PROVE KnowledgeOf(e)' /\ KeptOf(e)'
  <2>1. KnowledgeOf(e) /\ KeptOf(e)
    BY <1>1, <1>3 DEF Knowledge, Kept, Ending
  <2>2. CASE e = d
    <3>1. KnowledgeOf(d)'
      BY <1>3, <1>4, <1>5, <1>7 DEF KnowledgeOf
    <3>2. KeptOf(d)'
      BY <1>3, <1>4, <1>5, <1>7, <1>8, <1>12, <1>13 DEF KeptOf, Answered
    <3> QED
      BY <2>2, <3>1, <3>2
  <2>3. CASE e # d
    <3>1. KnowledgeOf(e)'
      BY <1>3, <1>5, <1>6, <1>7, <1>10, <2>1, <2>3 DEF KnowledgeOf
    <3>2. channel'[e] = "taken" => Answered(e)'
      BY <1>3, <1>6, <1>11, <2>1, <2>3 DEF KeptOf, Answered
    <3>3. KeptOf(e)'
      BY <1>3, <1>5, <1>7, <1>8, <1>10, <1>11, <2>1, <2>3, <3>2 DEF KeptOf
    <3> QED
      BY <3>1, <3>3
  <2> QED
    BY <2>2, <2>3
<1>15. LossBound'
  <2>1. ~Over
    BY <1>3 DEF Over
  <2>2. ASSUME NEW e \in Events, e # d PROVE LossOf(e)'
    <3>1. Finished(e) => Finished(e)'
      BY <1>3, <1>5, <1>7, <1>10, <2>2 DEF Finished
    <3> QED
      BY <1>1, <1>3, <1>7, <1>8, <2>1, <2>2, <3>1, NoClaim DEF LossBound
  <2>3. LossOf(d)'
    <3>1. ~Finished(d) /\ ~pending[d].queued /\ tries[d] \in Nat /\ lost[d] \in Nat
      BY <1>1, <1>4, <1>8, FanoutAssumption DEF Finished, KnowledgeOf, Types
    <3>2. lost[d] <= tries[d]
      BY <1>1, <1>4, <2>1, <3>1 DEF LossBound, LossOf, Claims
    <3>3. CASE FinalLoss(pending, d)
      <4>1. ~Seen(d)
        BY <1>3, <1>4, <1>7, <3>3 DEF KnowledgeOf
      <4>2. Finished(d)'
        BY <1>3, <1>4, <1>5, <1>7, <1>10, <3>3, <4>1 DEF Finished
      <4>3. Claims(d)' = lost[d] + 1
        BY <1>4, <1>7, <1>8, <3>1, <3>3 DEF Claims
      <4> QED
        BY <1>3, <3>1, <3>2, <4>2, <4>3 DEF LossOf
    <3>4. CASE ~FinalLoss(pending, d)
      <4>1. Claims(d)' = lost[d]
        BY <1>4, <1>7, <1>8, <3>1, <3>4 DEF Claims
      <4> QED
        BY <1>3, <3>1, <3>2, <4>1 DEF LossOf
    <3> QED
      BY <3>3, <3>4
  <2> QED
    BY <2>2, <2>3 DEF LossBound
<1> QED
  BY <1>9, <1>14, <1>15 DEF FanoutInv, Knowledge, Kept

LEMMA SinkAnswersStep ==
    ASSUME FanoutInv, NEW s \in Sinks, NEW a \in Answers, SinkAnswers(s, a)
    PROVE  FanoutInv'
<1>1. Types /\ Shape /\ Knowledge /\ LossBound /\ Kept
  BY DEF FanoutInv
<1>2. PICK d : d = worker.ev
  OBVIOUS
<1>3. /\ worker.pc = "sending" /\ s \in worker.left /\ (a = "Buffered" => s \in BufferingSinks)
      /\ worker' = [worker EXCEPT !.answer[s] = a, !.left = @ \ {s},
                                  !.pc = IF worker.left = {s} THEN "answered" ELSE @]
      /\ held' = IF a = "Buffered" THEN [held EXCEPT ![s] = @ \cup {d}] ELSE held
      /\ accepted' = IF a = "Delivered" THEN [accepted EXCEPT ![s] = @ \cup {d}] ELSE accepted
      /\ maybe' = IF a = "Unknown" THEN maybe \cup {d} ELSE maybe
      /\ UNCHANGED <<tries, pending, gone, unk, channel, flusher, dropper, lost, reported, counted>>
  BY <1>2 DEF SinkAnswers
<1>4. d \in Events /\ channel[d] = "taken" /\ Sends(d)
  BY <1>1, <1>2, <1>3 DEF Shape, Active, Sends
<1>5. /\ worker'.pc \in {"sending", "answered"} /\ worker'.ev = d
      /\ worker' \in [pc : {"idle", "sending", "answered", "applied"} \cup Stopped, ev : Events \cup {None},
                      answer : [Sinks -> Answers \cup {None}], left : SUBSET Sinks]
      /\ worker'.left = worker.left \ {s} /\ worker.left \subseteq Sinks
      /\ worker'.answer[s] = a /\ \A r \in Sinks : r # s => worker'.answer[r] = worker.answer[r]
  <2>1. worker \in [pc : {"idle", "sending", "answered", "applied"} \cup Stopped, ev : Events \cup {None},
                    answer : [Sinks -> Answers \cup {None}], left : SUBSET Sinks]
    BY <1>1 DEF Types
  <2>2. /\ worker'.pc \in {"sending", "answered"} /\ worker'.ev = worker.ev /\ worker'.answer = [worker.answer EXCEPT ![s] = a]
        /\ worker'.left = worker.left \ {s}
    BY <1>3, <2>1
  <2>3. worker.answer \in [Sinks -> Answers \cup {None}]
    BY <2>1
  <2>4. worker'.answer \in [Sinks -> Answers \cup {None}]
    BY <2>2, <2>3
  <2> QED
    BY <1>2, <1>3, <2>1, <2>2, <2>3, <2>4
<1>6. \A e : (Sends(e)' <=> e = d) /\ (Sends(e) <=> e = d)
  BY <1>2, <1>3, <1>5 DEF Sends, Active
<1>7. /\ held' \in [Sinks -> SUBSET Events] /\ accepted' \in [Sinks -> SUBSET Events] /\ maybe' \subseteq Events
      /\ \A r \in Sinks \ BufferingSinks : held'[r] = {}
      /\ \A r \in Sinks : held[r] \subseteq held'[r] /\ accepted[r] \subseteq accepted'[r]
      /\ \A r \in Sinks : held'[r] \subseteq held[r] \cup {d} /\ accepted'[r] \subseteq accepted[r] \cup {d}
      /\ maybe' \subseteq maybe \cup {d}
      /\ a = "Buffered" => d \in held'[s]
      /\ a = "Delivered" => d \in accepted'[s]
      /\ a \notin {"Buffered", "Delivered", "Unknown"} => UNCHANGED <<held, accepted, maybe>>
  BY <1>1, <1>3, <1>4 DEF Types
<1>8. Types' /\ Shape'
  <2>1. Types'
    BY ZenonT(60), <1>1, <1>3, <1>5, <1>7 DEF Types
  <2> QED
    BY ZenonT(60), <1>1, <1>3, <1>4, <1>5, <2>1 DEF Shape
<1>9. \A e : /\ Seen(e)' => Seen(e) \/ (e = d /\ a \in {"Buffered", "Delivered", "Unknown"})
             /\ Sampled(e)' <=> Sampled(e)
  BY <1>3, <1>7 DEF Seen, Sampled, Taken, InSink
<1>10. \A e \in Events : (Custody(e) => Custody(e)') /\ (e = d /\ a \in {"Buffered", "Delivered"} => Custody(e)')
  BY <1>3, <1>7 DEF Custody, AccountedFor, Taken, InSink
<1>11. ASSUME NEW e \in Events PROVE KnowledgeOf(e)' /\ KeptOf(e)'
  <2>1. KnowledgeOf(e) /\ KeptOf(e)
    BY <1>1, <1>3 DEF Knowledge, Kept, Ending
  <2>2. CASE e = d
    <3>1. KnowledgeOf(d)'
      <4>1. Seen(d)' => \E r \in Sinks : worker'.answer[r] \in {"Delivered", "Buffered", "Unknown"}
        <5>1. CASE a \in {"Buffered", "Delivered", "Unknown"}
          BY <1>5, <5>1
        <5>2. CASE a \notin {"Buffered", "Delivered", "Unknown"} /\ Seen(d)
          <6>1. PICK r \in Sinks : worker.answer[r] \in {"Delivered", "Buffered", "Unknown"}
            BY <1>3, <1>6, <2>1, <2>2, <5>2 DEF KnowledgeOf
          <6>2. CASE r = s
            \* A sink answers once; left holds those that have not.
            BY <1>1, <1>3, <6>1, <6>2 DEF Shape, None
          <6>3. CASE r # s
            BY <1>5, <6>1, <6>3
          <6> QED
            BY <6>2, <6>3
        <5> QED
          BY <1>9, <5>1, <5>2
      <4>2. pending'[d].queued => ~Seen(d)'
        BY <1>3, <1>6, <2>1, <2>2 DEF KnowledgeOf
      <4> QED
        BY <1>3, <1>4, <1>5, <1>6, <2>1, <2>2, <4>1, <4>2 DEF KnowledgeOf
    <3>2. Answered(d)'
      BY <1>6 DEF Answered
    <3>3. (\E r \in Sinks : worker'.answer[r] \in {"Delivered", "Buffered"}) => Custody(d)'
      BY ZenonT(60), <1>3, <1>5, <1>6, <1>10, <2>1, <2>2 DEF KeptOf
    <3>4. KeptOf(d)'
      BY <1>3, <1>4, <1>6, <1>9, <1>10, <2>1, <2>2, <3>2, <3>3 DEF KeptOf
    <3> QED
      BY <2>2, <3>1, <3>4
  <2>3. CASE e # d
    <3>1. KnowledgeOf(e)'
      BY <1>3, <1>5, <1>6, <1>9, <2>1, <2>3 DEF KnowledgeOf
    <3>2. channel'[e] = "taken" => Answered(e)'
      BY <1>3, <1>6, <1>10, <2>1, <2>3 DEF KeptOf, Answered
    <3>3. KeptOf(e)'
      BY <1>3, <1>6, <1>9, <1>10, <2>1, <2>3, <3>2 DEF KeptOf
    <3> QED
      BY <3>1, <3>3
  <2> QED
    BY <2>2, <2>3
<1>12. LossBound'
  <2>1. \A e \in Events : Finished(e) => Finished(e)'
    BY <1>3, <1>6, <1>9 DEF Finished
  <2>2. ASSUME NEW e \in Events PROVE LossOf(e)'
    <3>1. ~Over
      BY <1>3 DEF Over
    <3> QED
      BY <1>1, <1>3, <2>1, <3>1, NoClaim DEF LossBound
  <2> QED
    BY <2>2 DEF LossBound
<1> QED
  BY <1>8, <1>11, <1>12 DEF FanoutInv, Knowledge, Kept

-----------------------------------------------------------------------------
(* The flusher. *)

\* A step of a flush that leaves the trackers and the counters alone.
LEMMA FlushFrame ==
    ASSUME FanoutInv, Types',
           UNCHANGED <<tries, pending, gone, channel, worker, dropper, lost, reported, counted>>,
           flusher'.pc \notin {"taken", "sampled"} => flusher'.ids = {},
           \A e \in Events : /\ Seen(e)' => Seen(e)
                             /\ Custody(e) => Custody(e)'
                             /\ Sampled(e)' => Sampled(e) \/ Custody(e)'
    PROVE  FanoutInv'
<1>1. Types /\ Shape /\ Knowledge /\ LossBound /\ Kept
  BY DEF FanoutInv
<1>2. Shape'
  BY <1>1 DEF Shape
<1>3. ASSUME NEW e \in Events PROVE KnowledgeOf(e)' /\ LossOf(e)' /\ (worker.pc \notin Ending => KeptOf(e)')
  <2>1. KnowledgeOf(e)' /\ (Finished(e) => Finished(e)')
    BY <1>1, Untouched DEF Knowledge
  <2>2. LossOf(e)'
    BY <1>1, <2>1, NoClaim DEF LossBound, Over
  <2>3. worker.pc \notin Ending => KeptOf(e)'
    BY <1>1, KeptUntouched DEF Kept
  <2> QED
    BY <2>1, <2>2, <2>3
<1> QED
  BY <1>2, <1>3 DEF FanoutInv, Knowledge, LossBound, Kept

LEMMA SinkFlushStep ==
    ASSUME FanoutInv, NEW s \in BufferingSinks, SinkFlush(s)
    PROVE  FanoutInv'
<1>1. Types /\ Shape
  BY DEF FanoutInv
<1>2. PICK took \in SUBSET held[s], open \in SUBSET held[s] :
        /\ held' = [held EXCEPT ![s] = @ \ (took \cup open)]
        /\ accepted' = [accepted EXCEPT ![s] = @ \cup took]
        /\ unk' = [unk EXCEPT ![s] = @ \cup open]
        /\ maybe' = maybe \cup open
        /\ UNCHANGED <<tries, pending, gone, channel, worker, flusher, dropper, lost, reported, counted>>
  BY DEF SinkFlush
<1>3. /\ s \in Sinks /\ held[s] \subseteq Events
      /\ held' \in [Sinks -> SUBSET Events] /\ accepted' \in [Sinks -> SUBSET Events]
      /\ unk' \in [Sinks -> SUBSET Events] /\ maybe' \subseteq Events
      /\ \A r \in Sinks \ BufferingSinks : held'[r] = {}
  BY <1>1, <1>2, FanoutAssumption DEF Types
<1>4. Types'
  BY <1>1, <1>2, <1>3 DEF Types
<1>5. \A r \in Sinks : /\ held'[r] \subseteq held[r] /\ accepted[r] \subseteq accepted'[r]
                       /\ accepted'[r] \subseteq accepted[r] \cup held[r]
                       /\ unk[r] \subseteq unk'[r] /\ unk'[r] \subseteq unk[r] \cup held[r]
                       /\ held[r] \subseteq held'[r] \cup unk'[r] \cup accepted'[r]
  BY <1>1, <1>2 DEF Types
<1>6. maybe' \subseteq maybe \cup held[s]
  BY <1>2
<1>7. \A e \in Events : (Seen(e)' => Seen(e)) /\ (Sampled(e)' => Sampled(e))
  BY <1>2, <1>3, <1>5, <1>6 DEF Seen, Sampled, Taken, InSink
<1>8. \A e \in Events : Custody(e) => Custody(e)'
  BY <1>2, <1>5 DEF Custody, AccountedFor, Taken, InSink
<1>9. flusher'.pc \notin {"taken", "sampled"} => flusher'.ids = {}
  BY <1>1, <1>2 DEF Shape
<1> QED
  BY <1>2, <1>4, <1>7, <1>8, <1>9, FlushFrame

LEMMA TakeUnknownStep ==
    ASSUME FanoutInv, TakeUnknown("idle", "taken")
    PROVE  FanoutInv'
<1>1. Types /\ Shape
  BY DEF FanoutInv
<1>2. /\ flusher.pc = "idle" /\ flusher' = [flusher EXCEPT !.pc = "taken", !.ids = AllUnknown] /\ unk' = Nothing
      /\ UNCHANGED <<tries, pending, gone, held, accepted, maybe, channel, worker, dropper, lost, reported, counted>>
  BY DEF TakeUnknown
<1>3. AllUnknown \subseteq Events /\ flusher.ids = {} /\ \A e : e \in AllUnknown <=> \E s \in Sinks : e \in unk[s]
  BY <1>1, <1>2 DEF AllUnknown, Types, Shape
<1>4. /\ flusher'.pc = "taken" /\ flusher'.ids = AllUnknown /\ flusher'.sample = flusher.sample
      /\ flusher' \in [pc : {"idle", "taken", "sampled", "consumed", "resampled", "refreshed"},
                       ids : SUBSET Events, sample : [Sinks -> SUBSET Events]]
      /\ unk' \in [Sinks -> SUBSET Events] /\ \A s \in Sinks : unk'[s] = {}
  BY <1>1, <1>2, <1>3 DEF Types, Nothing
<1>5. Types'
  BY <1>1, <1>2, <1>4 DEF Types
<1>6. \A e \in Events : (Seen(e)' => Seen(e)) /\ (Sampled(e)' => Sampled(e))
  BY <1>2, <1>3, <1>4 DEF Seen, Sampled, Taken, InSink
<1>7. \A e \in Events : Custody(e) => Custody(e)'
  BY <1>2, <1>3, <1>4 DEF Custody, AccountedFor, Taken, InSink
<1> QED
  BY <1>2, <1>4, <1>5, <1>6, <1>7, FlushFrame

LEMMA SampleBuffersStep ==
    ASSUME FanoutInv, SampleBuffers("taken", "sampled") \/ SampleBuffers("consumed", "resampled")
    PROVE  FanoutInv'
<1>1. Types /\ Shape
  BY DEF FanoutInv
<1>2. PICK pc \in {"sampled", "resampled"} : flusher' = [flusher EXCEPT !.pc = pc, !.sample = held]
  BY DEF SampleBuffers
<1>3. /\ UNCHANGED <<tries, pending, gone, sinkVars, held, unk, accepted, maybe, channel, worker, dropper, lost, reported, counted>>
      /\ pc = "resampled" => flusher.pc = "consumed"
  BY <1>1, <1>2 DEF SampleBuffers, sinkVars, Types
<1>4. /\ flusher'.pc = pc /\ flusher'.ids = flusher.ids /\ flusher'.sample = held
      /\ flusher' \in [pc : {"idle", "taken", "sampled", "consumed", "resampled", "refreshed"},
                       ids : SUBSET Events, sample : [Sinks -> SUBSET Events]]
  BY <1>1, <1>2 DEF Types
<1>5. Types'
  BY <1>1, <1>3, <1>4 DEF Types
<1>6. \A e \in Events : (Seen(e)' => Seen(e)) /\ (Sampled(e)' => Sampled(e) \/ InSink(e))
  BY <1>3, <1>4 DEF Seen, Sampled, Taken, InSink
<1>7. \A e \in Events : (Custody(e) => Custody(e)') /\ (InSink(e) => Custody(e)')
  BY <1>3, <1>4 DEF Custody, AccountedFor, Taken, InSink
<1>8. flusher'.pc \notin {"taken", "sampled"} => flusher'.ids = {}
  BY <1>1, <1>2, <1>3, <1>4 DEF Shape
<1> QED
  BY <1>3, <1>5, <1>6, <1>7, <1>8, FlushFrame

\* How a look at the sinks changes one tracker: it learns of the event only
\* where known says that the look shows it.
Follows(t, r, known) ==
    /\ r \in WellFormed
    /\ (r.queued => t.queued) /\ (r.in_flight => t.in_flight)
    /\ r.delivered \/ r.buffered_by # {} => t.delivered \/ t.buffered_by # {} \/ known
    /\ ~known /\ t.buffered_by = {} => r = t \/ r = Absent
    /\ r.present /\ ~r.delivered /\ ~r.unknown /\ r.buffered_by = {} => r = t

LEMMA LookStep ==
    ASSUME FanoutInv, UNCHANGED <<tries, gone, channel, worker, dropper, lost>>, reported \subseteq reported',
           \A e \in Events : /\ Follows(pending[e], pending'[e], Seen(e)) /\ (Seen(e)' => Seen(e))
                             /\ Sampled(e)' => Sampled(e),
           worker.pc \notin Ending =>
              \A e \in Events : /\ Custody(e) => Custody(e)'
                                /\ pending'[e].delivered \/ pending'[e].buffered_by # {} =>
                                      pending[e].delivered \/ pending[e].buffered_by # {} \/ Custody(e)
                                /\ pending'[e].unknown_reported => e \in reported'
                                /\ pending[e].queued => pending'[e].queued \/ lost[e] > 0
                                /\ pending[e].in_flight => pending'[e].in_flight \/ Custody(e)'
    PROVE  Knowledge' /\ LossBound' /\ Kept'
<1>1. Types /\ Shape /\ Knowledge /\ LossBound /\ Kept
  BY DEF FanoutInv
<1>2. \A e \in Events : Sends(e)' <=> Sends(e)
  BY DEF Sends
<1>3. ASSUME NEW e \in Events PROVE KnowledgeOf(e)'
  <2>1. KnowledgeOf(e) /\ Follows(pending[e], pending'[e], Seen(e)) /\ (Seen(e)' => Seen(e))
    BY <1>1 DEF Knowledge
  <2>2. channel'[e] # "taken" => ~Seen(e)' /\ pending'[e] \in {Absent, Waiting}
    BY <2>1, AbsentFields, WaitingFields DEF KnowledgeOf, Follows
  <2>3. pending'[e].queued => ~Seen(e)' /\ pending'[e] = Waiting
    BY <2>1, AbsentFields, WaitingFields DEF KnowledgeOf, Follows
  <2>4. /\ pending'[e].in_flight => Sends(e)' \/ worker'.pc \in {"dead", "cleared"}
        /\ Sends(e)' => ~pending'[e].queued
    BY <1>2, <2>1 DEF KnowledgeOf, Follows
  <2>5. /\ Sends(e)' /\ worker'.pc # "applied" /\ Seen(e)' =>
              \E s \in Sinks : worker'.answer[s] \in {"Delivered", "Buffered", "Unknown"}
        /\ Sends(e)' /\ worker'.pc = "applied" /\ pending'[e].present /\ ~pending'[e].delivered
              /\ ~pending'[e].unknown /\ pending'[e].buffered_by = {} => ~Seen(e)'
    BY <1>2, <2>1 DEF KnowledgeOf, Follows
  <2> QED
    BY <2>2, <2>3, <2>4, <2>5 DEF KnowledgeOf
<1>4. ASSUME NEW e \in Events PROVE LossOf(e)'
  <2>1. Finished(e) => Finished(e)'
    BY <1>2, AbsentFields DEF Finished, Follows
  <2> QED
    BY <1>1, <2>1, NoClaim DEF LossBound, Over, Follows
<1>5. ASSUME worker.pc \notin Ending, NEW e \in Events PROVE KeptOf(e)'
  <2>1. KeptOf(e)
    BY <1>1, <1>5 DEF Kept
  <2>2. Custody(e) => Custody(e)'
    BY <1>5
  <2>3. channel'[e] = "taken" => Answered(e)'
    <3>1. lost[e] > 0 => Custody(e)'
      BY DEF Custody, AccountedFor
    <3> QED
      BY <1>2, <1>5, <2>1, <2>2, <3>1 DEF KeptOf, Answered
  <2>4. /\ pending'[e].delivered \/ pending'[e].buffered_by # {} \/ Sampled(e)' => Custody(e)'
        /\ pending'[e].unknown_reported => e \in reported'
    BY <1>5, <2>1, <2>2 DEF KeptOf
  <2>5. /\ e \in gone' \/ (dropper'.pc \in {"purge", "forget"} /\ e \in dropper'.ids) => lost'[e] > 0
        /\ channel'[e] \in {"noted", "queued"} => pending'[e].queued \/ lost'[e] > 0
    BY <1>5, <2>1 DEF KeptOf
  <2>6. /\ Sends(e)' => pending'[e].in_flight \/ Custody(e)'
        /\ Sends(e)' /\ worker'.pc # "applied" /\ (\E s \in Sinks : worker'.answer[s] \in {"Delivered", "Buffered"})
              => Custody(e)'
    BY <1>2, <1>5, <2>1, <2>2 DEF KeptOf
  <2> QED
    BY <2>3, <2>4, <2>5, <2>6 DEF KeptOf
<1> QED
  BY <1>3, <1>4, <1>5 DEF Knowledge, LossBound, Kept

LEMMA RefreshFacts ==
    ASSUME NEW p \in [Events -> WellFormed], NEW h \in [Sinks -> SUBSET Events], NEW g
    PROVE  LET q == refresh_pending_records_from_buffers(p, h, g)
           IN  /\ q \in [Events -> WellFormed]
               /\ \A e \in Events :
                     /\ Follows(p[e], q[e], \E s \in Sinks : e \in h[s])
                     /\ q[e].unknown_reported => p[e].unknown_reported
                     /\ e \notin g => (p[e].queued => q[e].queued) /\ (p[e].in_flight => q[e].in_flight)
<1> DEFINE q == refresh_pending_records_from_buffers(p, h, g)
<1>1. ASSUME NEW e \in Events
      PROVE  /\ Follows(p[e], q[e], \E s \in Sinks : e \in h[s])
             /\ q[e].unknown_reported => p[e].unknown_reported
             /\ e \notin g => (p[e].queued => q[e].queued) /\ (p[e].in_flight => q[e].in_flight)
  <2> DEFINE now == {s \in Sinks : e \in h[s]}
  <2>1. PICK t : t = p[e] /\ t \in WellFormed
    OBVIOUS
  <2>2. PICK c : c = SyncTracker(t, e, h, g)
    OBVIOUS
  <2>3. PICK r : r = q[e] /\ r = IF c.unknown THEN c ELSE Finalized(c)
    BY <2>1, <2>2 DEF refresh_pending_records_from_buffers
  <2>4. Synced(t, c, now, e \in g)
    BY <2>1, <2>2, SyncFacts
  <2>5. now # {} <=> \E s \in Sinks : e \in h[s]
    OBVIOUS
  <2> HIDE DEF now
  <2>6. r \in WellFormed /\ (r = c \/ (r = Absent /\ (~c.present \/ (~c.queued /\ ~c.in_flight))))
    BY <2>3, <2>4, FinalizedFacts DEF Synced
  <2>7. c.queued \/ c.in_flight => c.present
    BY <2>4, AbsentFields DEF WellFormed, Synced
  <2>8. (r.queued => t.queued) /\ (r.in_flight => t.in_flight) /\ (r.unknown_reported => t.unknown_reported)
    BY <2>4, <2>6, AbsentFields DEF Synced
  <2>9. /\ r.delivered \/ r.buffered_by # {} => t.delivered \/ t.buffered_by # {} \/ now # {}
        /\ now = {} /\ t.buffered_by = {} => r = t \/ r = Absent
    BY <2>4, <2>6, AbsentFields DEF Synced
  <2>10. r.present /\ ~r.delivered /\ ~r.unknown /\ r.buffered_by = {} => r = t
    BY <2>4, <2>6, AbsentFields DEF Synced
  <2>11. e \notin g => (t.queued => r.queued) /\ (t.in_flight => r.in_flight)
    BY <2>4, <2>6, <2>7 DEF Synced
  <2> HIDE DEF q
  <2> QED
    BY <2>1, <2>3, <2>5, <2>6, <2>8, <2>9, <2>10, <2>11 DEF Follows
<1>2. q \in [Events -> WellFormed]
  <2>1. \A e \in Events : q[e] \in WellFormed
    <3> HIDE DEF q
    <3> QED
      BY <1>1 DEF Follows
  <2> QED
    BY <2>1 DEF refresh_pending_records_from_buffers
<1> QED
  BY <1>1, <1>2

LEMMA ConsumeFacts ==
    ASSUME NEW p \in [Events -> WellFormed], NEW ids \in SUBSET Events, NEW h \in [Sinks -> SUBSET Events], NEW g
    PROVE  LET q == consume_unknown_sink_events(p, ids, h, g)
           IN  /\ q \in [Events -> WellFormed]
               /\ \A e \in Events :
                     /\ Follows(p[e], q[e], e \in ids \/ \E s \in Sinks : e \in h[s])
                     /\ q[e].unknown_reported => p[e].unknown_reported \/ (e \in ids /\ e \notin g)
                     /\ e \notin g /\ e \notin ids => (p[e].queued => q[e].queued) /\ (p[e].in_flight => q[e].in_flight)
                     /\ e \in ids /\ e \notin g => e \in ConsumedUnknown(p, ids, h, g) \/ p[e].unknown_reported
               /\ ConsumedUnknown(p, ids, h, g) \subseteq ids
<1> DEFINE q == consume_unknown_sink_events(p, ids, h, g)
<1>1. CASE ids = {}
  <2>1. q = p
    BY <1>1 DEF consume_unknown_sink_events
  <2> QED
    BY <1>1, <2>1 DEF Follows, ConsumedUnknown, WellFormed
<1>2. CASE ids # {}
  <2>1. ASSUME NEW e \in Events
        PROVE  /\ Follows(p[e], q[e], e \in ids \/ \E s \in Sinks : e \in h[s])
               /\ q[e].unknown_reported => p[e].unknown_reported \/ (e \in ids /\ e \notin g)
               /\ e \notin g /\ e \notin ids => (p[e].queued => q[e].queued) /\ (p[e].in_flight => q[e].in_flight)
               /\ e \in ids /\ e \notin g => e \in ConsumedUnknown(p, ids, h, g) \/ p[e].unknown_reported
    <3> DEFINE now == {s \in Sinks : e \in h[s]}
    <3>1. PICK t : t = p[e] /\ t \in WellFormed
      OBVIOUS
    <3>2. PICK c : c = SyncTracker(t, e, h, g)
      OBVIOUS
    <3>3. Synced(t, c, now, e \in g)
      BY <3>1, <3>2, SyncFacts
    <3>4. now # {} <=> \E s \in Sinks : e \in h[s]
      OBVIOUS
    <3>5. q[e] = IF e \in ids \ g
                 THEN Finalized([OrDefault(c) EXCEPT !.queued = FALSE, !.in_flight = FALSE,
                                                     !.unknown = TRUE, !.unknown_reported = TRUE])
                 ELSE c
      BY <1>2, <3>1, <3>2 DEF consume_unknown_sink_events, sync_pending_records_with_buffers
    <3>6. e \in ids /\ e \notin g => e \in ConsumedUnknown(p, ids, h, g) \/ t.unknown_reported
      BY <3>1, <3>2, <3>3 DEF Synced, ConsumedUnknown, sync_pending_records_with_buffers
    <3> HIDE DEF now, q
    <3>7. CASE e \notin ids \ g
      <4>1. q[e] = c
        BY <3>5, <3>7
      <4>2. Follows(t, c, e \in ids \/ now # {})
        BY <3>3, <3>7, AbsentFields DEF Follows, Synced
      <4> QED
        BY <3>1, <3>3, <3>4, <3>6, <3>7, <4>1, <4>2 DEF Synced
    <3>8. CASE e \in ids \ g
      <4>1. PICK o : o = OrDefault(c)
        OBVIOUS
      <4>2. o \in Tracker /\ o.present /\ o.buffered_by = c.buffered_by /\ (o.delivered <=> c.delivered)
        BY <3>3, <4>1, OrDefaultFacts DEF WellFormed, Synced
      <4>3. PICK u : u = [o EXCEPT !.queued = FALSE, !.in_flight = FALSE, !.unknown = TRUE, !.unknown_reported = TRUE]
        OBVIOUS
      <4>4. /\ u \in WellFormed /\ ~u.queued /\ ~u.in_flight /\ u.unknown
            /\ u.buffered_by = c.buffered_by /\ (u.delivered <=> c.delivered)
        BY <4>2, <4>3 DEF WellFormed, Tracker
      <4>5. q[e] = Finalized(u)
        BY <3>5, <3>8, <4>1, <4>3
      <4>6. q[e] \in WellFormed /\ (q[e] = u \/ q[e] = Absent)
        BY <4>4, <4>5, FinalizedFacts
      <4>7. Follows(t, q[e], TRUE)
        BY <3>3, <4>4, <4>6, AbsentFields DEF Follows, Synced
      <4>8. Follows(p[e], q[e], e \in ids \/ \E s \in Sinks : e \in h[s])
        BY <3>1, <3>8, <4>7 DEF Follows
      <4> QED
        BY <3>1, <3>6, <3>8, <4>8
    <3> QED
      BY <3>7, <3>8
  <2>2. q \in [Events -> WellFormed]
    <3>1. \A e \in Events : q[e] \in WellFormed
      <4> HIDE DEF q
      <4> QED
        BY <2>1 DEF Follows
    <3> QED
      BY <1>2, <3>1 DEF consume_unknown_sink_events
  <2>3. ConsumedUnknown(p, ids, h, g) \subseteq ids
    BY DEF ConsumedUnknown
  <2> HIDE DEF q
  <2>4. /\ q \in [Events -> WellFormed]
        /\ \A e \in Events :
              /\ Follows(p[e], q[e], e \in ids \/ \E s \in Sinks : e \in h[s])
              /\ q[e].unknown_reported => p[e].unknown_reported \/ (e \in ids /\ e \notin g)
              /\ e \notin g /\ e \notin ids => (p[e].queued => q[e].queued) /\ (p[e].in_flight => q[e].in_flight)
              /\ e \in ids /\ e \notin g => e \in ConsumedUnknown(p, ids, h, g) \/ p[e].unknown_reported
        /\ ConsumedUnknown(p, ids, h, g) \subseteq ids
    BY <2>1, <2>2, <2>3
  <2> QED
    BY <2>4 DEF q
<1> QED
  BY <1>1, <1>2

LEMMA IdleFacts ==
    /\ Idle.ids = {} /\ Idle.pc = "idle" /\ \A s \in Sinks : Idle.sample[s] = {}
    /\ \A pc : LET f == [Idle EXCEPT !.pc = pc] IN f.pc = pc /\ f.ids = {} /\ f.sample = Nothing
    /\ \A s \in Sinks : Nothing[s] = {}
    /\ Nothing \in [Sinks -> SUBSET Events]
    /\ Idle = [pc |-> "idle", ids |-> {}, sample |-> Nothing]
  BY DEF Idle, Nothing

LEMMA RefreshStep ==
    ASSUME FanoutInv, Refresh
    PROVE  FanoutInv'
<1>1. Types /\ Shape /\ Knowledge /\ LossBound /\ Kept
  BY DEF FanoutInv
<1>2. /\ flusher.pc = "resampled" /\ pending' = refresh_pending_records_from_buffers(pending, flusher.sample, gone)
      /\ flusher' = [Idle EXCEPT !.pc = "refreshed"]
      /\ UNCHANGED <<tries, gone, sinkVars, held, unk, accepted, maybe, channel, worker, dropper, lost, reported, counted>>
  BY DEF Refresh, sinkVars
<1>3. pending \in [Events -> WellFormed] /\ flusher.sample \in [Sinks -> SUBSET Events] /\ flusher.ids = {}
  BY <1>1, <1>2, TrackerTypes DEF Types, Shape
<1>4. /\ pending' \in [Events -> WellFormed]
      /\ \A e \in Events :
            /\ Follows(pending[e], pending'[e], \E s \in Sinks : e \in flusher.sample[s])
            /\ pending'[e].unknown_reported => pending[e].unknown_reported
            /\ e \notin gone => (pending[e].queued => pending'[e].queued) /\ (pending[e].in_flight => pending'[e].in_flight)
  BY <1>2, <1>3, RefreshFacts
<1>5. flusher'.pc = "refreshed" /\ flusher'.ids = {} /\ flusher'.sample = Nothing
  BY <1>2, IdleFacts
<1>6. Types' /\ Shape'
  <2>1. flusher' \in [pc : {"idle", "taken", "sampled", "consumed", "resampled", "refreshed"},
                      ids : SUBSET Events, sample : [Sinks -> SUBSET Events]]
    BY <1>2, IdleFacts
  <2>2. Types'
    BY <1>1, <1>2, <1>4, <2>1, TrackersOf DEF Types
  <2> QED
    BY <1>1, <1>2, <1>5, <2>2 DEF Shape
<1>7. \A e \in Events : (Seen(e)' => Seen(e)) /\ (Sampled(e)' => Sampled(e))
  BY <1>2, <1>5, IdleFacts DEF Seen, Sampled, Taken, InSink
<1>8. \A e \in Events : Custody(e) => Custody(e)'
  BY <1>2, <1>3 DEF Custody, AccountedFor, Taken, InSink
<1>9. \A e \in Events : (\E s \in Sinks : e \in flusher.sample[s]) => Seen(e) /\ Sampled(e)
  BY DEF Seen, Sampled
<1>10. \A e \in Events : Follows(pending[e], pending'[e], Seen(e))
  BY <1>4, <1>9 DEF Follows
<1>11. ASSUME worker.pc \notin Ending, NEW e \in Events
       PROVE  /\ pending'[e].delivered \/ pending'[e].buffered_by # {} =>
                    pending[e].delivered \/ pending[e].buffered_by # {} \/ Custody(e)
              /\ pending'[e].unknown_reported => e \in reported'
              /\ pending[e].queued => pending'[e].queued \/ lost[e] > 0
              /\ pending[e].in_flight => pending'[e].in_flight \/ Custody(e)'
  <2>1. KeptOf(e)
    BY <1>1, <1>11 DEF Kept
  <2>2. e \in gone => lost[e] > 0 /\ Custody(e)
    BY <2>1 DEF KeptOf, Custody, AccountedFor
  <2>3. Sampled(e) => Custody(e)
    BY <2>1 DEF KeptOf
  <2> QED
    BY <1>2, <1>4, <1>8, <1>9, <2>1, <2>2, <2>3 DEF KeptOf, Follows
<1>12. Knowledge' /\ LossBound' /\ Kept'
  BY <1>2, <1>7, <1>8, <1>10, <1>11, LookStep
<1> QED
  BY <1>6, <1>12 DEF FanoutInv

\* A consume, of the flusher's own ids or of the caller's.
LEMMA ConsumeStep ==
    ASSUME FanoutInv, NEW ids \in SUBSET Events, NEW h \in [Sinks -> SUBSET Events],
           pending' = consume_unknown_sink_events(pending, ids, h, gone),
           reported' = reported \cup ConsumedUnknown(pending, ids, h, gone),
           flusher' = Idle \/ flusher' = [Idle EXCEPT !.pc = "consumed"],
           UNCHANGED <<tries, gone, held, accepted, maybe, channel, worker, dropper, lost>>,
           unk' = unk \/ unk' = Nothing, counted' \subseteq Events,
           \A e \in Events : /\ e \in ids \/ (\E s \in Sinks : e \in h[s]) => Seen(e)
                             /\ (\E s \in Sinks : e \in h[s]) => Sampled(e) \/ InSink(e)
                             /\ e \in ids => Custody(e)
                             /\ e \in flusher.ids \/ (\E s \in Sinks : e \in unk[s] /\ e \notin unk'[s]) => e \in ids
    PROVE  FanoutInv'
<1>1. Types /\ Shape /\ Knowledge /\ LossBound /\ Kept
  BY DEF FanoutInv
<1>2. pending \in [Events -> WellFormed]
  BY <1>1, TrackerTypes
<1>3. /\ pending' \in [Events -> WellFormed]
      /\ \A e \in Events :
            /\ Follows(pending[e], pending'[e], e \in ids \/ \E s \in Sinks : e \in h[s])
            /\ pending'[e].unknown_reported => pending[e].unknown_reported \/ (e \in ids /\ e \notin gone)
            /\ e \notin gone /\ e \notin ids =>
                  (pending[e].queued => pending'[e].queued) /\ (pending[e].in_flight => pending'[e].in_flight)
            /\ e \in ids /\ e \notin gone => e \in ConsumedUnknown(pending, ids, h, gone) \/ pending[e].unknown_reported
      /\ ConsumedUnknown(pending, ids, h, gone) \subseteq ids
  BY <1>2, ConsumeFacts
<1>4. flusher'.pc \in {"idle", "consumed"} /\ flusher'.ids = {} /\ flusher'.sample = Nothing
  BY IdleFacts
<1>5. Types' /\ Shape'
  <2>1. flusher' \in [pc : {"idle", "taken", "sampled", "consumed", "resampled", "refreshed"},
                      ids : SUBSET Events, sample : [Sinks -> SUBSET Events]]
    BY IdleFacts
  <2>2. unk' \in [Sinks -> SUBSET Events] /\ reported' \subseteq Events
    BY <1>1, <1>3, IdleFacts DEF Types
  <2>3. Types'
    BY <1>1, <1>3, <2>1, <2>2, TrackersOf DEF Types
  <2> QED
    BY <1>1, <1>4, <2>3 DEF Shape
<1>6. \A e \in Events : (Seen(e)' => Seen(e)) /\ (Sampled(e)' => Sampled(e))
  <2>1. \A s \in Sinks : unk'[s] \subseteq unk[s]
    BY IdleFacts
  <2> QED
    BY <1>4, <2>1, IdleFacts DEF Seen, Sampled, Taken, InSink
<1>7. \A e \in Events : Follows(pending[e], pending'[e], Seen(e))
  <2>1. \A e \in Events : e \in ids \/ (\E s \in Sinks : e \in h[s]) => Seen(e)
    OBVIOUS
  <2> QED
    BY <1>3, <2>1 DEF Follows
<1>8. ASSUME worker.pc \notin Ending, NEW e \in Events
      PROVE  /\ Custody(e) => Custody(e)'
             /\ pending'[e].delivered \/ pending'[e].buffered_by # {} =>
                   pending[e].delivered \/ pending[e].buffered_by # {} \/ Custody(e)
             /\ pending'[e].unknown_reported => e \in reported'
             /\ pending[e].queued => pending'[e].queued \/ lost[e] > 0
             /\ pending[e].in_flight => pending'[e].in_flight \/ Custody(e)'
  <2>1. KeptOf(e) /\ KnowledgeOf(e)
    BY <1>1, <1>8 DEF Kept, Knowledge
  <2>2. e \in gone => lost[e] > 0 /\ Custody(e)'
    BY <2>1 DEF KeptOf, Custody, AccountedFor
  <2>3. e \in ids /\ e \notin gone => e \in reported' /\ Custody(e)'
    BY <1>3, <2>1 DEF KeptOf, Custody, AccountedFor
  <2>4. Custody(e) => Custody(e)'
    <3>1. CASE e \in ids
      BY <2>2, <2>3, <3>1
    <3>2. CASE e \notin ids
      BY <3>2 DEF Custody, AccountedFor, Taken, InSink
    <3> QED
      BY <3>1, <3>2
  <2>5. (\E s \in Sinks : e \in h[s]) => Custody(e)
    BY <2>1 DEF KeptOf, Custody, AccountedFor
  <2>6. e \in ids => ~pending[e].queued
    BY <2>1 DEF KnowledgeOf
  <2>7. pending'[e].unknown_reported => e \in reported'
    BY <1>3, <2>1, <2>3 DEF KeptOf
  <2>8. pending'[e].delivered \/ pending'[e].buffered_by # {} =>
           pending[e].delivered \/ pending[e].buffered_by # {} \/ Custody(e)
    BY <1>3, <2>5 DEF Follows
  <2> QED
    BY <1>3, <2>2, <2>3, <2>4, <2>6, <2>7, <2>8
<1>9. reported \subseteq reported'
  OBVIOUS
<1>10. Knowledge' /\ LossBound' /\ Kept'
  BY <1>6, <1>7, <1>8, <1>9, LookStep
<1> QED
  BY <1>5, <1>10 DEF FanoutInv

LEMMA FlushStep ==
    ASSUME FanoutInv, flush_all
    PROVE  FanoutInv'
<1>1. Types /\ Shape
  BY DEF FanoutInv
<1>2. ASSUME Consume PROVE FanoutInv'
  <2>1. /\ pending' = consume_unknown_sink_events(pending, flusher.ids, flusher.sample, gone)
        /\ reported' = reported \cup ConsumedUnknown(pending, flusher.ids, flusher.sample, gone)
        /\ flusher' = [Idle EXCEPT !.pc = "consumed"]
        /\ UNCHANGED <<tries, gone, held, unk, accepted, maybe, channel, worker, dropper, lost, counted>>
    BY <1>2 DEF Consume, sinkVars
  <2>2. flusher.ids \in SUBSET Events /\ flusher.sample \in [Sinks -> SUBSET Events] /\ counted' \subseteq Events
    BY <1>1, <2>1 DEF Types
  <2>3. \A e \in Events :
           /\ e \in flusher.ids \/ (\E s \in Sinks : e \in flusher.sample[s]) => Seen(e)
           /\ (\E s \in Sinks : e \in flusher.sample[s]) => Sampled(e) \/ InSink(e)
           /\ e \in flusher.ids => Custody(e)
           /\ e \in flusher.ids \/ (\E s \in Sinks : e \in unk[s] /\ e \notin unk'[s]) => e \in flusher.ids
    BY <2>1 DEF Seen, Sampled, Custody
  <2> QED
    BY <2>1, <2>2, <2>3, ConsumeStep
<1>3. ASSUME CallerConsume PROVE FanoutInv'
  <2>1. /\ pending' = consume_unknown_sink_events(pending, AllUnknown, held, gone)
        /\ reported' = reported \cup ConsumedUnknown(pending, AllUnknown, held, gone)
        /\ counted' = counted \cup ConsumedUnknown(pending, AllUnknown, held, gone)
        /\ flusher' = Idle /\ unk' = Nothing /\ flusher.pc = "refreshed"
        /\ UNCHANGED <<tries, gone, held, accepted, maybe, channel, worker, dropper, lost>>
    BY <1>3 DEF CallerConsume
  <2>2. AllUnknown \in SUBSET Events /\ held \in [Sinks -> SUBSET Events] /\ flusher.ids = {}
    BY <1>1, <2>1 DEF Types, AllUnknown, Shape
  <2>3. counted' \subseteq Events
    BY <1>1, <2>1, <2>2 DEF Types, ConsumedUnknown
  <2>4. \A e : e \in AllUnknown <=> \E s \in Sinks : e \in unk[s]
    BY DEF AllUnknown
  <2>5. \A e \in Events :
           /\ e \in AllUnknown \/ (\E s \in Sinks : e \in held[s]) => Seen(e)
           /\ (\E s \in Sinks : e \in held[s]) => Sampled(e) \/ InSink(e)
           /\ e \in AllUnknown => Custody(e)
           /\ e \in flusher.ids \/ (\E s \in Sinks : e \in unk[s] /\ e \notin unk'[s]) => e \in AllUnknown
    BY <2>2, <2>4 DEF Seen, InSink, Custody, AccountedFor
  <2> QED
    BY <2>1, <2>2, <2>3, <2>5, ConsumeStep
<1> QED
  BY <1>2, <1>3, TakeUnknownStep, SampleBuffersStep, RefreshStep DEF flush_all

-----------------------------------------------------------------------------
(* A stopped worker and what is done about it. *)

LEMMA WorkerStopsStep ==
    ASSUME FanoutInv, WorkerStops
    PROVE  FanoutInv'
<1>1. Types /\ Shape /\ Knowledge /\ LossBound /\ Kept
  BY DEF FanoutInv
<1>2. /\ worker.pc \in {"idle", "sending"} /\ worker' = [IdleWorker EXCEPT !.pc = "dead"]
      /\ channel' = [e \in Events |-> IF channel[e] = "queued" THEN "taken" ELSE channel[e]]
      /\ UNCHANGED <<tries, pending, gone, sinkVars, held, unk, accepted, maybe, flusher, dropper, lost, reported, counted>>
  BY DEF WorkerStops, sinkVars
<1>3. dropper.pc = "idle"
  BY <1>1, <1>2 DEF Shape, Types
<1>4. worker'.pc = "dead" /\ worker' \in [pc : {"idle", "sending", "answered", "applied"} \cup Stopped, ev : Events \cup {None},
                   answer : [Sinks -> Answers \cup {None}], left : SUBSET Sinks]
  BY <1>2 DEF IdleWorker, Stopped
<1>5. Types' /\ Shape'
  <2>1. channel' \in [Events -> {"new", "noted", "queued", "taken", "refused"}]
    BY <1>1, <1>2 DEF Types
  <2>2. Types'
    BY <1>1, <1>2, <1>4, <2>1 DEF Types
  <2>3. \A e \in Events : channel'[e] = "new" => channel[e] = "new"
    BY <1>1, <1>2 DEF Types
  <2> QED
    BY <1>1, <1>2, <1>3, <1>4, <2>2, <2>3 DEF Shape, Active
<1>6. \A e : (Seen(e)' <=> Seen(e)) /\ (Sampled(e)' <=> Sampled(e)) /\ ~Sends(e)'
  BY <1>2, <1>4, SeenSame DEF Sends, Active
<1>7. \A e \in Events : Custody(e) => Custody(e)'
  BY <1>2, CustodySame
<1>8. \A e \in Events : channel'[e] = IF channel[e] = "queued" THEN "taken" ELSE channel[e]
  BY <1>2
<1>9. ASSUME NEW e \in Events PROVE KnowledgeOf(e)' /\ LossOf(e)' /\ KeptOf(e)'
  <2>1. KnowledgeOf(e) /\ LossOf(e) /\ KeptOf(e)
    BY <1>1, <1>2 DEF Knowledge, LossBound, Kept, Ending
  <2>2. KnowledgeOf(e)'
    BY <1>2, <1>4, <1>6, <1>8, <2>1 DEF KnowledgeOf
  <2>3. Finished(e) => Finished(e)'
    BY <1>2, <1>6, <1>8 DEF Finished
  <2>4. LossOf(e)'
    BY <1>1, <1>2, <2>1, <2>3, NoClaim DEF Over
  <2>5. channel'[e] = "taken" => Answered(e)'
    <3>1. lost[e] > 0 => Custody(e)'
      BY <1>2 DEF Custody, AccountedFor
    <3>2. CASE channel[e] = "queued"
      BY <1>2, <1>3, <1>4, <2>1, <3>1, <3>2 DEF KeptOf, Answered
    <3>3. CASE channel[e] = "taken"
      BY <1>2, <1>4, <1>7, <2>1, <3>3 DEF KeptOf, Answered
    <3> QED
      BY <1>8, <3>2, <3>3
  <2>6. KeptOf(e)'
    BY <1>2, <1>6, <1>7, <1>8, <2>1, <2>5 DEF KeptOf
  <2> QED
    BY <2>2, <2>4, <2>6
<1> QED
  BY <1>5, <1>9 DEF FanoutInv, Knowledge, LossBound, Kept

LEMMA DropSampleStep ==
    ASSUME FanoutInv, NEW kind \in {"queued", "pending"}, DropSample(kind)
    PROVE  FanoutInv'
<1>1. Types /\ Shape /\ Knowledge /\ LossBound /\ Kept
  BY DEF FanoutInv
<1>2. /\ dropper.pc = "idle" /\ worker.pc = (IF kind = "queued" THEN "dead" ELSE "closing")
      /\ dropper' = [Idle EXCEPT !.pc = kind, !.sample = held]
      /\ UNCHANGED <<tries, pending, gone, sinkVars, held, unk, accepted, maybe, channel, worker, flusher, lost, reported, counted>>
  BY DEF DropSample, sinkVars
<1>3. /\ dropper'.pc = kind /\ dropper'.ids = {} /\ dropper'.sample = held
      /\ dropper' \in [pc : {"idle", "queued", "pending", "purge", "forget"},
                       ids : SUBSET Events, sample : [Sinks -> SUBSET Events]]
  BY <1>1, <1>2 DEF Idle, Types
<1>4. Types'
  BY <1>1, <1>2, <1>3 DEF Types
<1>5. Shape'
  BY <1>1, <1>2, <1>3 DEF Shape
<1>6. \A e \in Events : (Seen(e)' => Seen(e)) /\ (Sampled(e)' => Sampled(e) \/ InSink(e))
  BY <1>2, <1>3 DEF Seen, Sampled, Taken, InSink
<1>7. \A e \in Events : (Custody(e) => Custody(e)') /\ (InSink(e) => Custody(e)')
  BY <1>2 DEF Custody, AccountedFor, Taken, InSink
<1>8. ASSUME NEW e \in Events PROVE KnowledgeOf(e)' /\ LossOf(e)' /\ (worker.pc \notin Ending => KeptOf(e)')
  <2>1. KnowledgeOf(e)' /\ (Finished(e) => Finished(e)')
    BY <1>1, <1>2, <1>6, Untouched DEF Knowledge
  <2>2. ~Over
    BY <1>2 DEF Over
  <2>3. LossOf(e)'
    BY <1>1, <1>2, <2>1, <2>2, NoClaim DEF LossBound
  <2>4. worker.pc \notin Ending => KeptOf(e)'
    BY <1>1, <1>2, <1>3, <1>6, <1>7, KeptUntouched DEF Kept
  <2> QED
    BY <2>1, <2>3, <2>4
<1> QED
  BY <1>2, <1>4, <1>5, <1>8 DEF FanoutInv, Knowledge, LossBound, Kept

\* A record that waits in the queue leaves the map when the queue is dropped.
LEMMA WaitingIsLost ==
    /\ IsFinalLoss(Unqueued(Waiting))
    /\ Finalized(Unqueued(Waiting)) = Absent
  BY DEF Waiting, Unqueued, IsFinalLoss, Resolved, Finalized

LEMMA DropQueuedStep ==
    ASSUME FanoutInv, DropQueued
    PROVE  FanoutInv'
<1>1. Types /\ Shape /\ Knowledge /\ LossBound /\ Kept
  BY DEF FanoutInv
<1>2. PICK q : q = sync_pending_records_with_buffers(pending, dropper.sample, gone)
  OBVIOUS
<1>3. PICK ids : ids = {e \in Events : q[e].queued}
  OBVIOUS
<1>4. /\ dropper.pc = "queued" /\ gone' = gone \cup ids /\ dropper' = [Idle EXCEPT !.pc = "purge", !.ids = ids]
      /\ pending' = [e \in Events |-> IF q[e].queued THEN Finalized(Unqueued(q[e])) ELSE q[e]]
      /\ lost' = Add(lost, {e \in Events : q[e].queued /\ IsFinalLoss(Unqueued(q[e]))})
      /\ UNCHANGED <<tries, sinkVars, held, unk, accepted, maybe, channel, worker, flusher, reported, counted>>
  BY <1>2, <1>3 DEF DropQueued, QueuedIds, LostQueued, drop_queued_records, sinkVars
<1>5. gone = {} /\ worker.pc = "dead" /\ ~Over /\ pending \in [Events -> WellFormed]
      /\ dropper.sample \in [Sinks -> SUBSET Events]
  BY <1>1, <1>4, TrackerTypes DEF Shape, Types, Over
<1>6. \A e \in Events : Synced(pending[e], q[e], {s \in Sinks : e \in dropper.sample[s]}, FALSE)
  <2> SUFFICES ASSUME NEW e \in Events PROVE Synced(pending[e], q[e], {s \in Sinks : e \in dropper.sample[s]}, FALSE)
    OBVIOUS
  <2>1. q[e] = SyncTracker(pending[e], e, dropper.sample, gone)
    BY <1>2 DEF sync_pending_records_with_buffers
  <2>2. Synced(pending[e], q[e], {s \in Sinks : e \in dropper.sample[s]}, e \in gone)
    BY <1>5, <2>1, SyncFacts
  <2> QED
    BY <1>5, <2>2 DEF Synced
<1>7. \A e \in Events : ~Sampled(e) => {s \in Sinks : e \in dropper.sample[s]} = {}
  BY DEF Sampled
<1>8. /\ dropper'.pc = "purge" /\ dropper'.ids = ids /\ dropper'.sample = Nothing
      /\ dropper' \in [pc : {"idle", "queued", "pending", "purge", "forget"},
                       ids : SUBSET Events, sample : [Sinks -> SUBSET Events]]
  BY <1>3, <1>4, IdleFacts DEF Idle
<1>9. \A e \in Events : (Seen(e)' => Seen(e)) /\ (Sampled(e)' => Sampled(e)) /\ ~Sends(e) /\ ~Sends(e)'
  BY <1>4, <1>5, <1>8, IdleFacts DEF Seen, Sampled, Taken, InSink, Sends, Active
<1>10. ASSUME NEW e \in Events, pending[e].queued
       PROVE  /\ pending'[e] = Absent /\ lost'[e] = lost[e] + 1 /\ e \in ids /\ ~Seen(e) /\ pending[e] = Waiting
  <2>1. ~Seen(e) /\ pending[e] = Waiting
    BY <1>1, <1>10 DEF Knowledge, KnowledgeOf
  <2>2. ~Sampled(e)
    BY <2>1 DEF Seen
  <2>3. q[e] = Waiting
    BY <1>6, <1>7, <2>1, <2>2, WaitingFields DEF Synced
  <2>4. pending'[e] = Absent /\ e \in ids
    BY <1>3, <1>4, <2>3, WaitingFields, WaitingIsLost
  <2>5. lost'[e] = lost[e] + 1
    BY <1>4, <2>3, WaitingFields, WaitingIsLost DEF Add
  <2> QED
    BY <2>1, <2>4, <2>5
<1>11. ASSUME NEW e \in Events, ~pending[e].queued
       PROVE  /\ pending'[e] = q[e] /\ ~q[e].queued /\ lost'[e] = lost[e] /\ e \notin ids
              /\ (~Seen(e) /\ pending[e] = Absent => q[e] = Absent)
  <2>1. ~q[e].queued
    BY <1>6, <1>11 DEF Synced
  <2>2. pending'[e] = q[e] /\ e \notin ids
    BY <1>3, <1>4, <2>1
  <2>3. lost'[e] = lost[e]
    BY <1>1, <1>4, <2>1 DEF Add, Types
  <2>4. ~Seen(e) /\ pending[e] = Absent => q[e] = Absent
    BY <1>6, <1>7, AbsentFields DEF Synced, Seen
  <2> QED
    BY <2>1, <2>2, <2>3, <2>4
<1>12. Types' /\ Shape'
  <2>1. \A e \in Events : pending'[e] \in WellFormed /\ lost'[e] \in Nat
    <3> SUFFICES ASSUME NEW e \in Events PROVE pending'[e] \in WellFormed /\ lost'[e] \in Nat
      OBVIOUS
    <3>1. lost[e] \in Nat
      BY <1>1 DEF Types
    <3> QED
      BY <1>6, <1>10, <1>11, <3>1, AbsentWellFormed DEF Synced
  <2>2. pending' \in [Events -> WellFormed] /\ lost' \in [Events -> Nat]
    BY <1>4, <2>1 DEF Add
  <2>3. gone' \subseteq Events /\ gone' = ids
    BY <1>3, <1>4, <1>5
  <2>4. Types'
    BY <1>1, <1>4, <1>8, <2>2, <2>3, TrackersOf DEF Types
  <2> QED
    BY <1>1, <1>4, <1>5, <1>8, <2>3, <2>4 DEF Shape
<1>13. ASSUME NEW e \in Events PROVE KnowledgeOf(e)' /\ LossOf(e)' /\ KeptOf(e)'
  <2>1. KnowledgeOf(e) /\ LossOf(e) /\ KeptOf(e)
    BY <1>1, <1>5 DEF Knowledge, LossBound, Kept, Ending
  <2>2. lost[e] \in Nat /\ tries[e] \in Nat
    BY <1>1, FanoutAssumption DEF Types
  <2>3. CASE pending[e].queued
    <3>1. pending'[e] = Absent /\ lost'[e] = lost[e] + 1 /\ ~Seen(e) /\ pending[e] = Waiting /\ lost'[e] > 0
      BY <1>10, <2>2, <2>3
    <3>2. KnowledgeOf(e)'
      BY <1>9, <3>1, AbsentFields DEF KnowledgeOf
    <3>3. Custody(e)'
      BY <3>1 DEF Custody, AccountedFor
    <3>4. KeptOf(e)'
      BY <1>9, <3>1, <3>3, AbsentFields DEF KeptOf, Answered
    <3>5. ~Finished(e) /\ Claims(e) = lost[e] + 1 /\ Claims(e)' = lost[e] + 1
      BY <2>2, <3>1, AbsentFields, WaitingFields DEF Finished, Claims
    <3>6. LossOf(e)'
      BY <1>4, <1>5, <2>1, <2>2, <3>5 DEF LossOf
    <3> QED
      BY <3>2, <3>4, <3>6
  <2>4. CASE ~pending[e].queued
    <3>1. /\ pending'[e] = q[e] /\ ~q[e].queued /\ lost'[e] = lost[e] /\ e \notin ids
          /\ (~Seen(e) /\ pending[e] = Absent => q[e] = Absent)
          /\ Synced(pending[e], q[e], {s \in Sinks : e \in dropper.sample[s]}, FALSE)
      BY <1>6, <1>11, <2>4
    <3>2. KnowledgeOf(e)'
      BY <1>4, <1>5, <1>9, <2>1, <2>4, <3>1, WaitingFields DEF KnowledgeOf
    <3>3. Finished(e) => Finished(e)'
      BY <1>4, <1>9, <3>1 DEF Finished
    <3>4. LossOf(e)'
      BY <1>1, <1>4, <1>5, <2>1, <3>1, <3>3, NoClaim
    <3>5. Custody(e) => Custody(e)'
      BY <1>4, <3>1 DEF Custody, AccountedFor, Taken, InSink
    <3>6. pending'[e].delivered \/ pending'[e].buffered_by # {} \/ Sampled(e)' => Custody(e)'
      BY <1>7, <1>9, <2>1, <3>1, <3>5 DEF KeptOf, Synced
    <3>7. channel'[e] = "taken" => Answered(e)'
      BY <1>4, <1>5, <1>9, <2>1, <2>4, <3>1, <3>5 DEF KeptOf, Answered, Synced
    <3>8. e \notin gone' /\ e \notin dropper'.ids
      BY <1>4, <1>5, <1>8, <3>1
    <3>9. /\ pending'[e].unknown_reported => e \in reported'
          /\ channel'[e] \in {"noted", "queued"} => pending'[e].queued \/ lost'[e] > 0
      BY <1>4, <2>1, <2>4, <3>1 DEF KeptOf, Synced
    <3>10. KeptOf(e)'
      BY <1>9, <3>6, <3>7, <3>8, <3>9 DEF KeptOf
    <3> QED
      BY <3>2, <3>4, <3>10
  <2> QED
    BY <2>3, <2>4
<1> QED
  BY <1>12, <1>13 DEF FanoutInv, Knowledge, LossBound, Kept

LEMMA DropPendingStep ==
    ASSUME FanoutInv, DropPending
    PROVE  FanoutInv'
<1>1. Types /\ Shape /\ Knowledge /\ LossBound
  BY DEF FanoutInv
<1>2. PICK q : q = sync_pending_records_with_buffers(pending, dropper.sample, gone)
  OBVIOUS
<1>3. PICK ids : ids = {e \in Events : q[e].present}
  OBVIOUS
<1>4. /\ dropper.pc = "pending" /\ gone' = gone \cup {e \in Events : CountsAsLoss(q[e])}
      /\ dropper' = [Idle EXCEPT !.pc = "purge", !.ids = ids]
      /\ pending' = NoRecords
      /\ lost' = Add(lost, {e \in Events : CountsAsLoss(q[e]) /\ ~q[e].delivered})
      /\ UNCHANGED <<tries, sinkVars, held, unk, accepted, maybe, channel, worker, flusher, reported, counted>>
  BY <1>2, <1>3 DEF DropPending, LostPending, sinkVars
<1>5. gone = {} /\ worker.pc = "closing" /\ ~Over /\ pending \in [Events -> WellFormed]
      /\ dropper.sample \in [Sinks -> SUBSET Events]
  BY <1>1, <1>4, TrackerTypes DEF Shape, Types, Over
<1>6. \A e \in Events : Synced(pending[e], q[e], {s \in Sinks : e \in dropper.sample[s]}, FALSE)
  <2> SUFFICES ASSUME NEW e \in Events PROVE Synced(pending[e], q[e], {s \in Sinks : e \in dropper.sample[s]}, FALSE)
    OBVIOUS
  <2>1. q[e] = SyncTracker(pending[e], e, dropper.sample, gone)
    BY <1>2 DEF sync_pending_records_with_buffers
  <2>2. Synced(pending[e], q[e], {s \in Sinks : e \in dropper.sample[s]}, e \in gone)
    BY <1>5, <2>1, SyncFacts
  <2> QED
    BY <1>5, <2>2 DEF Synced
<1>7. \A e \in Events : ~Seen(e) => {s \in Sinks : e \in dropper.sample[s]} = {}
  BY DEF Sampled, Seen
<1>8. /\ dropper'.pc = "purge" /\ dropper'.ids = ids /\ dropper'.sample = Nothing
      /\ dropper' \in [pc : {"idle", "queued", "pending", "purge", "forget"},
                       ids : SUBSET Events, sample : [Sinks -> SUBSET Events]]
  BY <1>3, <1>4, IdleFacts DEF Idle
<1>9. \A e \in Events : (Seen(e)' => Seen(e)) /\ ~Sends(e)'
  BY <1>4, <1>5, <1>8, IdleFacts DEF Seen, Sampled, Taken, InSink, Sends, Active
<1>10. \A e \in Events : CountsAsLoss(q[e]) => e \in ids
  BY <1>3, <1>6, AbsentFields DEF CountsAsLoss, Synced, WellFormed
<1>11. \A e \in Events : pending'[e] = Absent
  BY <1>4 DEF NoRecords
<1>12. \A e \in Events : /\ lost[e] \in Nat
                         /\ lost'[e] = lost[e] + (IF CountsAsLoss(q[e]) /\ ~q[e].delivered THEN 1 ELSE 0)
  BY <1>1, <1>4 DEF Types, Add
<1>13. Types' /\ Shape'
  <2>1. pending' \in [Events -> WellFormed]
    BY <1>4, AbsentWellFormed DEF NoRecords
  <2>2. lost' \in [Events -> Nat]
    <3>1. \A e \in Events : lost'[e] \in Nat
      BY <1>12
    <3> QED
      BY <1>4, <3>1 DEF Add
  <2>3. gone' \subseteq Events /\ gone' \subseteq ids
    BY <1>4, <1>5, <1>10
  <2>4. Types'
    BY <1>1, <1>4, <1>8, <2>1, <2>2, <2>3, TrackersOf DEF Types
  <2> QED
    BY <1>1, <1>4, <1>5, <1>8, <2>3, <2>4 DEF Shape
<1>14. ASSUME NEW e \in Events PROVE KnowledgeOf(e)' /\ LossOf(e)'
  <2>1. KnowledgeOf(e) /\ LossOf(e) /\ tries[e] \in Nat
    BY <1>1, FanoutAssumption DEF Knowledge, LossBound, Types
  <2>2. KnowledgeOf(e)'
    BY <1>4, <1>9, <1>11, <2>1, AbsentFields DEF KnowledgeOf
  <2>3. Finished(e) => ~CountsAsLoss(q[e])
    BY <1>6, <1>7, AbsentFields DEF Finished, Synced, CountsAsLoss
  <2>4. Over'
    BY <1>4, <1>5, <1>8 DEF Over
  <2>5. Claims(e)' = lost'[e] /\ Claims(e) \in Nat /\ lost[e] <= Claims(e)
    BY <1>11, <1>12, AbsentFields DEF Claims
  <2>6. LossOf(e)'
    BY <1>4, <1>5, <1>12, <2>1, <2>3, <2>4, <2>5 DEF LossOf
  <2> QED
    BY <2>2, <2>6
<1> QED
  BY <1>4, <1>5, <1>13, <1>14 DEF FanoutInv, Knowledge, LossBound, Kept, Ending

LEMMA PurgeStep ==
    ASSUME FanoutInv, purge_buffered_events
    PROVE  FanoutInv'
<1>1. Types /\ Shape /\ Knowledge /\ LossBound /\ Kept
  BY DEF FanoutInv
<1>2. /\ dropper.pc = "purge" /\ dropper' = [dropper EXCEPT !.pc = "forget"]
      /\ held' = [s \in Sinks |-> held[s] \ dropper.ids] /\ unk' = [s \in Sinks |-> unk[s] \ dropper.ids]
      /\ UNCHANGED <<tries, pending, gone, accepted, maybe, channel, worker, flusher, lost, reported, counted>>
  BY DEF purge_buffered_events
<1>3. /\ dropper'.pc = "forget" /\ dropper'.ids = dropper.ids /\ dropper'.sample = dropper.sample
      /\ dropper' \in [pc : {"idle", "queued", "pending", "purge", "forget"},
                       ids : SUBSET Events, sample : [Sinks -> SUBSET Events]]
  BY <1>1, <1>2 DEF Types
<1>4. Types' /\ Shape'
  <2>1. /\ held' \in [Sinks -> SUBSET Events] /\ \A s \in Sinks \ BufferingSinks : held'[s] = {}
        /\ unk' \in [Sinks -> SUBSET Events]
    BY <1>1, <1>2 DEF Types
  <2>2. Types'
    BY <1>1, <1>2, <1>3, <2>1 DEF Types
  <2> QED
    BY <1>1, <1>2, <1>3, <2>2 DEF Shape
<1>5. \A e \in Events : (Seen(e)' => Seen(e)) /\ (Sampled(e)' => Sampled(e))
  BY <1>2, <1>3 DEF Seen, Sampled, Taken, InSink
<1>6. ASSUME NEW e \in Events PROVE KnowledgeOf(e)' /\ LossOf(e)' /\ (worker.pc \notin Ending => KeptOf(e)')
  <2>1. KnowledgeOf(e)' /\ (Finished(e) => Finished(e)')
    BY <1>1, <1>2, <1>5, Untouched DEF Knowledge
  <2>2. LossOf(e)'
    BY <1>1, <1>2, <1>3, <2>1, NoClaim DEF LossBound, Over
  <2>3. ASSUME worker.pc \notin Ending PROVE KeptOf(e)'
    <3>1. KeptOf(e)
      BY <1>1, <2>3 DEF Kept
    <3>2. Custody(e) => Custody(e)'
      <4>1. CASE e \in dropper.ids
        BY <1>2, <3>1, <4>1 DEF KeptOf, Custody, AccountedFor
      <4>2. CASE e \notin dropper.ids
        BY <1>2, <4>2 DEF Custody, AccountedFor, Taken, InSink
      <4> QED
        BY <4>1, <4>2
    <3> QED
      BY <1>2, <1>3, <1>5, <3>1, <3>2, KeptUntouched
  <2> QED
    BY <2>1, <2>2, <2>3
<1> QED
  BY <1>2, <1>4, <1>6 DEF FanoutInv, Knowledge, LossBound, Kept

LEMMA ForgetDroppedStep ==
    ASSUME FanoutInv, forget_terminally_dropped_ids
    PROVE  FanoutInv'
<1>1. Types /\ Shape /\ Knowledge /\ LossBound /\ Kept
  BY DEF FanoutInv
<1>2. /\ dropper.pc = "forget" /\ gone' = gone \ dropper.ids /\ dropper' = Idle
      /\ worker' = [worker EXCEPT !.pc = IF worker.pc = "dead" THEN "cleared" ELSE "closed"]
      /\ UNCHANGED <<tries, pending, sinkVars, held, unk, accepted, maybe, channel, flusher, lost, reported, counted>>
  BY DEF forget_terminally_dropped_ids, sinkVars
<1>3. worker.pc \in {"dead", "closing"} /\ gone' = {}
  BY <1>1, <1>2 DEF Shape
<1>4. /\ worker'.pc = IF worker.pc = "dead" THEN "cleared" ELSE "closed"
      /\ worker' \in [pc : {"idle", "sending", "answered", "applied"} \cup Stopped, ev : Events \cup {None},
                      answer : [Sinks -> Answers \cup {None}], left : SUBSET Sinks]
  BY <1>1, <1>2 DEF Types, Stopped
<1>5. dropper'.pc = "idle" /\ dropper'.ids = {} /\ dropper'.sample = Nothing
  BY <1>2, IdleFacts
<1>6. Types' /\ Shape'
  <2>1. dropper' \in [pc : {"idle", "queued", "pending", "purge", "forget"},
                      ids : SUBSET Events, sample : [Sinks -> SUBSET Events]]
    BY <1>2, IdleFacts
  <2>2. Types'
    BY <1>1, <1>2, <1>3, <1>4, <2>1 DEF Types
  <2> QED
    BY <1>1, <1>2, <1>3, <1>4, <1>5, <2>2 DEF Shape, Active
<1>7. \A e \in Events : (Seen(e)' => Seen(e)) /\ (Sampled(e)' => Sampled(e)) /\ ~Sends(e) /\ ~Sends(e)'
  BY <1>2, <1>3, <1>4, <1>5, IdleFacts DEF Seen, Sampled, Taken, InSink, Sends, Active
<1>8. \A e \in Events : Custody(e) => Custody(e)'
  BY <1>2, CustodySame
<1>9. ASSUME NEW e \in Events PROVE KnowledgeOf(e)' /\ LossOf(e)' /\ (worker'.pc \notin Ending => KeptOf(e)')
  <2>1. KnowledgeOf(e)'
    BY <1>1, <1>2, <1>3, <1>4, <1>7 DEF Knowledge, KnowledgeOf
  <2>2. (Finished(e) => Finished(e)') /\ (Over => Over')
    BY <1>2, <1>3, <1>4, <1>7 DEF Finished, Over
  <2>3. LossOf(e)'
    BY <1>1, <1>2, <2>2, NoClaim DEF LossBound
  <2>4. ASSUME worker'.pc \notin Ending PROVE KeptOf(e)'
    <3>1. worker.pc = "dead" /\ worker'.pc = "cleared"
      BY <1>3, <1>4, <2>4 DEF Ending
    <3>2. KeptOf(e)
      BY <1>1, <3>1 DEF Kept, Ending
    <3>3. channel'[e] = "taken" => Answered(e)'
      BY <1>2, <1>7, <1>8, <3>1, <3>2 DEF KeptOf, Answered
    <3> QED
      BY <1>2, <1>3, <1>5, <1>7, <1>8, <3>2, <3>3 DEF KeptOf
  <2> QED
    BY <2>1, <2>3, <2>4
<1> QED
  BY <1>6, <1>9 DEF FanoutInv, Knowledge, LossBound, Kept

\* mark_inflight_unknown, for one event.
LEMMA MarkedFacts ==
    ASSUME NEW t \in WellFormed, t.in_flight, ~t.queued
    PROVE  LET r == Finalized([t EXCEPT !.in_flight = FALSE, !.unknown = TRUE, !.unknown_reported = TRUE])
           IN  /\ r \in WellFormed /\ ~r.in_flight /\ ~r.queued
               /\ r.delivered \/ r.buffered_by # {} => t.delivered \/ t.buffered_by # {}
<1>1. PICK u : u = [t EXCEPT !.in_flight = FALSE, !.unknown = TRUE, !.unknown_reported = TRUE]
  OBVIOUS
<1>2. t \in Tracker /\ t.present
  BY AbsentFields DEF WellFormed
<1>3. /\ u \in WellFormed /\ ~u.in_flight /\ ~u.queued /\ u.buffered_by = t.buffered_by /\ (u.delivered <=> t.delivered)
  BY <1>1, <1>2 DEF WellFormed, Tracker
<1>4. Finalized(u) \in WellFormed /\ (Finalized(u) = u \/ Finalized(u) = Absent)
  BY <1>3, FinalizedFacts
<1> QED
  BY <1>1, <1>3, <1>4, AbsentFields

LEMMA MarkInflightStep ==
    ASSUME FanoutInv, MarkInflight
    PROVE  FanoutInv'
<1>1. Types /\ Shape /\ Knowledge /\ LossBound /\ Kept
  BY DEF FanoutInv
<1>2. /\ worker.pc \in {"dead", "cleared"} /\ dropper.pc = "idle"
      /\ pending' = mark_inflight_unknown(pending)
      /\ reported' = reported \cup NewlyUnknown(pending) /\ counted' = counted \cup NewlyUnknown(pending)
      /\ maybe' = maybe \cup {e \in Events : pending[e].in_flight}
      /\ worker' = IF worker.pc = "cleared" THEN IdleWorker ELSE [worker EXCEPT !.pc = "closing"]
      /\ UNCHANGED <<tries, gone, held, unk, accepted, channel, flusher, dropper, lost>>
  BY DEF MarkInflight
<1>3. pending \in [Events -> WellFormed]
  BY <1>1, TrackerTypes
<1>4. /\ worker'.pc = IF worker.pc = "cleared" THEN "idle" ELSE "closing"
      /\ worker' \in [pc : {"idle", "sending", "answered", "applied"} \cup Stopped, ev : Events \cup {None},
                      answer : [Sinks -> Answers \cup {None}], left : SUBSET Sinks]
  BY <1>1, <1>2 DEF Types, Stopped, IdleWorker
<1>5. ASSUME NEW e \in Events, pending[e].in_flight
      PROVE  /\ pending'[e] \in WellFormed /\ ~pending'[e].in_flight /\ ~pending'[e].queued
             /\ pending'[e].delivered \/ pending'[e].buffered_by # {} => pending[e].delivered \/ pending[e].buffered_by # {}
             /\ channel[e] = "taken" /\ ~pending[e].queued
  <2>1. KnowledgeOf(e)
    BY <1>1 DEF Knowledge
  <2>2. channel[e] = "taken" /\ ~pending[e].queued
    BY <1>5, <2>1, AbsentFields, WaitingFields DEF KnowledgeOf
  <2>3. pending'[e] = Finalized([pending[e] EXCEPT !.in_flight = FALSE, !.unknown = TRUE, !.unknown_reported = TRUE])
    BY <1>2, <1>5 DEF mark_inflight_unknown
  <2> QED
    BY <1>3, <1>5, <2>2, <2>3, MarkedFacts
<1>6. \A e \in Events : ~pending[e].in_flight => pending'[e] = pending[e]
  BY <1>2 DEF mark_inflight_unknown
<1>7. Types' /\ Shape'
  <2>1. \A e \in Events : pending'[e] \in WellFormed
    BY <1>3, <1>5, <1>6
  <2>2. pending' \in [Events -> WellFormed]
    BY <1>2, <2>1 DEF mark_inflight_unknown
  <2>3. NewlyUnknown(pending) \subseteq Events
    BY DEF NewlyUnknown
  <2>4. Types'
    BY <1>1, <1>2, <1>4, <2>2, <2>3, TrackersOf DEF Types
  <2> QED
    BY <1>1, <1>2, <1>4, <2>4 DEF Shape, Active
<1>8. \A e \in Events : /\ (Seen(e)' => Seen(e) \/ pending[e].in_flight) /\ (Sampled(e)' <=> Sampled(e))
                        /\ ~Sends(e) /\ ~Sends(e)'
  BY <1>2, <1>4 DEF Seen, Sampled, Taken, InSink, Sends, Active
<1>9. \A e \in Events : Custody(e) => Custody(e)'
  BY <1>2, CustodySame
<1>10. ASSUME NEW e \in Events PROVE KnowledgeOf(e)' /\ LossOf(e)' /\ (worker'.pc \notin Ending => KeptOf(e)')
  <2>1. KnowledgeOf(e) /\ LossOf(e)
    BY <1>1 DEF Knowledge, LossBound
  <2>2. KnowledgeOf(e)'
    BY <1>2, <1>5, <1>6, <1>8, <2>1 DEF KnowledgeOf
  <2>3. Finished(e) => Finished(e)'
    BY <1>2, <1>6, <1>8, AbsentFields DEF Finished
  <2>4. LossOf(e)'
    BY <1>1, <1>2, <1>5, <1>6, <2>1, <2>3, NoClaim DEF Over
  <2>5. ASSUME worker'.pc \notin Ending PROVE KeptOf(e)'
    <3>1. worker.pc = "cleared" /\ worker'.pc = "idle"
      BY <1>2, <1>4, <2>5 DEF Ending
    <3>2. KeptOf(e)
      BY <1>1, <3>1 DEF Kept, Ending
    <3>3. pending[e].in_flight => e \in reported' /\ Custody(e)'
      BY <1>2, <3>2 DEF KeptOf, NewlyUnknown, Custody, AccountedFor
    <3>4. channel'[e] = "taken" => Answered(e)'
      BY <1>2, <1>8, <1>9, <3>1, <3>2, <3>3 DEF KeptOf, Answered
    <3>5. /\ pending'[e].delivered \/ pending'[e].buffered_by # {} \/ Sampled(e)' => Custody(e)'
          /\ pending'[e].unknown_reported => e \in reported'
          /\ channel'[e] \in {"noted", "queued"} => pending'[e].queued \/ lost'[e] > 0
      BY <1>2, <1>5, <1>6, <1>8, <1>9, <3>2, <3>3 DEF KeptOf
    <3> QED
      BY <1>2, <1>8, <3>2, <3>4, <3>5 DEF KeptOf
  <2> QED
    BY <2>2, <2>4, <2>5
<1> QED
  BY <1>7, <1>10 DEF FanoutInv, Knowledge, LossBound, Kept

-----------------------------------------------------------------------------
(* The invariant and the theorems. *)

LEMMA FanoutInit == Init => FanoutInv
<1> SUFFICES ASSUME Init PROVE FanoutInv
  OBVIOUS
<1>1. /\ pending = [e \in Events |-> Absent] /\ gone = {} /\ held = Nothing /\ unk = Nothing
      /\ channel = [e \in Events |-> "new"] /\ tries = [e \in Events |-> 0] /\ worker.pc = "idle"
      /\ flusher = Idle /\ dropper = Idle /\ accepted = Nothing /\ maybe = {}
      /\ lost = [e \in Events |-> 0] /\ reported = {} /\ counted = {}
  BY DEF Init, NoRecords, IdleWorker
<1>2. Types
  <2>1. pending \in [Events -> WellFormed]
    BY <1>1, AbsentWellFormed
  <2>2. worker \in [pc : {"idle", "sending", "answered", "applied"} \cup Stopped, ev : Events \cup {None},
                    answer : [Sinks -> Answers \cup {None}], left : SUBSET Sinks]
    BY DEF Init, IdleWorker
  <2>3. /\ flusher \in [pc : {"idle", "taken", "sampled", "consumed", "resampled", "refreshed"},
                        ids : SUBSET Events, sample : [Sinks -> SUBSET Events]]
        /\ dropper \in [pc : {"idle", "queued", "pending", "purge", "forget"},
                        ids : SUBSET Events, sample : [Sinks -> SUBSET Events]]
    BY <1>1, IdleFacts
  <2>4. tries \in [Events -> 0..MaxTries] /\ lost \in [Events -> Nat]
    BY <1>1, FanoutAssumption
  <2> QED
    BY <1>1, <2>1, <2>2, <2>3, <2>4, TrackersOf, IdleFacts DEF Types
<1>3. Shape
  BY <1>1, IdleFacts, FanoutAssumption DEF Shape, Active
<1>4. \A e \in Events : ~Seen(e) /\ ~Sampled(e) /\ ~Sends(e)
  BY <1>1, IdleFacts DEF Seen, Sampled, Taken, InSink, Sends, Active
<1>5. Knowledge
  BY <1>1, <1>4, AbsentFields DEF Knowledge, KnowledgeOf
<1>6. LossBound
  BY <1>1, AbsentFields DEF LossBound, LossOf, Claims
<1>7. Kept
  BY <1>1, <1>4, IdleFacts, AbsentFields DEF Kept, KeptOf
<1> QED
  BY <1>2, <1>3, <1>5, <1>6, <1>7 DEF FanoutInv

LEMMA InterruptStep ==
    ASSUME FanoutInv, interrupt
    PROVE  FanoutInv'
  BY WorkerStopsStep, DropSampleStep, DropQueuedStep, DropPendingStep, PurgeStep, ForgetDroppedStep, MarkInflightStep
     DEF interrupt

LEMMA FanoutStutter ==
    ASSUME FanoutInv, UNCHANGED vars
    PROVE  FanoutInv'
<1>1. UNCHANGED <<pending, gone, held, unk, accepted, maybe, channel, tries, worker, flusher, dropper, lost, reported, counted>>
  BY DEF vars, sinkVars
<1>2. Types' /\ Shape'
  BY <1>1 DEF FanoutInv, Types, Shape
<1>3. \A e \in Events : (Seen(e)' <=> Seen(e)) /\ (Sampled(e)' <=> Sampled(e)) /\ (Custody(e) => Custody(e)')
  BY <1>1 DEF Seen, Sampled, Taken, InSink, Custody, AccountedFor
<1>4. ASSUME NEW e \in Events PROVE KnowledgeOf(e)' /\ LossOf(e)' /\ (worker.pc \notin Ending => KeptOf(e)')
  BY <1>1, <1>3, Untouched, NoClaim, KeptUntouched DEF FanoutInv, Knowledge, LossBound, Kept, Over
<1> QED
  BY <1>1, <1>2, <1>4 DEF FanoutInv, Knowledge, LossBound, Kept

\* The fanout's bookkeeping: what the trackers, the sinks, the samples taken of
\* them and the worker of EventFanout know about an event always fits together.
THEOREM FanoutBookkeeping == Spec => []FanoutInv
<1>1. ASSUME FanoutInv, [Next]_vars PROVE FanoutInv'
  BY <1>1, NoteQueuedStep, EnqueueStep, ForgetStep, SendStartedStep, SinkAnswersStep, ApplyAnswersStep,
     SendFinishedStep, SinkFlushStep, FlushStep, InterruptStep, FanoutStutter DEF Next
<1> QED
  BY <1>1, FanoutInit, PTL DEF Spec

\* Once send, flush_all, drop_queued_records, drop_pending_records and
\* mark_inflight_unknown are done, every event a worker took is in a sink, was
\* taken by the remote side or was reported as lost or unknown; and an event is
\* counted as lost at most once per time it was queued and once more.
THEOREM NoEventVanishes == Spec => []EventsKept
<1>1. ASSUME FanoutInv PROVE EventsKept
  <2>1. Types /\ LossBound /\ Kept
    BY <1>1 DEF FanoutInv
  <2>2. TypeOK
    <3>1. ASSUME NEW e \in Events PROVE lost[e] \in 0..3
      <4>1. lost[e] \in Nat /\ tries[e] \in 0..MaxTries /\ MaxTries \in 1..2 /\ LossOf(e)
        BY <2>1, FanoutAssumption DEF Types, LossBound
      <4> QED
        BY <4>1 DEF LossOf, Claims
    <3>2. lost \in [Events -> 0..3]
      BY <2>1, <3>1 DEF Types
    <3> QED
      BY <2>1, <3>2 DEF Types, TypeOK
  <2>3. NothingVanishes
    <3> SUFFICES ASSUME Settled, worker.pc = "idle", NEW e \in Events, channel[e] = "taken" PROVE AccountedFor(e)
      BY DEF NothingVanishes
    <3>1. KeptOf(e) /\ ~Sends(e)
      BY <2>1 DEF Kept, Ending, Sends, Active
    <3>2. Custody(e)
      BY <3>1 DEF KeptOf, Answered
    <3> QED
      BY <3>2, IdleFacts DEF Custody, Settled
  <2> QED
    BY <2>2, <2>3 DEF EventsKept
<1> QED
  BY <1>1, FanoutBookkeeping, PTL

\* When note_dequeued_record tells the worker that the record it sent is lost, no
\* sink took the event, holds it or may have delivered it.
THEOREM WorkerLossIsReal == Spec => FinalLossIsReal
<1> DEFINE Real == \A e \in Events : worker.pc = "applied" /\ lost'[e] > lost[e]
                                        => ~Taken(e) /\ ~InSink(e) /\ e \notin maybe
<1>1. ASSUME FanoutInv, Next PROVE Real
  <2> SUFFICES ASSUME NEW e \in Events, worker.pc = "applied", lost'[e] > lost[e]
               PROVE  ~Taken(e) /\ ~InSink(e) /\ e \notin maybe
    OBVIOUS
  <2>1. Types /\ Shape /\ Knowledge
    BY <1>1 DEF FanoutInv
  <2>2. lost[e] \in Nat /\ ~(lost[e] > lost[e])
    BY <2>1 DEF Types
  <2>3. dropper.pc \notin {"queued", "pending"}
    BY <2>1 DEF Shape
  <2>4. ~UNCHANGED lost
    BY <2>2
  <2>5. SendFinished
    <3>1. ASSUME interrupt PROVE UNCHANGED lost
      BY <2>3, <3>1 DEF interrupt, WorkerStops, DropSample, DropQueued, DropPending, purge_buffered_events,
         forget_terminally_dropped_ids, MarkInflight
    <3>2. ASSUME flush_all PROVE UNCHANGED lost
      BY <3>2 DEF flush_all, TakeUnknown, SampleBuffers, Consume, Refresh, CallerConsume
    <3>3. ASSUME NEW d \in Events, NoteQueued(d) \/ Enqueue(d) \/ Forget(d) \/ SendStarted(d) PROVE UNCHANGED lost
      BY <3>3 DEF NoteQueued, Enqueue, Forget, SendStarted
    <3>4. ASSUME NEW s, NEW a, SinkAnswers(s, a) PROVE UNCHANGED lost
      BY <3>4 DEF SinkAnswers
    <3>5. ASSUME NEW s, SinkFlush(s) PROVE UNCHANGED lost
      BY <3>5 DEF SinkFlush
    <3>6. ASSUME ApplyAnswers PROVE UNCHANGED lost
      BY <3>6 DEF ApplyAnswers
    <3> QED
      BY <1>1, <2>4, <3>1, <3>2, <3>3, <3>4, <3>5, <3>6 DEF Next
  <2>6. lost' = Add(lost, IF FinalLoss(pending, worker.ev) THEN {worker.ev} ELSE {})
    BY <2>5 DEF SendFinished
  <2>7. e = worker.ev /\ FinalLoss(pending, e)
    <3>1. lost'[e] = lost[e] + (IF e \in (IF FinalLoss(pending, worker.ev) THEN {worker.ev} ELSE {}) THEN 1 ELSE 0)
      BY <2>6 DEF Add
    <3> QED
      BY <2>2, <3>1
  <2>8. pending[e].present /\ ~pending[e].delivered /\ ~pending[e].unknown /\ pending[e].buffered_by = {}
    <3>1. pending[e] \in Tracker
      BY <2>1 DEF Types
    <3> QED
      BY <2>7, <3>1 DEF FinalLoss, IsFinalLoss, Resolved, Dequeued, Tracker
  <2>9. ~Seen(e)
    BY <2>1, <2>7, <2>8 DEF Knowledge, KnowledgeOf, Sends, Active
  <2> QED
    BY <2>9 DEF Seen
<1>2. ASSUME FanoutInv, [Next]_vars PROVE [Real]_vars
  BY <1>1, <1>2
<1> QED
  BY <1>2, FanoutBookkeeping, PTL DEF Spec, FinalLossIsReal
=============================================================================
