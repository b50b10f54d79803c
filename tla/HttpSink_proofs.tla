--------------------------- MODULE HttpSink_proofs ---------------------------
(***************************************************************************)
(* Proofs about the HTTP sink for every set of events and tasks and every  *)
(* batch size, with and without cancellation.                              *)
(*                                                                         *)
(* AtMostOnce and DroppedStaysOut are not inductive.  IInv adds why they   *)
(* hold: one task posts at a time, an event has one entry, an entry that   *)
(* is still to be posted or to be put back was never taken by the server,  *)
(* and an event nobody has sent yet has left no trace.                     *)
(***************************************************************************)
EXTENDS HttpSink, FiniteSetTheorems, TLAPS

Finite == IsFiniteSet(batch)

\* Flushes exclude each other; flushing stays set when its task is aborted.
Exclusion ==
    /\ \A t \in Tasks : pc[t] = "posting" => flushing
    /\ \A t, u \in Tasks : pc[t] = "posting" /\ pc[u] = "posting" => t = u

\* cur is the entry of the send a task is in.
SendHasEntry ==
    \A t \in Tasks :
        /\ pc[t] \in {"flush", "check", "check_unknown"} => cur[t] # None
        /\ pc[t] \in {"idle", "drop2", "drop3"} => cur[t] = None
        /\ pc[t] # "posting" => failed[t] = {}

\* An event that was refused or not sent yet is nowhere.
UnsentIsNowhere ==
    \A e \in Events : ~Pushed(e) =>
        /\ accepted[e] = 0
        /\ e \notin dropped /\ e \notin unknown_ids /\ e \notin taken
        /\ \A x \in batch : x.event_id # e
        /\ \A t \in Tasks : \A x \in sent[t] \cup unknown[t] : x.event_id # e

OneEntryPerEvent ==
    /\ \A x, y \in batch : x.event_id = y.event_id => x = y
    /\ \A t \in Tasks : pc[t] = "posting" =>
          /\ \A x, y \in sent[t] : x.event_id = y.event_id => x = y
          /\ \A x \in sent[t], y \in batch : x.event_id = y.event_id => x = y

\* What may be posted, now or by a later flush, was not taken by the server.
UntakenCopies ==
    /\ \A t \in Tasks : pc[t] = "posting" =>
          /\ unsent[t] \subseteq sent[t] /\ failed[t] \subseteq sent[t]
          /\ \A x \in failed[t] : x \notin unsent[t]
          /\ \A x \in unsent[t] : accepted[x.event_id] = 0
          /\ \A x \in failed[t] : accepted[x.event_id] = 0
          /\ \A x \in batch : x \notin sent[t] => accepted[x.event_id] = 0
    /\ ~flushing => \A x \in batch : accepted[x.event_id] = 0

NoDropped == \A x \in batch : x.event_id \notin dropped

\* An event of unknown fate has left the batch when a task puts it on record.
UnknownIsOut ==
    /\ \A x \in batch : x.event_id \notin unknown_ids
    /\ \A t \in Tasks :
          /\ pc[t] \notin {"posting", "reconcile2", "reconcile3"} => unknown[t] = {}
          /\ pc[t] = "posting" =>
                \A x \in unknown[t] : x \in sent[t] /\ x \notin unsent[t] /\ x \notin failed[t]
          /\ pc[t] # "posting" => \A x \in unknown[t], y \in batch : x.event_id # y.event_id

IInv ==
    /\ TypeOK /\ Finite /\ Exclusion /\ SendHasEntry
    /\ UnsentIsNowhere /\ OneEntryPerEvent /\ UntakenCopies /\ NoDropped /\ UnknownIsOut
    /\ AtMostOnce

-----------------------------------------------------------------------------
\* A subset of the batch is finite and fits into the buffer.
LEMMA SmallerBatch ==
    ASSUME TypeOK, Finite, NEW S \in SUBSET batch
    PROVE  IsFiniteSet(S) /\ Cardinality(S) <= MaxBuffered
<1>1. IsFiniteSet(S) /\ Cardinality(S) <= Cardinality(batch)
  BY FS_Subset DEF Finite
<1>2. Cardinality(S) \in Nat /\ Cardinality(batch) \in Nat
  BY <1>1, FS_CardinalityType DEF Finite
<1> QED
  BY <1>1, <1>2, SinkAssumption DEF TypeOK

\* The sink starts empty.
LEMMA InitInv == Init => IInv
<1> SUFFICES ASSUME Init PROVE IInv
  OBVIOUS
<1>1. IsFiniteSet({}) /\ Cardinality({}) = 0
  BY FS_EmptySet
<1>2. Finite /\ Cardinality(batch) <= MaxBuffered
  BY <1>1, SinkAssumption DEF Init, Finite
<1>3. TypeOK
  BY <1>2 DEF Init, TypeOK, PcValues, Results
<1>4. Exclusion /\ SendHasEntry /\ OneEntryPerEvent /\ UntakenCopies /\ NoDropped /\ UnknownIsOut
  BY DEF Init, Exclusion, SendHasEntry, OneEntryPerEvent, UntakenCopies, NoDropped, UnknownIsOut
<1>5. UnsentIsNowhere /\ AtMostOnce
  BY DEF Init, UnsentIsNowhere, AtMostOnce
<1> QED
  BY <1>2, <1>3, <1>4, <1>5 DEF IInv

-----------------------------------------------------------------------------
(* send *)

\* A refused event leaves only its result.
LEMMA SendLostInv ==
    ASSUME IInv, NEW t \in Tasks, NEW e \in Events, SendLost(t, e)
    PROVE  IInv'
<1> USE DEF IInv, SendLost, lockVars, setVars, taskVars
<1>1. TypeOK' /\ Finite'
  BY DEF TypeOK, Finite, Results
<1>2. Exclusion' /\ SendHasEntry' /\ OneEntryPerEvent' /\ UntakenCopies' /\ NoDropped' /\ UnknownIsOut' /\ AtMostOnce'
  BY DEF Exclusion, SendHasEntry, OneEntryPerEvent, UntakenCopies, NoDropped, UnknownIsOut, AtMostOnce
<1>3. \A d \in Events : Pushed(d) => Pushed(d)'
  BY DEF Pushed, InSend, Fresh, TypeOK
<1>4. UnsentIsNowhere'
  BY <1>3 DEF UnsentIsNowhere, TypeOK
<1> QED
  BY <1>1, <1>2, <1>4

\* The entry of a fresh event is the only trace of it, and no flush copied it.
LEMMA SendPushInv ==
    ASSUME IInv, NEW t \in Tasks, NEW e \in Events, SendPush(t, e)
    PROVE  IInv'
<1> DEFINE entry == [sequence |-> next_sequence, event_id |-> e]
<1> USE DEF IInv, Goto, histVars
<1>1. entry \in Entry /\ entry # None /\ entry.event_id = e
  BY SinkAssumption DEF TypeOK, Entry
<1>2. /\ batch' = batch \cup {entry} /\ cur' = [cur EXCEPT ![t] = entry]
      /\ pc' = [pc EXCEPT ![t] = "flush"] \/ pc' = [pc EXCEPT ![t] = "check"]
      /\ next_sequence' = next_sequence + 1
      /\ pending_sequences' = pending_sequences \cup {next_sequence}
      /\ UNCHANGED <<flushing, holder, purging, unknown_ids, unknown_sequences, unsent, sent, failed,
                     unknown, accepted, dropped, taken, result>>
      /\ ~Pushed(e) /\ pc[t] = "idle" /\ Cardinality(batch) < MaxBuffered
  BY DEF SendPush, Fresh, Pushed
<1> HIDE DEF entry
<1>3. IsFiniteSet(batch') /\ Cardinality(batch') <= MaxBuffered
  <2>1. /\ IsFiniteSet(batch')
        /\ Cardinality(batch') = IF entry \in batch THEN Cardinality(batch) ELSE Cardinality(batch) + 1
    BY <1>2, FS_AddElement DEF Finite
  <2>2. Cardinality(batch) \in Nat
    BY FS_CardinalityType DEF Finite
  <2> QED
    BY <1>2, <2>1, <2>2, SinkAssumption
<1>4. TypeOK' /\ Finite'
  BY <1>1, <1>2, <1>3 DEF TypeOK, Finite, PcValues
<1>5. Exclusion' /\ SendHasEntry'
  BY <1>1, <1>2 DEF Exclusion, SendHasEntry, TypeOK
<1>6. UnsentIsNowhere'
  <2>1. \A d \in Events : ~Pushed(d)' => d # e /\ ~Pushed(d)
    BY <1>1, <1>2 DEF Pushed, InSend, SendHasEntry, TypeOK
  <2> QED
    BY <1>1, <1>2, <2>1 DEF UnsentIsNowhere, TypeOK
<1>7. OneEntryPerEvent'
  BY <1>1, <1>2 DEF OneEntryPerEvent, UnsentIsNowhere, TypeOK
<1>8. UntakenCopies' /\ NoDropped' /\ UnknownIsOut' /\ AtMostOnce'
  BY <1>1, <1>2 DEF UntakenCopies, NoDropped, UnknownIsOut, AtMostOnce, UnsentIsNowhere, TypeOK
<1> QED
  BY <1>4, <1>5, <1>6, <1>7, <1>8

\* The end of a send: its result takes over from cur as the trace of the event.
LEMMA ReturnInv ==
    ASSUME IInv, NEW t \in Tasks, pc[t] \in {"check", "check_unknown"}, 
           NEW r \in {"Delivered", "Buffered", "Unknown"},
           Return(t, cur[t].event_id, r),
           unknown_ids' \subseteq unknown_ids, unknown_sequences' \subseteq unknown_sequences,
           UNCHANGED <<lockVars, holder, purging, pending_sequences, unsent, sent, failed, unknown,
                       accepted, dropped, taken>>
    PROVE  IInv'
<1> USE DEF IInv, Return, Goto, lockVars
<1>1. cur[t] \in Entry /\ cur[t].event_id \in Events
  BY DEF TypeOK, SendHasEntry, Entry
<1>2. TypeOK' /\ Finite'
  BY <1>1 DEF TypeOK, Finite, PcValues, Results
<1>3. Exclusion' /\ SendHasEntry' /\ OneEntryPerEvent' /\ UntakenCopies' /\ NoDropped' /\ UnknownIsOut' /\ AtMostOnce'
  BY DEF Exclusion, SendHasEntry, OneEntryPerEvent, UntakenCopies, NoDropped, UnknownIsOut, AtMostOnce, TypeOK
<1>4. \A e \in Events : Pushed(e) => Pushed(e)'
  BY <1>1 DEF Pushed, InSend, TypeOK
<1>5. UnsentIsNowhere'
  BY <1>4 DEF UnsentIsNowhere, TypeOK
<1> QED
  BY <1>2, <1>3, <1>5

\* A send that still finds its event in the batch returns Buffered.
LEMMA CheckPendingInv ==
    ASSUME IInv, NEW t \in Tasks, CheckPending(t)
    PROVE  IInv'
<1> USE DEF CheckPending
<1>1. CASE cur[t].sequence \in pending_sequences
  BY <1>1, ReturnInv DEF Results
<1>2. CASE cur[t].sequence \notin pending_sequences
  <2> USE <1>2 DEF IInv, Goto, lockVars
  <2>1. TypeOK' /\ Finite'
    BY DEF TypeOK, Finite, PcValues
  <2>2. Exclusion' /\ SendHasEntry' /\ OneEntryPerEvent' /\ UntakenCopies' /\ NoDropped' /\ UnknownIsOut' /\ AtMostOnce'
    BY DEF Exclusion, SendHasEntry, OneEntryPerEvent, UntakenCopies, NoDropped, UnknownIsOut, AtMostOnce, TypeOK
  <2>3. UnsentIsNowhere'
    BY DEF UnsentIsNowhere, Pushed, InSend, TypeOK
  <2> QED
    BY <2>1, <2>2, <2>3
<1> QED
  BY <1>1, <1>2

\* A send whose event has left the batch returns Unknown or Delivered.
LEMMA CheckUnknownInv ==
    ASSUME IInv, NEW t \in Tasks, CheckUnknown(t)
    PROVE  IInv'
BY ReturnInv DEF CheckUnknown, Results

-----------------------------------------------------------------------------
(* flush_due_to *)

\* A flush copies entries the server has not taken, each event once.
LEMMA FlushBeginInv ==
    ASSUME IInv, NEW t \in Tasks, FlushBegin(t)
    PROVE  IInv'
<1> USE DEF IInv, FlushBegin, Goto, setVars, histVars
<1>1. TypeOK' /\ Finite'
  BY DEF TypeOK, Finite, PcValues
<1>2. Exclusion' /\ SendHasEntry'
  BY DEF Exclusion, SendHasEntry, TypeOK
<1>3. UnsentIsNowhere'
  BY DEF UnsentIsNowhere, Pushed, InSend, Exclusion, TypeOK
<1>4. OneEntryPerEvent'
  BY DEF OneEntryPerEvent, Exclusion, TypeOK
<1>5. UntakenCopies' /\ NoDropped' /\ UnknownIsOut' /\ AtMostOnce'
  BY DEF UntakenCopies, NoDropped, UnknownIsOut, AtMostOnce, Exclusion, SendHasEntry, TypeOK
<1> QED
  BY <1>1, <1>2, <1>3, <1>4, <1>5

\* A flush that finds nothing to do changes only its task.
LEMMA FlushSkipInv ==
    ASSUME IInv, NEW t \in Tasks, FlushSkip(t)
    PROVE  IInv'
<1> USE DEF IInv, FlushSkip, AfterFlush, Goto, lockVars, setVars, histVars
<1>1. TypeOK' /\ Finite'
  BY DEF TypeOK, Finite, PcValues
<1>2. Exclusion' /\ SendHasEntry' /\ OneEntryPerEvent' /\ UntakenCopies' /\ NoDropped' /\ UnknownIsOut' /\ AtMostOnce'
  BY DEF Exclusion, SendHasEntry, OneEntryPerEvent, UntakenCopies, NoDropped, UnknownIsOut, AtMostOnce, TypeOK
<1>3. UnsentIsNowhere'
  BY DEF UnsentIsNowhere, Pushed, InSend, TypeOK
<1> QED
  BY <1>1, <1>2, <1>3

\* One request: whatever its outcome, the event posted is counted once more at
\* most, and the copies that remain belong to other events.
LEMMA send_batchInv ==
    ASSUME IInv, NEW t \in Tasks, send_batch(t)
    PROVE  IInv'
<1> USE DEF IInv, lockVars, setVars
<1>1. PICK x \in unsent[t] :
        /\ unsent' = [unsent EXCEPT ![t] = @ \ {x}]
        /\ PostAccepted(t, x) \/ PostRefused(t, x) \/ PostUnknown(t, x)
  BY DEF send_batch
<1>2. /\ pc[t] = "posting"
      /\ UNCHANGED <<batch, flushing, next_sequence, holder, purging, pending_sequences, unknown_ids,
                     unknown_sequences, pc, cur, sent, dropped, taken, result>>
  BY DEF send_batch
<1>3. x \in Entry /\ x.event_id \in Events /\ x \in sent[t] /\ accepted[x.event_id] = 0 /\ x \notin failed[t]
  BY <1>2 DEF UntakenCopies, TypeOK, Entry
<1>4. /\ accepted' = accepted \/ accepted' = [accepted EXCEPT ![x.event_id] = @ + 1]
      /\ \/ failed' = failed
         \/ failed' = [failed EXCEPT ![t] = @ \cup {x}] /\ accepted' = accepted /\ unknown' = unknown
      /\ unknown' = unknown \/ unknown' = [unknown EXCEPT ![t] = @ \cup {x}]
  BY <1>1 DEF PostAccepted, PostRefused, PostUnknown
<1>5. TypeOK' /\ Finite'
  BY <1>1, <1>2, <1>3, <1>4 DEF TypeOK, Finite
<1>6. Exclusion' /\ SendHasEntry' /\ OneEntryPerEvent' /\ NoDropped'
  BY <1>2, <1>4 DEF Exclusion, SendHasEntry, OneEntryPerEvent, NoDropped, TypeOK
<1>7. UnsentIsNowhere'
  BY <1>2, <1>3, <1>4 DEF UnsentIsNowhere, Pushed, InSend, TypeOK
<1>8. AtMostOnce'
  BY <1>3, <1>4 DEF AtMostOnce, TypeOK
<1>9. UntakenCopies'
  BY <1>1, <1>2, <1>3, <1>4 DEF UntakenCopies, OneEntryPerEvent, Exclusion, TypeOK, Entry
<1>10. UnknownIsOut'
  <2>1. \A u \in Tasks : u # t => unknown'[u] = unknown[u] /\ failed'[u] = failed[u] /\ unsent'[u] = unsent[u]
    BY <1>1, <1>4 DEF TypeOK
  <2>2. \A y \in unknown'[t] : y \in sent[t] /\ y \notin unsent'[t] /\ y \notin failed'[t]
    BY <1>1, <1>2, <1>3, <1>4 DEF UnknownIsOut, TypeOK
  <2> QED
    BY <1>2, <2>1, <2>2 DEF UnknownIsOut
<1> QED
  BY <1>5, <1>6, <1>7, <1>8, <1>9, <1>10

\* What a flush keeps was in the batch and was not taken by the server.
LEMMA Reconcile1Inv ==
    ASSUME IInv, NEW t \in Tasks, Reconcile1(t)
    PROVE  IInv'
<1> USE DEF IInv, Reconcile1, Goto, histVars
<1>1. Kept(t) \subseteq batch /\ \A x \in Kept(t) : accepted[x.event_id] = 0
  BY DEF Kept, UntakenCopies
<1>2. IsFiniteSet(Kept(t)) /\ Cardinality(Kept(t)) <= MaxBuffered
  BY <1>1, SmallerBatch
<1>3. Sequences(Kept(t)) \subseteq Nat
  BY <1>1 DEF Sequences, TypeOK, Entry
<1>4. TypeOK' /\ Finite'
  BY <1>1, <1>2, <1>3 DEF TypeOK, Finite, PcValues
<1>5. Exclusion' /\ SendHasEntry'
  BY DEF Exclusion, SendHasEntry, TypeOK
<1>6. UnsentIsNowhere'
  BY <1>1 DEF UnsentIsNowhere, Pushed, InSend, TypeOK
<1>7. OneEntryPerEvent' /\ UntakenCopies' /\ NoDropped' /\ AtMostOnce'
  BY <1>1 DEF OneEntryPerEvent, UntakenCopies, NoDropped, AtMostOnce, Exclusion, TypeOK
<1>8. UnknownIsOut'
  <2>1. /\ unknown'[t] = unknown[t] \cap batch /\ pc'[t] = "reconcile2" /\ batch' = Kept(t)
        /\ \A u \in Tasks : u # t => unknown'[u] = unknown[u] /\ pc'[u] = pc[u] /\ pc'[u] # "posting"
    BY DEF TypeOK, Exclusion
  <2>2. \A x \in unknown[t] : x \notin Kept(t)
    BY DEF UnknownIsOut, Kept
  <2>3. \A x \in unknown'[t], y \in batch' : x.event_id # y.event_id
    BY <1>1, <2>1, <2>2 DEF OneEntryPerEvent
  <2> QED
    BY <1>1, <2>1, <2>3 DEF UnknownIsOut
<1> QED
  BY <1>4, <1>5, <1>6, <1>7, <1>8

\* The rest of the reconciliation touches the unknown sets only.
LEMMA Reconcile2Inv ==
    ASSUME IInv, NEW t \in Tasks, Reconcile2(t)
    PROVE  IInv'
<1> USE DEF IInv, Reconcile2, Goto, lockVars, histVars
<1>1. TypeOK' /\ Finite'
  BY DEF TypeOK, Finite, PcValues, Ids, Entry
<1>2. Exclusion' /\ SendHasEntry' /\ OneEntryPerEvent' /\ UntakenCopies' /\ NoDropped' /\ AtMostOnce'
  BY DEF Exclusion, SendHasEntry, OneEntryPerEvent, UntakenCopies, NoDropped, AtMostOnce, TypeOK
<1>3. UnsentIsNowhere'
  BY DEF UnsentIsNowhere, Pushed, InSend, Ids, TypeOK
<1>4. UnknownIsOut'
  <2>1. \A x \in batch : x.event_id \notin Ids(unknown[t])
    BY DEF UnknownIsOut, Ids
  <2> QED
    BY <2>1 DEF UnknownIsOut, TypeOK
<1> QED
  BY <1>1, <1>2, <1>3, <1>4

\* The end of the reconciliation records the unknown sequences and releases the
\* buffer for the next flush.
LEMMA Reconcile3Inv ==
    ASSUME IInv, NEW t \in Tasks, Reconcile3(t)
    PROVE  IInv'
<1> USE DEF IInv, Reconcile3, AfterFlush, Goto, lockVars, histVars
<1>1. Sequences(unknown[t]) \subseteq Nat
  BY DEF Sequences, TypeOK, Entry
<1>2. TypeOK' /\ Finite'
  BY <1>1 DEF TypeOK, Finite, PcValues
<1>3. Exclusion' /\ SendHasEntry' /\ OneEntryPerEvent' /\ UntakenCopies' /\ NoDropped' /\ UnknownIsOut' /\ AtMostOnce'
  BY DEF Exclusion, SendHasEntry, OneEntryPerEvent, UntakenCopies, NoDropped, UnknownIsOut, AtMostOnce, TypeOK
<1>4. UnsentIsNowhere'
  BY DEF UnsentIsNowhere, Pushed, InSend, TypeOK
<1> QED
  BY <1>2, <1>3, <1>4

\* An aborted task leaves flushing set, so no later flush posts its copies again.
LEMMA CancelInv ==
    ASSUME IInv, NEW t \in Tasks, Cancel(t)
    PROVE  IInv'
<1> USE DEF IInv, Cancel, Goto, lockVars, setVars
<1>1. TypeOK' /\ Finite'
  BY DEF TypeOK, Finite, PcValues, Results
<1>2. Exclusion' /\ SendHasEntry' /\ OneEntryPerEvent' /\ UntakenCopies' /\ NoDropped' /\ UnknownIsOut' /\ AtMostOnce'
  BY DEF Exclusion, SendHasEntry, OneEntryPerEvent, UntakenCopies, NoDropped, UnknownIsOut, AtMostOnce, TypeOK
<1>3. \A e \in Events : Pushed(e) => Pushed(e)'
  BY DEF Pushed, InSend, TypeOK
<1>4. UnsentIsNowhere'
  BY <1>3 DEF UnsentIsNowhere, TypeOK
<1> QED
  BY <1>1, <1>2, <1>4

-----------------------------------------------------------------------------
(* drop_buffered_events, take_unknown_event_ids *)

\* What is dropped leaves the batch; the events had been sent.
LEMMA Drop1Inv ==
    ASSUME IInv, NEW t \in Tasks, NEW ids \in SUBSET Events, Drop1(t, ids)
    PROVE  IInv'
<1> USE DEF IInv, Drop1, Goto
<1> DEFINE kept == {x \in batch : x.event_id \notin ids}
<1>1. IsFiniteSet(kept) /\ Cardinality(kept) <= MaxBuffered
  BY SmallerBatch
<1>2. Sequences(kept) \subseteq Nat
  BY DEF Sequences, TypeOK, Entry
<1>3. TypeOK' /\ Finite'
  BY <1>1, <1>2 DEF TypeOK, Finite, PcValues
<1>4. Exclusion' /\ SendHasEntry'
  BY DEF Exclusion, SendHasEntry, TypeOK
<1>5. UnsentIsNowhere'
  BY DEF UnsentIsNowhere, Pushed, InSend, Ids, TypeOK
<1>6. OneEntryPerEvent' /\ UntakenCopies' /\ NoDropped' /\ UnknownIsOut' /\ AtMostOnce'
  BY DEF OneEntryPerEvent, UntakenCopies, NoDropped, UnknownIsOut, AtMostOnce, TypeOK
<1> QED
  BY <1>3, <1>4, <1>5, <1>6

\* The rest of a drop and take_unknown_event_ids touch the unknown sets only.
LEMMA UnknownSetsInv ==
    ASSUME IInv, NEW t \in Tasks, Drop2(t) \/ Drop3(t) \/ take_unknown_event_ids(t)
    PROVE  IInv'
<1> USE DEF IInv, Drop2, Drop3, take_unknown_event_ids, Goto, lockVars, taskVars, histVars
<1>1. TypeOK' /\ Finite'
  BY DEF TypeOK, Finite, PcValues
<1>2. Exclusion' /\ SendHasEntry' /\ OneEntryPerEvent' /\ UntakenCopies' /\ NoDropped' /\ UnknownIsOut' /\ AtMostOnce'
  BY DEF Exclusion, SendHasEntry, OneEntryPerEvent, UntakenCopies, NoDropped, UnknownIsOut, AtMostOnce, TypeOK
<1>3. UnsentIsNowhere'
  BY DEF UnsentIsNowhere, Pushed, InSend, TypeOK
<1> QED
  BY <1>1, <1>2, <1>3

-----------------------------------------------------------------------------
\* Every step of the sink keeps the inductive invariant.
LEMMA StepInv == IInv /\ [Next]_vars => IInv'
<1> SUFFICES ASSUME IInv, [Next]_vars PROVE IInv'
  OBVIOUS
<1>1. CASE UNCHANGED vars
  BY <1>1 DEF vars, lockVars, setVars, taskVars, histVars, IInv, TypeOK, Finite, Exclusion,
     SendHasEntry, UnsentIsNowhere, OneEntryPerEvent, UntakenCopies, NoDropped, UnknownIsOut, AtMostOnce,
     Pushed, InSend
<1>2. CASE Next
  <2> PICK t \in Tasks :
        \/ \E e \in Events : SendLost(t, e) \/ SendPush(t, e)
        \/ FlushBegin(t) \/ Progress(t) \/ Cancel(t)
        \/ \E ids \in SUBSET Events : Drop1(t, ids)
        \/ take_unknown_event_ids(t)
    BY <1>2 DEF Next
  <2> QED
    BY SendLostInv, SendPushInv, CheckPendingInv, CheckUnknownInv, FlushBeginInv, FlushSkipInv,
       send_batchInv, Reconcile1Inv, Reconcile2Inv, Reconcile3Inv, CancelInv, Drop1Inv,
       UnknownSetsInv DEF Progress
<1> QED
  BY <1>1, <1>2

\* The invariant holds throughout.
THEOREM Invariance == Spec => []IInv
BY InitInv, StepInv, PTL DEF Spec

\* The buffer never exceeds HTTP_SINK_MAX_BUFFERED_EVENTS and every field of the
\* sink keeps its type.
THEOREM TypeCorrect == Spec => []TypeOK
<1>1. IInv => TypeOK
  BY DEF IInv
<1> QED
  BY <1>1, Invariance, PTL

\* The server takes no event twice, however sends, flushes, drops and aborts
\* interleave: flush_due_to lets one flush at a time through, and a copy that
\* was taken, or may have been, never stays in the batch for the next one.
THEOREM ServerTakesAtMostOnce == Spec => []AtMostOnce
<1>1. IInv => AtMostOnce
  BY DEF IInv
<1> QED
  BY <1>1, Invariance, PTL

\* drop_buffered_events is final: a flush that had copied the entries before they
\* were dropped does not put them back.
THEOREM DropIsFinal == Spec => []DroppedStaysOut
<1>1. IInv => DroppedStaysOut
  BY DEF IInv, NoDropped, DroppedStaysOut, Ids
<1> QED
  BY <1>1, Invariance, PTL

-----------------------------------------------------------------------------
(***************************************************************************)
(* The contract.  StatusOf reads the fate of an event off the batch, the   *)
(* unknown sets and the histories, several of which change in steps of     *)
(* their own.  Custody says what bridges those steps: a copy that is being *)
(* posted is still in the batch or was dropped, a copy without an outcome  *)
(* on record was taken by the server, and an unknown event stays on record *)
(* when the task that found it out, the sets or its send let go of it.     *)
(***************************************************************************)

\* A send has not returned, and no other send is about the same event.
SendIsOpen ==
    \A t \in Tasks : cur[t] # None =>
        /\ result[cur[t].event_id] = "none"
        /\ \A u \in Tasks : cur[u] # None /\ cur[u].event_id = cur[t].event_id => u = t

Entered(x) == x \in batch \/ \E t \in Tasks : x \in sent[t] \/ x \in unknown[t] \/ x = cur[t]

\* A sequence number names one entry.
Sequenced ==
    /\ \A n \in unknown_sequences : n < next_sequence
    /\ \A x \in Entry : Entered(x) => x.sequence < next_sequence
    /\ \A x, y \in Entry : Entered(x) /\ Entered(y) /\ x.sequence = y.sequence => x = y

CopiesHeld ==
    \A t \in Tasks : pc[t] = "posting" =>
        /\ unknown[t] \subseteq sent[t]
        /\ \A x \in sent[t] :
              /\ x \in batch \/ x.event_id \in dropped
              /\ x \in unsent[t] \/ x \in failed[t] \/ x \in unknown[t] \/ accepted[x.event_id] > 0

OnRecord(e) == e \in unknown_ids \/ e \in taken \/ e \in dropped \/ result[e] = "Unknown"

UnknownKept ==
    \A t \in Tasks :
        /\ pc[t] \notin {"posting", "reconcile2", "reconcile3"} => unknown[t] = {}
        /\ pc[t] = "reconcile3" => \A x \in unknown[t] : OnRecord(x.event_id)
        /\ cur[t] # None /\ cur[t].sequence \in unknown_sequences => OnRecord(cur[t].event_id)

Custody == SendIsOpen /\ Sequenced /\ CopiesHeld /\ UnknownKept /\ Accounted

\* What the contract allows to happen to one event in one step.
StatusStep(e) ==
    StatusOf(e)' = StatusOf(e) \/ <<StatusOf(e), StatusOf(e)'>> \in Contract!Moves

\* The sink starts with nothing in custody, and every event is new.
LEMMA InitCustody == Init => Custody /\ Contract!Init
<1> SUFFICES ASSUME Init PROVE Custody /\ Contract!Init
  OBVIOUS
<1>1. SendIsOpen /\ Sequenced /\ CopiesHeld /\ UnknownKept
  BY SinkAssumption DEF Init, SendIsOpen, Sequenced, Entered, CopiesHeld, UnknownKept
<1>2. \A e \in Events : ~Pushed(e)
  BY DEF Init, Pushed, InSend
<1>3. \A e \in Events : StatusOf(e) = "new"
  BY DEF Init, StatusOf, KnownUnknown, Ids
<1> QED
  BY <1>1, <1>2, <1>3 DEF Custody, Accounted, Contract!Init

\* An event that is accounted for has one of the four fates, and keeps one.
LEMMA AccountedStep ==
    ASSUME Accounted, \A e \in Events : StatusStep(e),
           \A e \in Events : Pushed(e)' => Pushed(e) \/ e \in Ids(batch')
    PROVE  Accounted'
<1> SUFFICES ASSUME NEW e \in Events, Pushed(e)'
             PROVE  (e \in Ids(batch) \/ e \in dropped \/ accepted[e] > 0 \/ KnownUnknown(e))'
  BY DEF Accounted
<1>1. CASE Pushed(e)
  <2>1. StatusOf(e) \notin {"refused", "new"}
    BY <1>1 DEF Accounted, StatusOf
  <2>2. StatusOf(e)' \notin {"refused", "new"}
    BY <2>1 DEF StatusStep, Contract!Moves
  <2> QED
    BY <2>2 DEF StatusOf
<1>2. CASE e \in Ids(batch')
  BY <1>2
<1> QED
  BY <1>1, <1>2

\* An event the sink has refused or not seen is new or refused.
LEMMA UnsentStatus ==
    ASSUME IInv, NEW e \in Events, ~Pushed(e)
    PROVE  StatusOf(e) = IF result[e] = "Lost" THEN "refused" ELSE "new"
BY DEF IInv, UnsentIsNowhere, StatusOf, KnownUnknown, Pushed, Ids

(* send *)

\* A refused event goes from new to refused.
LEMMA SendLostCustody ==
    ASSUME IInv, Custody, NEW t \in Tasks, NEW e \in Events, SendLost(t, e)
    PROVE  Custody' /\ \A d \in Events : StatusStep(d)
<1> USE DEF SendLost, lockVars, setVars, taskVars
<1>1. ~Pushed(e) /\ result[e] = "none" /\ ~InSend(e)
  BY DEF Fresh, Pushed
<1>2. IInv' /\ ~Pushed(e)' /\ result'[e] = "Lost"
  BY <1>1, SendLostInv DEF Pushed, InSend, IInv, TypeOK
<1>3. \A d \in Events : d # e => result'[d] = result[d]
  BY DEF IInv, TypeOK
<1>4. StatusOf(e) = "new" /\ StatusOf(e)' = "refused"
  BY <1>1, <1>2, UnsentStatus DEF StatusOf, KnownUnknown, IInv, UnsentIsNowhere, Ids
<1>5. \A d \in Events : d # e => StatusOf(d)' = StatusOf(d)
  BY <1>3 DEF StatusOf, KnownUnknown
<1>6. \A d \in Events : StatusStep(d)
  BY <1>4, <1>5 DEF StatusStep, Contract!Moves
<1>7. SendIsOpen'
  BY <1>1, <1>3 DEF Custody, SendIsOpen, InSend, IInv, TypeOK, Entry
<1>8. next_sequence' \in Nat /\ next_sequence' >= next_sequence
  BY DEF IInv, TypeOK
<1>9. Sequenced'
  BY <1>8 DEF Custody, Sequenced, Entered, IInv, TypeOK, Entry
<1>10. CopiesHeld'
  BY DEF Custody, CopiesHeld
<1>11. UnknownKept'
  BY <1>1, <1>3 DEF Custody, UnknownKept, OnRecord, IInv, TypeOK
<1>12. Accounted'
  BY <1>2, <1>3, <1>6, AccountedStep DEF Custody, Pushed, InSend
<1> QED
  BY <1>6, <1>7, <1>9, <1>10, <1>11, <1>12 DEF Custody

\* A new event is held from the moment it is pushed, under a number of its own.
LEMMA SendPushCustody ==
    ASSUME IInv, Custody, NEW t \in Tasks, NEW e \in Events, SendPush(t, e)
    PROVE  Custody' /\ \A d \in Events : StatusStep(d)
<1> DEFINE entry == [sequence |-> next_sequence, event_id |-> e]
<1>1. entry \in Entry /\ entry # None /\ entry.event_id = e /\ entry.sequence = next_sequence
  BY SinkAssumption DEF IInv, TypeOK, Entry
<1>2. /\ batch' = batch \cup {entry} /\ cur' = [cur EXCEPT ![t] = entry]
      /\ pc' = [pc EXCEPT ![t] = "flush"] \/ pc' = [pc EXCEPT ![t] = "check"]
      /\ next_sequence' = next_sequence + 1
      /\ UNCHANGED <<unknown_ids, unknown_sequences, unsent, sent, failed,
                     unknown, accepted, dropped, taken, result>>
      /\ ~Pushed(e) /\ result[e] = "none" /\ ~InSend(e) /\ pc[t] = "idle"
  BY DEF SendPush, Fresh, Pushed, Goto, histVars
<1> HIDE DEF entry
<1>3. StatusOf(e) = "new" /\ StatusOf(e)' = "held"
  BY <1>1, <1>2, UnsentStatus DEF StatusOf, IInv, UnsentIsNowhere, Ids
<1>4. \A d \in Events : d # e => StatusOf(d)' = StatusOf(d)
  BY <1>1, <1>2 DEF StatusOf, KnownUnknown, Ids
<1>5. \A d \in Events : StatusStep(d)
  BY <1>3, <1>4 DEF StatusStep, Contract!Moves
<1>6. SendIsOpen'
  BY <1>1, <1>2 DEF Custody, SendIsOpen, InSend, IInv, TypeOK
<1>7. \A x \in Entry : Entered(x)' => Entered(x) \/ x = entry
  BY <1>2 DEF Entered, IInv, TypeOK
<1>8. Sequenced'
  BY <1>1, <1>2, <1>7 DEF Custody, Sequenced, IInv, TypeOK, Entry
<1>9. CopiesHeld'
  BY <1>2 DEF Custody, CopiesHeld, IInv, TypeOK
<1>10. UnknownKept'
  <2>1. unknown[t] = {}
    BY <1>2 DEF Custody, UnknownKept
  <2>2. entry.sequence \notin unknown_sequences
    BY <1>1 DEF Custody, Sequenced, IInv, TypeOK
  <2> QED
    BY <1>1, <1>2, <2>1, <2>2 DEF Custody, UnknownKept, OnRecord, IInv, TypeOK
<1>11. Accounted'
  <2>1. \A d \in Events : Pushed(d)' => Pushed(d) \/ d \in Ids(batch')
    BY <1>1, <1>2 DEF Pushed, InSend, Ids, IInv, TypeOK
  <2> QED
    BY <1>5, <2>1, AccountedStep DEF Custody
<1> QED
  BY <1>5, <1>6, <1>8, <1>9, <1>10, <1>11 DEF Custody

\* The end of a send changes no fate: it returns Unknown only for an event that
\* is on record as unknown.
LEMMA ReturnCustody ==
    ASSUME IInv, Custody, NEW t \in Tasks, pc[t] \in {"check", "check_unknown"},
           NEW r \in {"Delivered", "Buffered", "Unknown"}, Return(t, cur[t].event_id, r),
           unknown_ids' = unknown_ids \/ (unknown_ids' = unknown_ids \ {cur[t].event_id} /\ r = "Unknown"),
           r = "Unknown" => OnRecord(cur[t].event_id),
           unknown_sequences' = unknown_sequences \ {cur[t].sequence},
           UNCHANGED <<lockVars, holder, purging, pending_sequences, unsent, sent, failed, unknown,
                       accepted, dropped, taken>>
    PROVE  Custody' /\ \A d \in Events : StatusStep(d)
<1> DEFINE e == cur[t].event_id
<1> USE DEF Return, Goto, lockVars
<1>1. cur[t] \in Entry /\ cur[t] # None /\ e \in Events /\ result[e] = "none"
  BY DEF IInv, TypeOK, SendHasEntry, Entry, Custody, SendIsOpen
<1>2. result'[e] = r /\ \A d \in Events : d # e => result'[d] = result[d] /\ (d \in unknown_ids' <=> d \in unknown_ids)
  BY <1>1 DEF IInv, TypeOK
<1>3. \A d \in Events : OnRecord(d)' <=> OnRecord(d)
  BY <1>1, <1>2 DEF OnRecord
<1>4. \A d \in Events : d \notin dropped => (KnownUnknown(d)' <=> KnownUnknown(d))
  BY <1>1, <1>2, <1>3 DEF KnownUnknown, OnRecord
<1>5. Pushed(e)
  BY <1>1 DEF Pushed, InSend
<1>6. \A d \in Events : StatusOf(d)' = StatusOf(d)
  <2>1. \A d \in Events : d = e => StatusOf(d)' = StatusOf(d)
    BY <1>1, <1>2, <1>4, <1>5 DEF StatusOf, Custody, Accounted
  <2>2. \A d \in Events : d # e => StatusOf(d)' = StatusOf(d)
    BY <1>2, <1>4 DEF StatusOf
  <2> QED
    BY <2>1, <2>2
<1>7. SendIsOpen'
  BY <1>1, <1>2 DEF Custody, SendIsOpen, IInv, TypeOK, Entry
<1>8. \A x \in Entry : Entered(x)' => Entered(x)
  BY SinkAssumption DEF Entered, IInv, TypeOK
<1>9. Sequenced'
  BY <1>8 DEF Custody, Sequenced
<1>10. CopiesHeld'
  BY DEF Custody, CopiesHeld, IInv, TypeOK
<1>11. UnknownKept'
  BY <1>3 DEF Custody, UnknownKept, IInv, TypeOK, Entry
<1>12. Accounted'
  <2>1. \A d \in Events : Pushed(d)' => Pushed(d)
    BY <1>2, <1>5 DEF Pushed, InSend, IInv, TypeOK
  <2> QED
    BY <1>6, <2>1, AccountedStep DEF Custody, StatusStep
<1> QED
  BY <1>6, <1>7, <1>9, <1>10, <1>11, <1>12 DEF Custody, StatusStep

\* still_buffered: the event is held, or the send goes on to ask.
LEMMA CheckPendingCustody ==
    ASSUME IInv, Custody, NEW t \in Tasks, CheckPending(t)
    PROVE  Custody' /\ \A d \in Events : StatusStep(d)
<1> USE DEF CheckPending
<1>1. CASE cur[t].sequence \in pending_sequences
  BY <1>1, ReturnCustody
<1>2. CASE cur[t].sequence \notin pending_sequences
  <2> USE <1>2 DEF Goto, lockVars
  <2>1. \A d \in Events : StatusOf(d)' = StatusOf(d)
    BY DEF StatusOf, KnownUnknown
  <2>2. SendIsOpen' /\ CopiesHeld'
    BY DEF Custody, SendIsOpen, CopiesHeld, IInv, TypeOK
  <2>3. Sequenced'
    BY DEF Custody, Sequenced, Entered
  <2>4. UnknownKept'
    BY DEF Custody, UnknownKept, OnRecord, IInv, TypeOK
  <2>5. Accounted'
    BY DEF Custody, Accounted, Pushed, InSend, KnownUnknown
  <2> QED
    BY <2>1, <2>2, <2>3, <2>4, <2>5 DEF Custody, StatusStep
<1> QED
  BY <1>1, <1>2

\* is_unknown: a number in unknown_event_sequences is one of an event on record.
LEMMA CheckUnknownCustody ==
    ASSUME IInv, Custody, NEW t \in Tasks, CheckUnknown(t)
    PROVE  Custody' /\ \A d \in Events : StatusStep(d)
<1>1. cur[t] # None
  BY DEF CheckUnknown, IInv, SendHasEntry
<1>2. cur[t].sequence \in unknown_sequences => OnRecord(cur[t].event_id)
  BY <1>1 DEF Custody, UnknownKept
<1> QED
  BY <1>2, ReturnCustody DEF CheckUnknown

-----------------------------------------------------------------------------
(* flush_due_to *)

\* The copies a flush takes are entries of the batch, none of them posted yet.
LEMMA FlushBeginCustody ==
    ASSUME IInv, Custody, NEW t \in Tasks, FlushBegin(t)
    PROVE  Custody' /\ \A d \in Events : StatusStep(d)
<1> USE DEF FlushBegin, Goto, setVars, histVars
<1>1. \A d \in Events : StatusOf(d)' = StatusOf(d)
  BY DEF StatusOf, KnownUnknown
<1>2. unknown[t] = {}
  BY DEF Custody, UnknownKept
<1>3. \A u \in Tasks : pc[u] # "posting"
  BY DEF IInv, Exclusion
<1>4. SendIsOpen' /\ CopiesHeld'
  BY <1>2, <1>3 DEF Custody, SendIsOpen, CopiesHeld, IInv, TypeOK
<1>5. \A x \in Entry : Entered(x)' => Entered(x)
  BY DEF Entered, IInv, TypeOK
<1>6. Sequenced'
  BY <1>5 DEF Custody, Sequenced
<1>7. UnknownKept'
  BY DEF Custody, UnknownKept, OnRecord, IInv, TypeOK
<1>8. Accounted'
  BY DEF Custody, Accounted, Pushed, InSend, KnownUnknown
<1> QED
  BY <1>1, <1>4, <1>6, <1>7, <1>8 DEF Custody, StatusStep

\* A flush that finds nothing to do changes no fate.
LEMMA FlushSkipCustody ==
    ASSUME IInv, Custody, NEW t \in Tasks, FlushSkip(t)
    PROVE  Custody' /\ \A d \in Events : StatusStep(d)
<1> USE DEF FlushSkip, AfterFlush, Goto, lockVars, setVars, histVars
<1>1. \A d \in Events : StatusOf(d)' = StatusOf(d)
  BY DEF StatusOf, KnownUnknown
<1>2. SendIsOpen' /\ CopiesHeld'
  BY DEF Custody, SendIsOpen, CopiesHeld, IInv, TypeOK
<1>3. Sequenced'
  BY DEF Custody, Sequenced, Entered
<1>4. UnknownKept'
  BY DEF Custody, UnknownKept, OnRecord, IInv, TypeOK
<1>5. Accounted'
  BY DEF Custody, Accounted, Pushed, InSend, KnownUnknown
<1> QED
  BY <1>1, <1>2, <1>3, <1>4, <1>5 DEF Custody, StatusStep

\* One request: the event it is about is held, or was dropped meanwhile, so its
\* fate is open until the reconciliation; an outcome is on record.
LEMMA send_batchCustody ==
    ASSUME IInv, Custody, NEW t \in Tasks, send_batch(t)
    PROVE  Custody' /\ \A d \in Events : StatusStep(d)
<1>1. PICK x \in unsent[t] :
        /\ unsent' = [unsent EXCEPT ![t] = @ \ {x}]
        /\ PostAccepted(t, x) \/ PostRefused(t, x) \/ PostUnknown(t, x)
  BY DEF send_batch
<1>2. /\ pc[t] = "posting"
      /\ UNCHANGED <<batch, flushing, next_sequence, holder, purging, pending_sequences, unknown_ids,
                     unknown_sequences, pc, cur, sent, dropped, taken, result>>
  BY DEF send_batch, lockVars, setVars
<1>3. /\ x \in Entry /\ x.event_id \in Events /\ x \in sent[t] /\ accepted[x.event_id] = 0
      /\ x \in batch \/ x.event_id \in dropped
  BY <1>2 DEF IInv, UntakenCopies, TypeOK, Entry, Custody, CopiesHeld
<1>4. /\ accepted' = accepted \/ accepted' = [accepted EXCEPT ![x.event_id] = @ + 1]
      /\ unknown' = unknown \/ unknown' = [unknown EXCEPT ![t] = @ \cup {x}]
      /\ failed' = failed \/ failed' = [failed EXCEPT ![t] = @ \cup {x}]
      /\ \/ accepted' = [accepted EXCEPT ![x.event_id] = @ + 1]
         \/ unknown' = [unknown EXCEPT ![t] = @ \cup {x}]
         \/ failed' = [failed EXCEPT ![t] = @ \cup {x}]
  BY <1>1 DEF PostAccepted, PostRefused, PostUnknown
<1>5. \A d \in Events : d # x.event_id =>
        accepted'[d] = accepted[d] /\ (KnownUnknown(d)' <=> KnownUnknown(d))
  BY <1>2, <1>3, <1>4 DEF KnownUnknown, Ids, IInv, TypeOK, Entry
<1>6. \A d \in Events : StatusOf(d)' = StatusOf(d)
  <2>1. \A d \in Events : d # x.event_id => StatusOf(d)' = StatusOf(d)
    BY <1>2, <1>5 DEF StatusOf
  <2>2. \A d \in Events : d = x.event_id => StatusOf(d)' = StatusOf(d)
    BY <1>2, <1>3 DEF StatusOf, Ids
  <2> QED
    BY <2>1, <2>2
<1>7. SendIsOpen'
  BY <1>2 DEF Custody, SendIsOpen
<1>8. \A y \in Entry : Entered(y)' => Entered(y)
  BY <1>2, <1>3, <1>4 DEF Entered, IInv, TypeOK
<1>9. Sequenced'
  BY <1>2, <1>8 DEF Custody, Sequenced
<1>10. CopiesHeld'
  <2> SUFFICES ASSUME NEW u \in Tasks, pc[u] = "posting"
               PROVE  /\ unknown'[u] \subseteq sent[u]
                      /\ \A y \in sent[u] :
                            /\ y \in batch \/ y.event_id \in dropped
                            /\ y \in unsent'[u] \/ y \in failed'[u] \/ y \in unknown'[u] \/ accepted'[y.event_id] > 0
    BY <1>2 DEF CopiesHeld
  <2>1. u = t
    BY <1>2 DEF IInv, Exclusion
  <2>2. unknown'[t] \subseteq sent[t] /\ \A y \in sent[t] : y \in batch \/ y.event_id \in dropped
    BY <1>2, <1>3, <1>4 DEF Custody, CopiesHeld, IInv, TypeOK
  <2>3. \A y \in sent[t] : y # x => 
           y \in unsent'[t] \/ y \in failed'[t] \/ y \in unknown'[t] \/ accepted'[y.event_id] > 0
    BY <1>1, <1>2, <1>3, <1>4 DEF Custody, CopiesHeld, IInv, TypeOK, Entry
  <2>4. x \in failed'[t] \/ x \in unknown'[t] \/ accepted'[x.event_id] > 0
    BY <1>2, <1>3, <1>4 DEF IInv, TypeOK
  <2> QED
    BY <2>1, <2>2, <2>3, <2>4
<1>11. UnknownKept'
  BY <1>2, <1>4 DEF Custody, UnknownKept, OnRecord, IInv, TypeOK
<1>12. Accounted'
  BY <1>2, <1>6, AccountedStep DEF Custody, StatusStep, Pushed, InSend
<1> QED
  BY <1>6, <1>7, <1>9, <1>10, <1>11, <1>12 DEF Custody, StatusStep

\* The reconciliation decides: a copy that leaves the batch was taken by the
\* server or is unknown, and what is unknown stays with the task.
LEMMA Reconcile1Custody ==
    ASSUME IInv, Custody, NEW t \in Tasks, Reconcile1(t)
    PROVE  Custody' /\ \A d \in Events : StatusStep(d)
<1> USE DEF Reconcile1, Goto, histVars
<1>1. /\ batch' \subseteq batch /\ unknown'[t] = unknown[t] \cap batch
      /\ \A u \in Tasks : u # t => unknown'[u] = unknown[u] /\ sent'[u] = sent[u] /\ pc'[u] = pc[u]
      /\ sent'[t] = {} /\ pc'[t] = "reconcile2"
  BY DEF Kept, IInv, TypeOK
<1>2. \A x \in batch : x \notin batch' => x \in unknown'[t] \/ accepted[x.event_id] > 0
  BY <1>1 DEF Kept, Custody, CopiesHeld
<1>3. \A d \in Events : StatusStep(d)
  <2> SUFFICES ASSUME NEW d \in Events PROVE StatusStep(d)
    OBVIOUS
  <2>1. CASE d \in dropped
    BY <2>1 DEF StatusStep, StatusOf
  <2>2. CASE d \notin dropped /\ d \in Ids(batch')
    <3>1. d \in Ids(batch)
      BY <1>1, <2>2 DEF Ids
    <3> QED
      BY <2>2, <3>1 DEF StatusStep, StatusOf
  <2>3. CASE d \notin dropped /\ d \in Ids(batch) /\ d \notin Ids(batch')
    <3>1. KnownUnknown(d)' \/ accepted[d] > 0
      BY <1>1, <1>2, <2>3 DEF KnownUnknown, Ids
    <3>2. StatusOf(d) = "held" /\ StatusOf(d)' \in {"unknown", "accepted"}
      BY <2>3, <3>1 DEF StatusOf
    <3> QED
      BY <3>2 DEF StatusStep, Contract!Moves
  <2>4. CASE d \notin dropped /\ d \notin Ids(batch)
    <3>1. d \notin Ids(batch')
      BY <1>1, <2>4 DEF Ids
    <3>2. \A x \in unknown[t] : x.event_id # d
      BY <2>4 DEF Custody, CopiesHeld, Ids
    <3>3. KnownUnknown(d)' <=> KnownUnknown(d)
      BY <1>1, <3>2 DEF KnownUnknown, Ids
    <3> QED
      BY <2>4, <3>1, <3>3 DEF StatusStep, StatusOf
  <2> QED
    BY <2>1, <2>2, <2>3, <2>4
<1>4. SendIsOpen'
  BY DEF Custody, SendIsOpen
<1>5. \A x \in Entry : Entered(x)' => Entered(x)
  BY <1>1 DEF Entered
<1>6. Sequenced'
  BY <1>5 DEF Custody, Sequenced
<1>7. CopiesHeld'
  BY <1>1 DEF IInv, Exclusion, CopiesHeld
<1>8. UnknownKept'
  BY <1>1 DEF Custody, UnknownKept, OnRecord
<1>9. Accounted'
  BY <1>3, AccountedStep DEF Custody, Pushed, InSend
<1> QED
  BY <1>3, <1>4, <1>6, <1>7, <1>8, <1>9 DEF Custody

\* The task hands its unknown events over to unknown_event_ids, which keeps them.
LEMMA Reconcile2Custody ==
    ASSUME IInv, Custody, NEW t \in Tasks, Reconcile2(t)
    PROVE  Custody' /\ \A d \in Events : StatusStep(d)
<1> USE DEF Reconcile2, Goto, lockVars, histVars
<1>1. \A d \in Events : KnownUnknown(d)' <=> KnownUnknown(d)
  BY DEF KnownUnknown
<1>2. \A d \in Events : StatusOf(d)' = StatusOf(d)
  BY <1>1 DEF StatusOf
<1>3. SendIsOpen' /\ CopiesHeld'
  BY DEF Custody, SendIsOpen, CopiesHeld, IInv, TypeOK
<1>4. Sequenced'
  BY DEF Custody, Sequenced, Entered
<1>5. \A x \in unknown[t] : OnRecord(x.event_id)'
  BY DEF OnRecord, Ids
<1>6. \A d : OnRecord(d) => OnRecord(d)'
  BY DEF OnRecord
<1>7. UnknownKept'
  BY <1>5, <1>6 DEF Custody, UnknownKept, IInv, TypeOK
<1>8. Accounted'
  BY <1>1 DEF Custody, Accounted, Pushed, InSend
<1> QED
  BY <1>2, <1>3, <1>4, <1>7, <1>8 DEF Custody, StatusStep

\* The task lets go of what is on record; a number it adds to
\* unknown_event_sequences is that of one entry.
LEMMA Reconcile3Custody ==
    ASSUME IInv, Custody, NEW t \in Tasks, Reconcile3(t)
    PROVE  Custody' /\ \A d \in Events : StatusStep(d)
<1> USE DEF Reconcile3, AfterFlush, Goto, lockVars, histVars
<1>1. /\ unknown'[t] = {} /\ pc'[t] \in {"idle", "check"}
      /\ \A u \in Tasks : u # t => unknown'[u] = unknown[u] /\ pc'[u] = pc[u]
  BY DEF IInv, TypeOK
<1>2. \A x \in unknown[t] : OnRecord(x.event_id) /\ x \in Entry /\ Entered(x)
  BY DEF Custody, UnknownKept, Entered, IInv, TypeOK
<1>3. \A d \in Events : d \notin dropped => (KnownUnknown(d)' <=> KnownUnknown(d))
  BY <1>1, <1>2 DEF KnownUnknown, OnRecord, Ids
<1>4. \A d \in Events : StatusOf(d)' = StatusOf(d)
  BY <1>3 DEF StatusOf
<1>5. SendIsOpen' /\ CopiesHeld'
  BY <1>1 DEF Custody, SendIsOpen, CopiesHeld
<1>6. \A x \in Entry : Entered(x)' => Entered(x)
  BY <1>1 DEF Entered
<1>7. Sequenced'
  BY <1>2, <1>6 DEF Custody, Sequenced, Sequences
<1>8. \A d : OnRecord(d)' <=> OnRecord(d)
  BY DEF OnRecord
<1>9. \A u \in Tasks : cur[u] # None /\ cur[u].sequence \in Sequences(unknown[t]) => OnRecord(cur[u].event_id)
  <2> SUFFICES ASSUME NEW u \in Tasks, cur[u] # None, NEW x \in unknown[t], cur[u].sequence = x.sequence
               PROVE  OnRecord(cur[u].event_id)
    BY DEF Sequences
  <2>1. cur[u] \in Entry /\ Entered(cur[u])
    BY DEF Entered, IInv, TypeOK
  <2>2. cur[u] = x
    BY <1>2, <2>1 DEF Custody, Sequenced
  <2> QED
    BY <1>2, <2>2
<1>10. UnknownKept'
  BY <1>1, <1>8, <1>9 DEF Custody, UnknownKept
<1>11. Accounted'
  BY <1>4, AccountedStep DEF Custody, StatusStep, Pushed, InSend
<1> QED
  BY <1>4, <1>5, <1>7, <1>10, <1>11 DEF Custody, StatusStep

\* An aborted flush forgets outcomes, but only of events that are still held or
\* were dropped.
LEMMA CancelCustody ==
    ASSUME IInv, Custody, NEW t \in Tasks, Cancel(t)
    PROVE  Custody' /\ \A d \in Events : StatusStep(d)
<1> USE DEF Cancel, Goto, lockVars, setVars
<1>1. /\ unknown'[t] = {} /\ sent'[t] = {} /\ pc'[t] = "idle" /\ cur'[t] = None
      /\ \A u \in Tasks : u # t =>
            unknown'[u] = unknown[u] /\ sent'[u] = sent[u] /\ pc'[u] = pc[u] /\ cur'[u] = cur[u]
  BY DEF IInv, TypeOK
<1>2. \A d \in Events : result'[d] = result[d] \/ (result[d] = "none" /\ result'[d] = "Cancelled" /\ InSend(d))
  BY DEF Custody, SendIsOpen, InSend
<1>3. \A d \in Events : d \notin dropped /\ d \notin Ids(batch) => (KnownUnknown(d)' <=> KnownUnknown(d))
  <2>1. \A x \in unknown[t] : x.event_id \in dropped \/ x.event_id \in Ids(batch)
    BY DEF Custody, CopiesHeld, Ids
  <2> QED
    BY <1>1, <1>2, <2>1 DEF KnownUnknown, Ids
<1>4. \A d \in Events : StatusOf(d)' = StatusOf(d)
  <2> SUFFICES ASSUME NEW d \in Events PROVE StatusOf(d)' = StatusOf(d)
    OBVIOUS
  <2>1. CASE d \in dropped \/ d \in Ids(batch)
    BY <2>1 DEF StatusOf, Ids
  <2>2. CASE d \notin dropped /\ d \notin Ids(batch) /\ result'[d] = result[d]
    BY <2>2, <1>3 DEF StatusOf, Ids
  <2>3. CASE d \notin dropped /\ d \notin Ids(batch) /\ InSend(d)
               /\ result[d] = "none" /\ result'[d] = "Cancelled"
    BY <2>3, <1>3 DEF StatusOf, Ids
  <2> QED
    BY <1>2, <2>1, <2>2, <2>3
<1>5. SendIsOpen'
  BY <1>1, <1>2 DEF Custody, SendIsOpen, IInv, TypeOK, Entry
<1>6. CopiesHeld'
  BY <1>1 DEF IInv, Exclusion, CopiesHeld
<1>7. \A x \in Entry : Entered(x)' => Entered(x)
  BY <1>1, SinkAssumption DEF Entered
<1>8. Sequenced'
  BY <1>7 DEF Custody, Sequenced
<1>9. \A d \in Events : OnRecord(d)' <=> OnRecord(d)
  BY <1>2 DEF OnRecord
<1>10. UnknownKept'
  BY <1>1, <1>9 DEF Custody, UnknownKept, IInv, TypeOK, Entry
<1>11. Accounted'
  <2>1. \A d \in Events : Pushed(d)' => Pushed(d)
    BY <1>1, <1>2 DEF Pushed, InSend
  <2> QED
    BY <1>4, <2>1, AccountedStep DEF Custody, StatusStep
<1> QED
  BY <1>4, <1>5, <1>6, <1>8, <1>10, <1>11 DEF Custody, StatusStep

-----------------------------------------------------------------------------
(* drop_buffered_events, take_unknown_event_ids *)

\* A drop takes events that are held.
LEMMA Drop1Custody ==
    ASSUME IInv, Custody, NEW t \in Tasks, NEW ids \in SUBSET Events, Drop1(t, ids)
    PROVE  Custody' /\ \A d \in Events : StatusStep(d)
<1> USE DEF Drop1, Goto
<1>1. /\ batch' = {x \in batch : x.event_id \notin ids} /\ dropped' = dropped \cup (ids \cap Ids(batch))
      /\ pc[t] = "idle" /\ pc'[t] = "drop2" /\ \A u \in Tasks : u # t => pc'[u] = pc[u]
  BY DEF IInv, TypeOK
<1>2. \A d \in Events : d \notin dropped' => (d \in Ids(batch') <=> d \in Ids(batch))
  BY <1>1 DEF Ids
<1>3. \A d \in Events : KnownUnknown(d)' <=> KnownUnknown(d)
  BY DEF KnownUnknown
<1>4. \A d \in Events : StatusStep(d)
  <2> SUFFICES ASSUME NEW d \in Events PROVE StatusStep(d)
    OBVIOUS
  <2>1. CASE d \in ids \cap Ids(batch) /\ d \notin dropped
    <3>1. StatusOf(d) = "held" /\ StatusOf(d)' = "dropped"
      BY <1>1, <2>1 DEF StatusOf
    <3> QED
      BY <3>1 DEF StatusStep, Contract!Moves
  <2>2. CASE d \notin ids \cap Ids(batch) \/ d \in dropped
    BY <1>1, <1>2, <1>3, <2>2 DEF StatusStep, StatusOf
  <2> QED
    BY <2>1, <2>2
<1>5. SendIsOpen'
  BY DEF Custody, SendIsOpen
<1>6. CopiesHeld'
  <2>1. \A x \in batch : x \in batch' \/ x.event_id \in dropped'
    BY <1>1 DEF Ids
  <2> QED
    BY <1>1, <2>1 DEF Custody, CopiesHeld
<1>7. \A x \in Entry : Entered(x)' => Entered(x)
  BY <1>1 DEF Entered
<1>8. Sequenced'
  BY <1>7 DEF Custody, Sequenced
<1>9. \A d : OnRecord(d) => OnRecord(d)'
  BY <1>1 DEF OnRecord
<1>10. UnknownKept'
  BY <1>1, <1>9 DEF Custody, UnknownKept
<1>11. Accounted'
  BY <1>4, AccountedStep DEF Custody, Pushed, InSend
<1> QED
  BY <1>4, <1>5, <1>6, <1>8, <1>10, <1>11 DEF Custody

\* The second step of a drop: an event whose fate was unknown was not held, and
\* leaves the record as dropped.
LEMMA Drop2Custody ==
    ASSUME IInv, Custody, NEW t \in Tasks, Drop2(t)
    PROVE  Custody' /\ \A d \in Events : StatusStep(d)
<1> USE DEF Drop2, Goto, lockVars
<1>1. /\ unknown_ids' = unknown_ids \ purging /\ dropped' = dropped \cup (unknown_ids \cap purging)
      /\ pc[t] = "drop2" /\ pc'[t] = "drop3" /\ \A u \in Tasks : u # t => pc'[u] = pc[u]
  BY DEF IInv, TypeOK
<1>2. \A d \in Events : d \notin dropped' => (KnownUnknown(d)' <=> KnownUnknown(d))
  BY <1>1 DEF KnownUnknown
<1>3. \A d \in Events : StatusStep(d)
  <2> SUFFICES ASSUME NEW d \in Events PROVE StatusStep(d)
    OBVIOUS
  <2>1. CASE d \in unknown_ids \cap purging /\ d \notin dropped
    <3>1. d \notin Ids(batch)
      BY <2>1 DEF IInv, UnknownIsOut, Ids
    <3>2. StatusOf(d) = "unknown" /\ StatusOf(d)' = "dropped"
      BY <1>1, <2>1, <3>1 DEF StatusOf, KnownUnknown
    <3> QED
      BY <3>2 DEF StatusStep, Contract!Moves
  <2>2. CASE d \notin unknown_ids \cap purging \/ d \in dropped
    BY <1>1, <1>2, <2>2 DEF StatusStep, StatusOf
  <2> QED
    BY <2>1, <2>2
<1>4. SendIsOpen' /\ CopiesHeld'
  BY <1>1 DEF Custody, SendIsOpen, CopiesHeld
<1>5. \A x \in Entry : Entered(x)' => Entered(x)
  BY DEF Entered
<1>6. Sequenced'
  BY <1>5 DEF Custody, Sequenced
<1>7. \A d : OnRecord(d) => OnRecord(d)'
  BY <1>1 DEF OnRecord
<1>8. UnknownKept'
  BY <1>1, <1>7 DEF Custody, UnknownKept
<1>9. Accounted'
  BY <1>3, AccountedStep DEF Custody, Pushed, InSend
<1> QED
  BY <1>3, <1>4, <1>6, <1>8, <1>9 DEF Custody

\* The end of a drop and take_unknown_event_ids: an id leaves unknown_event_ids
\* because it is handed out.
LEMMA UnknownSetsCustody ==
    ASSUME IInv, Custody, NEW t \in Tasks, Drop3(t) \/ take_unknown_event_ids(t)
    PROVE  Custody' /\ \A d \in Events : StatusStep(d)
<1>1. /\ UNCHANGED <<batch, next_sequence, cur, unsent, sent, failed, unknown, accepted, dropped, result>>
      /\ unknown_sequences' \subseteq unknown_sequences
      /\ pc[t] \notin {"posting", "reconcile2", "reconcile3"}
      /\ pc' = pc \/ pc' = [pc EXCEPT ![t] = "idle"]
  BY DEF Drop3, take_unknown_event_ids, Goto, lockVars, taskVars, histVars
<1>2. \A d \in Events : d \in unknown_ids' \/ d \in taken' <=> d \in unknown_ids \/ d \in taken
  BY DEF Drop3, take_unknown_event_ids, lockVars, taskVars, histVars
<1>3. \A d \in Events : KnownUnknown(d)' <=> KnownUnknown(d)
  BY <1>1, <1>2 DEF KnownUnknown
<1>4. \A d \in Events : StatusOf(d)' = StatusOf(d)
  BY <1>1, <1>3 DEF StatusOf
<1>5. SendIsOpen' /\ CopiesHeld'
  BY <1>1 DEF Custody, SendIsOpen, CopiesHeld, IInv, TypeOK
<1>6. \A x \in Entry : Entered(x)' => Entered(x)
  BY <1>1 DEF Entered, IInv, TypeOK
<1>7. Sequenced'
  BY <1>1, <1>6 DEF Custody, Sequenced
<1>8. \A d \in Events : OnRecord(d) => OnRecord(d)'
  BY <1>1, <1>2 DEF OnRecord
<1>9. UnknownKept'
  <2>1. \A u \in Tasks : u # t => pc'[u] = pc[u]
    BY <1>1 DEF IInv, TypeOK
  <2>2. unknown[t] = {} /\ pc'[t] # "reconcile3"
    BY <1>1 DEF Custody, UnknownKept, IInv, TypeOK
  <2> QED
    BY <1>1, <1>8, <2>1, <2>2 DEF Custody, UnknownKept, IInv, TypeOK, Entry
<1>10. Accounted'
  BY <1>1, <1>4, AccountedStep DEF Custody, StatusStep, Pushed, InSend
<1> QED
  BY <1>4, <1>5, <1>7, <1>9, <1>10 DEF Custody, StatusStep

-----------------------------------------------------------------------------
\* Every step keeps Custody and is a step of the contract.
LEMMA StepCustody ==
    ASSUME IInv, Custody, [Next]_vars
    PROVE  Custody' /\ \A d \in Events : StatusStep(d)
<1>1. CASE UNCHANGED vars
  <2> USE <1>1 DEF vars, lockVars, setVars, taskVars, histVars
  <2>1. SendIsOpen' /\ CopiesHeld' /\ UnknownKept'
    BY DEF Custody, SendIsOpen, CopiesHeld, UnknownKept, OnRecord
  <2>2. Sequenced'
    BY DEF Custody, Sequenced, Entered
  <2>3. Accounted'
    BY DEF Custody, Accounted, Pushed, InSend, KnownUnknown
  <2>4. \A d \in Events : StatusOf(d)' = StatusOf(d)
    BY DEF StatusOf, KnownUnknown
  <2> QED
    BY <2>1, <2>2, <2>3, <2>4 DEF Custody, StatusStep
<1>2. CASE Next
  <2> PICK t \in Tasks :
        \/ \E e \in Events : SendLost(t, e) \/ SendPush(t, e)
        \/ FlushBegin(t) \/ Progress(t) \/ Cancel(t)
        \/ \E ids \in SUBSET Events : Drop1(t, ids)
        \/ take_unknown_event_ids(t)
    BY <1>2 DEF Next
  <2> QED
    BY SendLostCustody, SendPushCustody, CheckPendingCustody, CheckUnknownCustody, FlushBeginCustody,
       FlushSkipCustody, send_batchCustody, Reconcile1Custody, Reconcile2Custody, Reconcile3Custody,
       CancelCustody, Drop1Custody, Drop2Custody, UnknownSetsCustody DEF Progress
<1> QED
  BY <1>1, <1>2

\* Every event a send has pushed is in the batch, taken by the server, known to
\* be of unknown fate or dropped on request, at every moment of every interleaving.
THEOREM NothingVanishes == Spec => []Accounted
<1>1. Init => IInv /\ Custody
  BY InitInv, InitCustody
<1>2. IInv /\ Custody /\ [Next]_vars => (IInv /\ Custody)'
  BY StepInv, StepCustody
<1>3. Custody => Accounted
  BY DEF Custody
<1> QED
  BY <1>1, <1>2, <1>3, PTL DEF Spec

\* The sink implements SinkContract: HttpSink's send, flush_due_to and
\* drop_buffered_events, in steps that interleave, look to the fanout as if each
\* event were refused or held and left once, for one reason.
THEOREM ImplementsContract == Spec => ContractSpec
<1> DEFINE status == [e \in Events |-> StatusOf(e)]
<1>1. Init => IInv /\ Custody /\ Contract!Init
  BY InitInv, InitCustody
<1>2. IInv /\ Custody /\ [Next]_vars => (IInv /\ Custody)'
  BY StepInv, StepCustody
<1>3. IInv /\ Custody /\ [Next]_vars => [Contract!Next]_status
  <2> SUFFICES ASSUME IInv, Custody, [Next]_vars PROVE Contract!Next
    OBVIOUS
  <2>1. \A d \in Events : StatusStep(d)
    BY StepCustody
  <2>2. status' \in [Events -> Contract!Status]
    BY DEF StatusOf, Contract!Status
  <2>3. \A d \in Events : status'[d] # status[d] => <<status[d], status'[d]>> \in Contract!Moves
    BY <2>1 DEF StatusStep
  <2> QED
    BY <2>2, <2>3 DEF Contract!Next
<1> QED
  BY <1>1, <1>2, <1>3, PTL DEF Spec, ContractSpec, Contract!Spec
=============================================================================
