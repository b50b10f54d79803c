----------------------------- MODULE MCHttpSink -----------------------------
(***************************************************************************)
(* The HTTP sink for the model checker.  Events are interchangeable, so    *)
(* they are numbered in the order in which they are sent: a symmetry       *)
(* reduction that liveness survives.  Liveness costs most, so fairness is  *)
(* asked only of the behaviours that send Few events; fair tells which.    *)
(* With more than Few events fewer are dropped and no unknown ones are     *)
(* taken.  Drops that change nothing are left out.                         *)
(***************************************************************************)
EXTENDS HttpSink

CONSTANT Few

VARIABLE fair

Sent(e) == result[e] # "none" \/ InSend(e)

InOrder == \A e, f \in Events : e < f /\ Sent(f) => Sent(e)

MCvars == <<vars, fair>>

MCInit == Init /\ fair \in BOOLEAN

MCNext ==
    /\ Next /\ UNCHANGED fair
    /\ InOrder'
    /\ fair => ~Sent(Few + 1)'
    /\ Sent(Few + 1)' => Cardinality(dropped') < Few /\ taken' = {}
    /\ \A t \in Tasks : ~IdleDrop(t)

Fair(A) == fair /\ A /\ UNCHANGED fair

MCFairness ==
    /\ \A t \in Tasks : WF_MCvars(Fair(Progress(t)))
    /\ SF_MCvars(Fair(\E t \in Tasks : FlushBegin(t)))
    /\ \A t \in Tasks : \A e \in 1..Few :
          SF_MCvars(Fair(send_batch(t) /\ accepted'[e] > accepted[e]))

MCSpec == MCInit /\ [][MCNext]_MCvars /\ MCFairness

\* BatchDrains, for the behaviours that are fair: with tasks that go on,
\* repeated flushes and a server that accepts in the end, an event leaves the
\* batch (flush_due_to), unless an aborted flush has left the sink locked.
MCBatchDrains ==
    \A e \in 1..Few :
        (fair /\ e \in Ids(batch)) ~> (e \notin Ids(batch) \/ ~FlushingIsOwned)
=============================================================================
