---------------------------- MODULE SinkContract ----------------------------
(***************************************************************************)
(* What the fanout relies on from a buffering event sink                   *)
(* (trait EventSink, nettrap-distributed/src/lib.rs): an event it is given *)
(* is refused or held, and an event it holds leaves for exactly one        *)
(* reason -- the remote side took it, its fate is unknown, or the fanout   *)
(* asked for it to be dropped (a request already under way for a dropped   *)
(* event may still reach the server).  A drop also erases the record of an *)
(* unknown fate.  Nothing that left comes back.                            *)
(***************************************************************************)
CONSTANT Events

VARIABLE status

Status == {"new", "refused", "held", "accepted", "unknown", "dropped"}

Init == status = [e \in Events |-> "new"]

\* From -> To; every other status is final.
Moves == { <<"new", "refused">>, <<"new", "held">>,
           <<"held", "accepted">>, <<"held", "unknown">>, <<"held", "dropped">>,
           <<"unknown", "dropped">> }

\* A flush resolves several events at once, each in its own way.
Next ==
    /\ status' \in [Events -> Status]
    /\ \A e \in Events : status'[e] # status[e] => <<status[e], status'[e]>> \in Moves

Spec == Init /\ [][Next]_status
=============================================================================
