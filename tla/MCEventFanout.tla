--------------------------- MODULE MCEventFanout ---------------------------
(***************************************************************************)
(* The ways an event leaves the process, for TLC: the fanout with its      *)
(* trackers, the sinks that keep a connection, and the event bus.  They    *)
(* share no state, so a behaviour is one of them (part) and the others     *)
(* idle; so do the handlers of the bus and its subscribers.  Events are    *)
(* interchangeable.                                                        *)
(***************************************************************************)
EXTENDS EventFanout, StreamSinks, EventBus, TLC

VARIABLE part
allVars == <<part, vars, streamVars, busVars>>

MCInit == /\ part \in {"fanout", "sinks", "bus", "handlers"}
          /\ Init /\ SinksInit /\ (part = "sinks" \/ sinkKind = "tcp") /\ BusInit
MCNext == \/ part = "fanout" /\ Next /\ UNCHANGED <<part, streamVars, busVars>>
          \/ part = "sinks" /\ SinksNext /\ UNCHANGED <<part, vars, busVars>>
          \/ part = "bus" /\ PublishNext /\ UNCHANGED <<part, vars, streamVars>>
          \/ part = "handlers" /\ HandlerNext /\ UNCHANGED <<part, vars, streamVars>>
MCSpec == MCInit /\ [][MCNext]_allVars

Symmetry == Permutations(Events)
=============================================================================
