------------------------------ MODULE EventBus ------------------------------
(***************************************************************************)
(* The in-process event bus (nettrap-events/src/bus.rs).  A publisher      *)
(* takes a snapshot of the subscribers under the read lock and then sends  *)
(* to each without a lock, so subscriptions come and go while it sends.    *)
(* The counters are updated under a second lock.  One publisher may be     *)
(* the processor of the bus's own queue, into which sender() puts events.  *)
(***************************************************************************)
EXTENDS Naturals, FiniteSets, Sequences

CONSTANTS Publishers, Processor, Handlers, buffer_size, MaxPublished, MaxHandlerCalls,
          Subscriptions, Subscribed   \* the second: those that are there when a behaviour begins

ASSUME BusAssumption == /\ IsFiniteSet(Subscribed) /\ Subscribed \subseteq Subscriptions /\ Subscriptions \subseteq Nat
                        /\ buffer_size \in Nat /\ MaxPublished \in Nat /\ MaxHandlerCalls \in Nat

VARIABLES subscribers, handlers,    \* the two maps
          subscription,             \* of each: "new", "adding", "live", "leaving", "closing", "gone"
          got, taken,               \* what was ever put into its channel, and how much of that was received
          handlerCalls,             \* calls that changed handlers and have not counted yet: [count, clear]
          queue, publisher, busStats,
          owed                      \* history of each publish, in order: [to, must]: the snapshot, and whom it must reach
busVars == <<subscribers, handlers, subscription, got, taken, handlerCalls, queue, publisher, busStats, owed>>

effective_bounded_buffer_size == IF buffer_size = 0 THEN 1 ELSE buffer_size
IdlePublisher == [at |-> "idle", n |-> 0, block |-> FALSE, todo |-> {}, delivered |-> 0, dropped |-> 0, lost |-> {}]
BusInit ==
    /\ subscribers = Subscribed /\ handlers = {}
    /\ subscription = [s \in Subscriptions |-> IF s \in Subscribed THEN "live" ELSE "new"]
    /\ got = [s \in Subscriptions |-> <<>>] /\ taken = [s \in Subscriptions |-> 0] /\ handlerCalls = [count |-> 0, clear |-> 0]
    /\ queue = 0 /\ publisher = [p \in Publishers |-> IdlePublisher] /\ owed = <<>>
    /\ busStats = [emitted |-> 0, processed |-> 0, withDrops |-> 0, completed |-> 0, dropped |-> 0,
                   subscriber_count |-> Cardinality(Subscribed), handler_count |-> 0]

------------------------------------------------------------------------------
(* subscribe, and the drop of a subscription: the map, the counter, and    *)
(* for a drop the receiver at last.                                        *)
SubscriptionMoves(s, from, to) == subscription[s] = from /\ subscription' = [subscription EXCEPT ![s] = to]
CountSubscribers == busStats' = [busStats EXCEPT !.subscriber_count = Cardinality(subscribers)]
Fresh(s) == \A t \in Subscriptions : subscription[t] = "new" => s <= t
subscribe(s) ==
    /\ Fresh(s)    \* identifiers are never used again, so their order is no choice
    /\ SubscriptionMoves(s, "new", "adding") /\ subscribers' = subscribers \cup {s}
    /\ UNCHANGED <<handlers, got, taken, handlerCalls, queue, publisher, busStats, owed>>
subscribe_counts(s) ==
    /\ SubscriptionMoves(s, "adding", "live") /\ CountSubscribers
    /\ UNCHANGED <<subscribers, handlers, got, taken, handlerCalls, queue, publisher, owed>>
drop(s) ==
    /\ SubscriptionMoves(s, "live", IF s \in subscribers THEN "leaving" ELSE "closing")
    /\ subscribers' = subscribers \ {s}
    /\ UNCHANGED <<handlers, got, taken, handlerCalls, queue, publisher, busStats, owed>>
(* Mutant: only subscribe counts.                                          *)
drop_counts_not(s) ==
    /\ SubscriptionMoves(s, "leaving", "closing") /\ UNCHANGED busStats
    /\ UNCHANGED <<subscribers, handlers, got, taken, handlerCalls, queue, publisher, owed>>
drop_counts(s) ==
    /\ SubscriptionMoves(s, "leaving", "closing") /\ CountSubscribers
    /\ UNCHANGED <<subscribers, handlers, got, taken, handlerCalls, queue, publisher, owed>>
drop_closes(s) ==
    /\ SubscriptionMoves(s, "closing", "gone")
    /\ UNCHANGED <<subscribers, handlers, got, taken, handlerCalls, queue, publisher, busStats, owed>>
Receive(s) ==
    /\ subscription[s] = "live" /\ taken[s] < Len(got[s]) /\ taken' = [taken EXCEPT ![s] = @ + 1]
    /\ UNCHANGED <<subscribers, handlers, subscription, got, handlerCalls, queue, publisher, busStats, owed>>

(* A registration or its end counts the map; clear_handlers sets zero, and *)
(* a registration may come between its two steps.  What handlers do with   *)
(* an event, and that they fail, the publisher ignores.                    *)
HandlersBecome(set, call) ==
    /\ handlerCalls.count + handlerCalls.clear < MaxHandlerCalls
    /\ handlers' = set /\ handlerCalls' = [handlerCalls EXCEPT ![call] = @ + 1]
    /\ UNCHANGED <<subscribers, subscription, got, taken, queue, publisher, busStats, owed>>
register_handler(h) == h \notin handlers /\ HandlersBecome(handlers \cup {h}, "count")
unregister_handler(h) == h \in handlers /\ HandlersBecome(handlers \ {h}, "count")
clear_handlers == HandlersBecome({}, "clear")
HandlersCounted(call, n) ==
    /\ handlerCalls[call] > 0 /\ handlerCalls' = [handlerCalls EXCEPT ![call] = @ - 1]
    /\ busStats' = [busStats EXCEPT !.handler_count = n]
    /\ UNCHANGED <<subscribers, handlers, subscription, got, taken, queue, publisher, owed>>
register_handler_counts == HandlersCounted("count", Cardinality(handlers))
clear_handlers_counts == HandlersCounted("clear", 0)

------------------------------------------------------------------------------
(* publish: emit, emit_blocking and try_emit differ in block.              *)
sender ==
    /\ queue < effective_bounded_buffer_size /\ Len(owed) + queue < MaxPublished /\ queue' = queue + 1
    /\ UNCHANGED <<subscribers, handlers, subscription, got, taken, handlerCalls, publisher, busStats, owed>>
publish(p, block) ==
    /\ publisher[p].at = "idle"
    /\ IF p = Processor THEN queue > 0 /\ queue' = queue - 1
       ELSE Len(owed) + queue < MaxPublished /\ UNCHANGED queue
    /\ publisher' = [publisher EXCEPT ![p] =
         [IdlePublisher EXCEPT !.at = "sending", !.n = Len(owed) + 1, !.block = block, !.todo = subscribers]]
    /\ owed' = Append(owed, [to |-> subscribers,
                             must |-> {s \in subscribers : block /\ subscription[s] = "live"}])
    /\ UNCHANGED <<subscribers, handlers, subscription, got, taken, handlerCalls, busStats>>
Full(s) == Len(got[s]) - taken[s] >= effective_bounded_buffer_size
(* Mutant: a blocking publish gives up on a full channel.                  *)
send_to_subscriber_gives_up(s, block) ==
    IF subscription[s] = "gone" THEN "Disconnected" ELSE IF Full(s) THEN "Full" ELSE "Ok"
send_to_subscriber(s, block) ==
    CASE subscription[s] = "gone" -> "Disconnected"
      [] subscription[s] # "gone" /\ Full(s) -> IF block THEN "waits" ELSE "Full"
      [] OTHER -> "Ok"
(* Mutant: a subscriber that left is no drop.                              *)
Dropped_full(outcome) == IF outcome = "Full" THEN 1 ELSE 0
Dropped(outcome) == IF outcome # "Ok" THEN 1 ELSE 0
publish_sends(p) ==
    /\ publisher[p].at = "sending"
    /\ \E s \in publisher[p].todo : LET outcome == send_to_subscriber(s, publisher[p].block) IN
         /\ outcome # "waits"
         /\ publisher' = [publisher EXCEPT ![p] =
              [publisher[p] EXCEPT
                        !.todo = @ \ {s},
                        !.delivered = @ + (IF outcome = "Ok" THEN 1 ELSE 0),
                        !.dropped = @ + Dropped(outcome),
                        !.lost = @ \cup (IF outcome = "Disconnected" THEN {s} ELSE {})]]
         /\ got' = IF outcome = "Ok" THEN [got EXCEPT ![s] = Append(@, publisher[p].n)] ELSE got
    /\ UNCHANGED <<subscribers, handlers, subscription, taken, handlerCalls, queue, busStats, owed>>
publish_forgets(p) ==
    /\ publisher[p].at = "sending" /\ publisher[p].todo = {} /\ publisher[p].lost # {}
    /\ subscribers' = subscribers \ publisher[p].lost
    /\ busStats' = [busStats EXCEPT !.subscriber_count = Cardinality(subscribers')]
    /\ publisher' = [publisher EXCEPT ![p].lost = {}]
    /\ UNCHANGED <<handlers, subscription, got, taken, handlerCalls, queue, owed>>
publish_counts(p) ==
    /\ publisher[p].at = "sending" /\ publisher[p].todo = {} /\ publisher[p].lost = {}
    /\ busStats' = [busStats EXCEPT !.emitted = @ + 1, !.completed = @ + publisher[p].delivered,
                                    !.dropped = @ + publisher[p].dropped,
                                    !.withDrops = @ + (IF publisher[p].dropped > 0 THEN 1 ELSE 0)]
    /\ publisher' = [publisher EXCEPT ![p] = IF p = Processor THEN [IdlePublisher EXCEPT !.at = "processed"]
                                             ELSE IdlePublisher]
    /\ UNCHANGED <<subscribers, handlers, subscription, got, taken, handlerCalls, queue, owed>>
record_processed_event ==
    /\ Processor \in Publishers /\ publisher[Processor].at = "processed"
    /\ publisher' = [publisher EXCEPT ![Processor] = IdlePublisher]
    /\ busStats' = [busStats EXCEPT !.processed = @ + 1]
    /\ UNCHANGED <<subscribers, handlers, subscription, got, taken, handlerCalls, queue, owed>>

PublishNext ==
    \/ \E s \in Subscriptions : \/ subscribe(s) \/ subscribe_counts(s) \/ drop(s) \/ drop_counts(s) \/ drop_closes(s)
                                \/ Receive(s)
    \/ sender \/ record_processed_event
    \/ \E p \in Publishers : \/ \E block \in BOOLEAN : publish(p, block)
                             \/ publish_sends(p) \/ publish_forgets(p) \/ publish_counts(p)
HandlerNext ==
    \/ \E h \in Handlers : register_handler(h) \/ unregister_handler(h)
    \/ clear_handlers \/ register_handler_counts \/ clear_handlers_counts
BusNext == PublishNext \/ HandlerNext
BusSpec == BusInit /\ [][BusNext]_busVars

------------------------------------------------------------------------------
Sent(s) == {got[s][i] : i \in DOMAIN got[s]}
Silent == \A p \in Publishers : publisher[p].at # "sending"
Missed(n) == {s \in owed[n].to : n \notin Sent(s)}

(* Whatever subscriptions come and go while it is published, the counters  *)
(* say of every event to how many subscribers it went and how many of the  *)
(* snapshot missed it, and no channel gets an event twice                  *)
(* (EventBus::publish).                                                    *)
BusAccounted ==
    Silent =>
      /\ busStats.emitted = Len(owed)
      /\ \A s \in Subscriptions : Cardinality(Sent(s)) = Len(got[s])
      /\ busStats.completed = Cardinality(UNION {{s} \X Sent(s) : s \in Subscriptions})
      /\ busStats.dropped = Cardinality(UNION {{n} \X Missed(n) : n \in DOMAIN owed})
      /\ busStats.withDrops = Cardinality({n \in DOMAIN owed : Missed(n) # {}})

(* A blocking publish reaches everyone whose subscription was there when   *)
(* it began, unless that one left in the meantime (emit_blocking).         *)
BlockingReaches ==
    \A n \in DOMAIN owed :
      (\A p \in Publishers : publisher[p].n # n) =>
        \A s \in owed[n].must : n \in Sent(s) \/ subscription[s] = "gone"

(* Between calls subscriber_count is the number of subscriptions, and      *)
(* handler_count is never more than that of handlers (subscribe, Drop for  *)
(* EventSubscription, publish; clear_handlers may leave it too low).       *)
CountsExact ==
    /\ (\A s \in Subscriptions : subscription[s] \notin {"adding", "leaving"}) =>
         /\ busStats.subscriber_count = Cardinality(subscribers)
         /\ subscribers = {s \in Subscriptions : subscription[s] = "live"}
    /\ handlerCalls = [count |-> 0, clear |-> 0] => busStats.handler_count <= Cardinality(handlers)

(* What the event bus counts and answers is what happened to the event:    *)
(* its counters say where each went (BusAccounted), a blocking publish     *)
(* reached everybody (BlockingReaches), and the number of handlers is that *)
(* of its table (CountsExact), with subscriptions that come and go         *)
(* meanwhile.                                                              *)
BusTruthful == BusAccounted /\ BlockingReaches /\ CountsExact
=============================================================================
