----------------------------- MODULE FlowManager -----------------------------
(***************************************************************************)
(* The flow table (nettrap-flow/src/manager.rs, FlowManager).              *)
(*                                                                         *)
(* Connection tasks create, touch and remove flows, readers sweep expired  *)
(* ones, and creation evicts the oldest flow when the table is full.  The  *)
(* table is four containers and a statistics record, each behind its own   *)
(* lock: flows, flow_index, flow_order, recent_flows and stats.  Only      *)
(* creation and clear hold insert_lock; every removal runs without it, so  *)
(* it can fall between the steps of a creation.                            *)
(*                                                                         *)
(* A flow is its id and its updated_at; the traffic it describes and the   *)
(* hit and miss counters are left out.                                     *)
(***************************************************************************)
EXTENDS Naturals, FiniteSets, Sequences

CONSTANTS
    Keys,         \* flow keys
    Threads,      \* callers
    None,         \* no flow / no key / nobody
    MaxFlows,     \* effective_max_flows(config.max_flows)
    RecentLimit,  \* length of recent_flows: 1000 in the code
    Timeout,      \* config.flow_timeout
    MaxIds,       \* bound: flows ever created
    MaxTime,      \* bound: the clock
    Ops           \* the operations the callers use

ASSUME FlowAssumption ==
    /\ None \notin Threads /\ None \notin Keys /\ None \notin [id : Nat, updated_at : Nat]
    /\ IsFiniteSet(Keys) /\ IsFiniteSet(Threads)
    /\ MaxFlows \in Nat \ {0} /\ RecentLimit \in Nat \ {0} /\ Timeout \in Nat \ {0}
    /\ MaxIds \in Nat /\ MaxTime \in Nat
    /\ Ops \subseteq {"get_or_create", "update", "remove", "sweep", "clear"}

VARIABLES
    flows,          \* [Keys -> [id, updated_at] or None]
    flow_index,     \* [ids -> key or None]
    flow_order,     \* ids, oldest first
    recent_flows,
    insert_lock,    \* who holds it
    cleanup_lock,   \* who holds last_cleanup for writing
    created, closed, active,   \* stats
    now,
    last_id,        \* ids handed out so far
    th              \* [Threads -> what the caller is doing]: see Caller

vars == <<flows, flow_index, flow_order, recent_flows, insert_lock, cleanup_lock,
          created, closed, active, now, last_id, th>>

Ids == 1..MaxIds

AnyStamp == MaxTime + 1   \* a removal that does not look at updated_at

Labels == {"idle", "lookup", "lock", "locked", "relookup", "enforce", "pop", "evict", "fallback", "insert",
           "index", "order", "recent", "count", "update", "remove", "sweep", "unindex",
           "unorder", "unrecent", "uncount", "clear", "clearing", "clear_index",
           "clear_recent", "clear_order", "clear_count"}

Caller == [ pc   : Labels,
            key  : Keys \cup {None},
            id   : Ids \cup {None},       \* the flow being inserted, evicted or unindexed
            todo : SUBSET [key : Keys, stamp : 0..AnyStamp],   \* flows to remove
            gone : SUBSET Ids,            \* flows this call has removed
            back : Labels ]               \* where the removal returns to

IdleCaller == [pc |-> "idle", key |-> None, id |-> None, todo |-> {}, gone |-> {}, back |-> "idle"]

Live == {k \in Keys : flows[k] # None}

SeqIds(s) == {s[i] : i \in 1..Len(s)}

TypeOK ==
    /\ flows \in [Keys -> [id : Ids, updated_at : 0..MaxTime] \cup {None}]
    /\ flow_index \in [Ids -> Keys \cup {None}]
    /\ SeqIds(flow_order) \subseteq Ids
    /\ SeqIds(recent_flows) \subseteq Ids /\ Len(recent_flows) <= RecentLimit
    /\ insert_lock \in Threads \cup {None} /\ cleanup_lock \in Threads \cup {None}
    /\ created \in 0..MaxIds /\ closed \in 0..MaxIds /\ active \in 0..MaxFlows
    /\ now \in 0..MaxTime /\ last_id \in 0..MaxIds
    /\ th \in [Threads -> Caller]

Init ==
    /\ flows = [k \in Keys |-> None]
    /\ flow_index = [i \in Ids |-> None]
    /\ flow_order = <<>> /\ recent_flows = <<>>
    /\ insert_lock = None /\ cleanup_lock = None
    /\ created = 0 /\ closed = 0 /\ active = 0
    /\ now = 0 /\ last_id = 0
    /\ th = [t \in Threads |-> IdleCaller]

Goto(t, label) == th' = [th EXCEPT ![t].pc = label]

At(t, label) == th[t].pc = label

\* flow_is_expired
Expired(f) == now - f.updated_at >= Timeout

table == <<flows, flow_index, flow_order, recent_flows>>
locks == <<insert_lock, cleanup_lock>>
stats == <<created, closed, active>>
clock == <<now, last_id>>

Tick ==
    /\ now < MaxTime
    /\ now' = now + 1
    /\ UNCHANGED <<table, locks, stats, last_id, th>>

-----------------------------------------------------------------------------
(* Removal: remove_expired_keys of the flows in todo, and remove_internal   *)
(* of one flow whatever its age (stamp AnyStamp).                                *)

StartRemoval(t, doomed, back) ==
    th' = [th EXCEPT ![t].pc = "sweep", ![t].todo = doomed, ![t].back = back, ![t].gone = {}]

\* collect_expired_keys
ExpiredEntries == {[key |-> k, stamp |-> flows[k].updated_at] : k \in {k \in Live : Expired(flows[k])}}

\* Mutant: the flow is not looked at again before it is removed.
RemoveIf_mutant(x) == flows[x.key] # None

\* remove_if: the flow is still the one that was found expired.
RemoveIf(x) ==
    /\ flows[x.key] # None
    /\ x.stamp # AnyStamp => flows[x.key].updated_at = x.stamp

RemoveFlow(t) ==
    /\ At(t, "sweep")
    /\ \E x \in th[t].todo :
        LET id == flows[x.key].id
        IN  IF RemoveIf(x)
            THEN /\ flows' = [flows EXCEPT ![x.key] = None]
                 /\ th' = [th EXCEPT ![t].todo = @ \ {x}, ![t].gone = @ \cup {id},
                                     ![t].id = id, ![t].pc = "unindex"]
            ELSE /\ th' = [th EXCEPT ![t].todo = @ \ {x}]
                 /\ UNCHANGED flows
    /\ UNCHANGED <<flow_index, flow_order, recent_flows, locks, stats, clock>>

Unindex(t) ==
    /\ At(t, "unindex")
    /\ flow_index' = [flow_index EXCEPT ![th[t].id] = None]
    /\ Goto(t, "sweep")
    /\ UNCHANGED <<flows, flow_order, recent_flows, locks, stats, clock>>

\* Where a removal returns to.  get, contains and update give up when they
\* removed the expired flow and look again when somebody else had; an eviction
\* that removed nothing takes the next id, or ends if it had run out of ids.
Resume(t) ==
    LET back    == th[t].back
        removed == th[t].gone # {}
    IN  CASE back = "update"   -> IF removed THEN "idle" ELSE "update"
          [] back = "evict"    -> IF removed THEN "enforce" ELSE "pop"
          [] back = "fallback" -> IF removed THEN "enforce" ELSE "insert"
          [] OTHER             -> back

EndRemoval(t) ==
    /\ th' = [th EXCEPT ![t].pc = Resume(t), ![t].gone = {}, ![t].id = None, ![t].back = "idle",
                        ![t].key = IF Resume(t) = "idle" THEN None ELSE @]
    /\ cleanup_lock' = IF cleanup_lock = t THEN None ELSE cleanup_lock

RemovalDone(t) ==
    /\ At(t, "sweep") /\ th[t].todo = {}
    /\ IF th[t].gone = {} THEN EndRemoval(t) ELSE Goto(t, "unorder") /\ UNCHANGED cleanup_lock
    /\ UNCHANGED <<table, insert_lock, stats, clock>>

\* retain: what is not among ids, in its order.
Without(s, ids) ==
    LET kept[n \in 0..Len(s)] ==
            IF n = 0 THEN <<>>
            ELSE IF s[n] \in ids THEN kept[n - 1] ELSE Append(kept[n - 1], s[n])
    IN  kept[Len(s)]

Unorder(t) ==
    /\ At(t, "unorder")
    /\ flow_order' = Without(flow_order, th[t].gone)
    /\ Goto(t, "unrecent")
    /\ UNCHANGED <<flows, flow_index, recent_flows, locks, stats, clock>>

Unrecent(t) ==
    /\ At(t, "unrecent")
    /\ recent_flows' = Without(recent_flows, th[t].gone)
    /\ Goto(t, "uncount")
    /\ UNCHANGED <<flows, flow_index, flow_order, locks, stats, clock>>

\* Mutant: a sweep counts one closed flow however many it removed.
Uncount_mutant(t) ==
    /\ At(t, "uncount")
    /\ closed' = closed + 1
    /\ active' = Cardinality(Live)
    /\ EndRemoval(t)
    /\ UNCHANGED <<table, insert_lock, created, clock>>

Uncount(t) ==
    /\ At(t, "uncount")
    /\ closed' = closed + Cardinality(th[t].gone)
    /\ active' = Cardinality(Live)
    /\ EndRemoval(t)
    /\ UNCHANGED <<table, insert_lock, created, clock>>

-----------------------------------------------------------------------------
(* The start of an operation. *)

\* maybe_cleanup, whether or not the interval has passed; the sweep runs with
\* last_cleanup held for writing, which every other caller wants to read.
maybe_cleanup(t, k, next) ==
    /\ cleanup_lock = None
    /\ \/ /\ th' = [th EXCEPT ![t].pc = next, ![t].key = k]
          /\ UNCHANGED cleanup_lock
       \/ /\ th' = [th EXCEPT ![t].pc = "sweep", ![t].key = k, ![t].todo = ExpiredEntries,
                              ![t].back = next]
          /\ cleanup_lock' = t
    /\ UNCHANGED <<table, insert_lock, stats, clock>>

\* Bound: the calls under way leave enough ids for this one.
CanCreate == last_id + Cardinality({t \in Threads : ~At(t, "idle")}) < MaxIds

Call(t) ==
    /\ At(t, "idle")
    /\ \/ \E k \in Keys :
            \/ "get_or_create" \in Ops /\ CanCreate /\ maybe_cleanup(t, k, "lookup")
            \/ "update" \in Ops /\ maybe_cleanup(t, k, "update")
            \/ "remove" \in Ops /\ maybe_cleanup(t, k, "remove")
       \/ /\ "clear" \in Ops
          /\ Goto(t, "clear")
          /\ UNCHANGED <<table, locks, stats, clock>>

\* len, iter, stats, cleanup_expired and the other readers: a sweep without
\* the cleanup lock.
cleanup_expired_internal(t) ==
    /\ At(t, "idle") /\ "sweep" \in Ops /\ ExpiredEntries # {}
    /\ StartRemoval(t, ExpiredEntries, "idle")
    /\ UNCHANGED <<table, locks, stats, clock>>

-----------------------------------------------------------------------------
(* get, contains, update; remove *)

\* A live flow is read, or refreshed by update, under its shard lock.
update(t) ==
    LET f == flows[th[t].key]
    IN  /\ At(t, "update")
        /\ \/ /\ f = None
              /\ th' = [th EXCEPT ![t] = IdleCaller]
              /\ UNCHANGED flows
           \/ /\ f # None /\ Expired(f)
              /\ StartRemoval(t, {[key |-> th[t].key, stamp |-> f.updated_at]}, "update")
              /\ UNCHANGED flows
           \/ /\ f # None /\ ~Expired(f)
              /\ flows' \in {flows, [flows EXCEPT ![th[t].key].updated_at = now]}
              /\ th' = [th EXCEPT ![t] = IdleCaller]
        /\ UNCHANGED <<flow_index, flow_order, recent_flows, locks, stats, clock>>

remove(t) ==
    /\ At(t, "remove")
    /\ StartRemoval(t, {[key |-> th[t].key, stamp |-> AnyStamp]}, "idle")
    /\ UNCHANGED <<table, locks, stats, clock>>

-----------------------------------------------------------------------------
(* get_or_create *)

\* A live flow is returned; an expired one is removed first.
Lookup(t, label, next) ==
    LET f == flows[th[t].key]
    IN  /\ At(t, label)
        /\ IF f = None THEN Goto(t, next)
           ELSE IF Expired(f)
           THEN StartRemoval(t, {[key |-> th[t].key, stamp |-> f.updated_at]}, next)
           ELSE th' = [th EXCEPT ![t] = IdleCaller]
        /\ insert_lock' = IF f # None /\ ~Expired(f) /\ insert_lock = t THEN None ELSE insert_lock
        /\ UNCHANGED <<table, cleanup_lock, stats, clock>>

TakeInsertLock(t, label, next) ==
    /\ At(t, label) /\ insert_lock = None
    /\ insert_lock' = t
    /\ Goto(t, next)
    /\ UNCHANGED <<table, cleanup_lock, stats, clock>>

\* Mutant: the table is not looked at again once the lock is held.
LookupAgain_mutant(t) ==
    /\ At(t, "relookup")
    /\ Goto(t, "enforce")
    /\ UNCHANGED <<table, locks, stats, clock>>

LookupAgain(t) == Lookup(t, "relookup", "enforce")

\* Mutant: one flow too many.
Full_mutant == Cardinality(Live) > MaxFlows

Full == Cardinality(Live) >= MaxFlows

enforce_max_flows(t) ==
    /\ At(t, "enforce")
    /\ Goto(t, IF Full THEN "pop" ELSE "insert")
    /\ UNCHANGED <<table, locks, stats, clock>>

\* evict_oldest_flow: the oldest id, or any flow when there is none.
PopOldest(t) ==
    /\ At(t, "pop")
    /\ IF flow_order # <<>>
       THEN /\ flow_order' = Tail(flow_order)
            /\ th' = [th EXCEPT ![t].id = Head(flow_order), ![t].pc = "evict"]
       ELSE /\ IF Live = {} THEN Goto(t, "insert")
               ELSE \E k \in Live : StartRemoval(t, {[key |-> k, stamp |-> AnyStamp]}, "fallback")
            /\ UNCHANGED flow_order
    /\ UNCHANGED <<flows, flow_index, recent_flows, locks, stats, clock>>

EvictKey(t) ==
    LET k == flow_index[th[t].id]
    IN  /\ At(t, "evict")
        /\ IF k = None THEN Goto(t, "pop")
           ELSE StartRemoval(t, {[key |-> k, stamp |-> AnyStamp]}, "evict")
        /\ UNCHANGED <<table, locks, stats, clock>>

Insert(t) ==
    LET id == last_id + 1
    IN  /\ At(t, "insert")
        /\ last_id' = id
        /\ flows' = [flows EXCEPT ![th[t].key] = [id |-> id, updated_at |-> now]]
        /\ th' = [th EXCEPT ![t].id = id, ![t].pc = "index"]
        /\ UNCHANGED <<flow_index, flow_order, recent_flows, locks, stats, now>>

Index(t) ==
    /\ At(t, "index")
    /\ flow_index' = [flow_index EXCEPT ![th[t].id] = th[t].key]
    /\ Goto(t, "order")
    /\ UNCHANGED <<flows, flow_order, recent_flows, locks, stats, clock>>

\* Mutant: the new flow is not put into the eviction order.
RecordOrder_mutant(t) ==
    /\ At(t, "order")
    /\ Goto(t, "recent")
    /\ UNCHANGED <<table, locks, stats, clock>>

\* record_new_flow
RecordOrder(t) ==
    /\ At(t, "order")
    /\ flow_order' = Append(flow_order, th[t].id)
    /\ Goto(t, "recent")
    /\ UNCHANGED <<flows, flow_index, recent_flows, locks, stats, clock>>

\* Mutant: the oldest id is not given up.
RecordRecent_mutant(t) ==
    /\ At(t, "recent")
    /\ recent_flows' = Append(recent_flows, th[t].id)
    /\ Goto(t, "count")
    /\ UNCHANGED <<flows, flow_index, flow_order, locks, stats, clock>>

RecordRecent(t) ==
    LET longer == Append(recent_flows, th[t].id)
    IN  /\ At(t, "recent")
        /\ recent_flows' = IF Len(longer) > RecentLimit THEN Tail(longer) ELSE longer
        /\ Goto(t, "count")
        /\ UNCHANGED <<flows, flow_index, flow_order, locks, stats, clock>>

Count(t) ==
    /\ At(t, "count")
    /\ created' = created + 1
    /\ active' = Cardinality(Live)
    /\ insert_lock' = None
    /\ th' = [th EXCEPT ![t] = IdleCaller]
    /\ UNCHANGED <<table, cleanup_lock, closed, clock>>

get_or_create(t) ==
    \/ Lookup(t, "lookup", "lock")
    \/ TakeInsertLock(t, "lock", "locked")
    \/ At(t, "locked") /\ maybe_cleanup(t, th[t].key, "relookup")
    \/ LookupAgain(t)
    \/ enforce_max_flows(t) \/ PopOldest(t) \/ EvictKey(t)
    \/ Insert(t) \/ Index(t) \/ RecordOrder(t) \/ RecordRecent(t) \/ Count(t)

-----------------------------------------------------------------------------
(* clear: the flows one by one, then the other containers. *)

ClearKeys(t) ==
    /\ At(t, "clearing")
    /\ \/ \E k \in Live :
            /\ flows' = [flows EXCEPT ![k] = None]
            /\ th' = [th EXCEPT ![t].gone = @ \cup {flows[k].id}]
       \/ Live = {} /\ Goto(t, "clear_index") /\ UNCHANGED flows
    /\ UNCHANGED <<flow_index, flow_order, recent_flows, locks, stats, clock>>

ClearIndex(t) ==
    /\ At(t, "clear_index")
    /\ flow_index' = [i \in Ids |-> None]
    /\ Goto(t, "clear_recent")
    /\ UNCHANGED <<flows, flow_order, recent_flows, locks, stats, clock>>

ClearRecent(t) ==
    /\ At(t, "clear_recent")
    /\ recent_flows' = <<>>
    /\ Goto(t, "clear_order")
    /\ UNCHANGED <<flows, flow_index, flow_order, locks, stats, clock>>

ClearOrder(t) ==
    /\ At(t, "clear_order")
    /\ flow_order' = <<>>
    /\ Goto(t, "clear_count")
    /\ UNCHANGED <<flows, flow_index, recent_flows, locks, stats, clock>>

ClearCount(t) ==
    /\ At(t, "clear_count")
    /\ closed' = closed + Cardinality(th[t].gone)
    /\ active' = 0
    /\ insert_lock' = None
    /\ th' = [th EXCEPT ![t] = IdleCaller]
    /\ UNCHANGED <<table, cleanup_lock, created, clock>>

clear(t) ==
    \/ TakeInsertLock(t, "clear", "clearing")
    \/ ClearKeys(t) \/ ClearIndex(t) \/ ClearRecent(t) \/ ClearOrder(t) \/ ClearCount(t)

-----------------------------------------------------------------------------
Removal(t) ==
    \/ RemoveFlow(t) \/ Unindex(t) \/ RemovalDone(t)
    \/ Unorder(t) \/ Unrecent(t) \/ Uncount(t)

Step(t) == get_or_create(t) \/ update(t) \/ remove(t) \/ clear(t) \/ Removal(t)

Next ==
    \/ \E t \in Threads : Call(t) \/ cleanup_expired_internal(t) \/ Step(t)
    \/ Tick

Spec == Init /\ [][Next]_vars

-----------------------------------------------------------------------------
(* Properties *)

Quiet == \A t \in Threads : At(t, "idle")

\* When no call is under way the statistics are exact, whatever creations,
\* removals, sweeps and clears overlapped: each flow was counted as created once
\* and as closed once, and active_flows is not an earlier length.
StatsBalance ==
    Quiet => created = closed + Cardinality(Live) /\ active = Cardinality(Live)

\* get_or_create never exceeds the capacity.
CapacityRespected == Cardinality(Live) <= MaxFlows

\* A flow is never overwritten by another one: two creations of the same key
\* meet at insert_lock.
NoOverwrite ==
    [][\A k \in Keys : flows[k] # None /\ flows'[k] # None => flows'[k].id = flows[k].id]_vars

\* Every flow nobody is creating can be found by its id and will have its turn
\* in the eviction order, exactly once.
FlowIsReachable ==
    insert_lock = None =>
        \A k \in Live :
            /\ flow_index[flows[k].id] = k
            /\ Cardinality({i \in 1..Len(flow_order) : flow_order[i] = flows[k].id}) = 1

\* The structures of the flow manager agree once no caller is between two of
\* them: the counters balance, and eviction can find every flow (get_or_create
\* and remove update flows, flow_index, flow_order, recent_flows and stats one
\* after the other).
IndexesAgree == TypeOK /\ StatsBalance /\ FlowIsReachable

\* An expiry sweep removes only flows that are expired when it removes them:
\* a flow touched or created anew since it was collected stays.
SweepSparesLive ==
    [][\A t \in Threads, k \in Keys :
          /\ At(t, "sweep") /\ th'[t].pc = "unindex"
          /\ flows[k] # None /\ flows'[k] = None
          /\ \A x \in th[t].todo : x.stamp # AnyStamp
          => Expired(flows[k])]_vars
=============================================================================
