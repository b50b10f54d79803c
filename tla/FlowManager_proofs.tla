-------------------------- MODULE FlowManager_proofs --------------------------
(***************************************************************************)
(* Proofs about the flow table for every set of keys and callers and every *)
(* capacity.                                                               *)
(*                                                                         *)
(* NoOverwrite and CapacityRespected are not inductive.  IInv adds the     *)
(* argument get_or_create rests on: between its second look and its insert *)
(* the caller holds insert_lock (Mutex), its key is free or holds an       *)
(* expired flow that it is about to remove and that nobody can refresh     *)
(* (KeyFree), and the room made by an eviction cannot be taken by anybody  *)
(* else, even when the flow it chose is removed under its hands (Room).    *)
(*                                                                         *)
(* IndexesAgree rests on TableInv, further down: what each caller still    *)
(* owes to the containers it has not reached yet.                          *)
(***************************************************************************)
EXTENDS FlowManager, FiniteSetTheorems, SequenceTheorems, WellFoundedInduction, TLAPS

Fields == {"pc", "key", "id", "todo", "gone", "back"}

\* What the proof needs of the types.
Shape ==
    /\ DOMAIN th = Threads
    /\ \A t \in Threads : DOMAIN th[t] = Fields
    /\ flows \in [Keys -> [id : Nat, updated_at : Nat] \cup {None}]
    /\ now \in Nat /\ last_id \in Nat

Removing == {"sweep", "unindex", "unorder", "unrecent", "uncount"}

\* t is between its second look and its insert.
Reserved(t) ==
    \/ th[t].pc \in {"enforce", "pop", "evict", "insert"}
    \/ th[t].pc \in Removing /\ th[t].back \in {"enforce", "evict", "fallback"}

Holds(t) ==
    \/ Reserved(t)
    \/ th[t].pc \in {"locked", "relookup", "index", "order", "recent", "count", "clearing",
                     "clear_index", "clear_recent", "clear_order", "clear_count"}
    \/ th[t].pc \in Removing /\ th[t].back = "relookup"

\* t is on its way to an insert.
Creating(t) ==
    \/ Reserved(t)
    \/ th[t].pc \in {"lookup", "lock", "locked", "relookup"}
    \/ th[t].pc \in Removing /\ th[t].back \in {"lookup", "lock", "relookup"}

\* Whoever is inside the critical section holds the lock.
Mutex(t) == Holds(t) => insert_lock = t

HasKey(t) ==
    \/ Creating(t)
    \/ th[t].pc = "update"
    \/ th[t].pc \in Removing /\ th[t].back = "update"
    => th[t].key \in Keys

\* The key t has reserved is free; an expired flow that is still there is the
\* one t is about to remove.
KeyFree(t) ==
    Reserved(t) =>
        LET f == flows[th[t].key]
        IN  \/ f = None
            \/ /\ th[t].pc = "sweep" /\ th[t].back = "enforce"
               /\ [key |-> th[t].key, stamp |-> f.updated_at] \in th[t].todo
               /\ Expired(f)

\* A flow on an expiry list was expired when it was listed, and still is.
StampsExpired(t) ==
    \A x \in th[t].todo : x.stamp # AnyStamp => x.stamp \in Nat /\ now - x.stamp >= Timeout

\* There is room for the insert; an eviction that ran out of ids has its flow
\* still to remove, or somebody else has just made the room.
Room(t) ==
    /\ th[t].pc = "insert" => Cardinality(Live) < MaxFlows
    /\ th[t].pc = "sweep" /\ th[t].back = "fallback" /\ th[t].gone = {} =>
          \/ Cardinality(Live) < MaxFlows
          \/ \E x \in th[t].todo : x.key \in Live /\ x.stamp = AnyStamp /\ th[t].todo = {x}

\* Where a removal may return to; past the removal itself there is something
\* to take out of the history.
Returns(t) ==
    /\ th[t].back \in {"idle", "lookup", "lock", "relookup", "enforce", "evict", "fallback",
                       "update", "remove"}
    /\ th[t].pc \in Removing \ {"sweep"} => th[t].gone # {}

CallerInv(t) == Mutex(t) /\ HasKey(t) /\ KeyFree(t) /\ StampsExpired(t) /\ Room(t) /\ Returns(t)

IInv == Shape /\ CapacityRespected /\ \A t \in Threads : CallerInv(t)

-----------------------------------------------------------------------------
(* The table and the other callers during a step of t. *)

\* The live flows are finitely many.
LEMMA LiveFinite == IsFiniteSet(Live) /\ Cardinality(Live) \in Nat
<1>1. IsFiniteSet(Live)
  BY FlowAssumption, FS_Subset DEF Live
<1> QED
  BY <1>1, FS_CardinalityType

\* A removal does not make the table larger, and a real one makes it smaller.
LEMMA LiveShrinks ==
    ASSUME Live' \subseteq Live
    PROVE  /\ Cardinality(Live') <= Cardinality(Live)
           /\ Live' # Live => Cardinality(Live') < Cardinality(Live)
           /\ Cardinality(Live') \in Nat /\ Cardinality(Live) \in Nat
<1>1. IsFiniteSet(Live) /\ Cardinality(Live) \in Nat
  BY LiveFinite
<1>2. IsFiniteSet(Live') /\ Cardinality(Live') <= Cardinality(Live)
  BY <1>1, FS_Subset
<1>3. Cardinality(Live') = Cardinality(Live) => Live' = Live
  BY <1>1, FS_Subset
<1>4. Cardinality(Live') \in Nat
  BY <1>2, FS_CardinalityType
<1> QED
  BY <1>1, <1>2, <1>3, <1>4

\* What a step of t may do to the others: keep their locks, and remove a flow,
\* refresh one that is not expired, or insert one under insert_lock.
Spares(t) ==
    /\ \A u \in Threads : u # t => th'[u] = th[u] /\ (insert_lock = u => insert_lock' = u)
    /\ now' = now
    /\ \A k \in Keys : \/ flows'[k] = flows[k]
                       \/ flows'[k] = None
                       \/ flows[k] # None /\ ~Expired(flows[k])
                       \/ insert_lock = t

\* Such a step keeps the invariant of every other caller: it cannot put a flow
\* under a reserved key, and it cannot take the room that was made.
LEMMA OthersInv ==
    ASSUME IInv, NEW t \in Threads, Spares(t), NEW u \in Threads, u # t
    PROVE  CallerInv(u)'
<1> USE DEF IInv, CallerInv
<1>1. th'[u] = th[u] /\ now' = now /\ (insert_lock = u => insert_lock' = u)
  BY DEF Spares
<1>2. Mutex(u)' /\ HasKey(u)' /\ StampsExpired(u)' /\ Returns(u)'
  BY <1>1 DEF Mutex, HasKey, StampsExpired, Returns, Holds, Creating, Reserved
<1>3. Reserved(u) => insert_lock # t
  BY DEF Mutex, Holds
<1>4. KeyFree(u)'
  <2> SUFFICES ASSUME Reserved(u) PROVE KeyFree(u)'
    BY <1>1 DEF KeyFree, Reserved
  <2>1. th[u].key \in Keys /\ insert_lock # t
    BY <1>3 DEF HasKey, Creating
  <2> DEFINE f == flows[th[u].key]
  <2>2. \/ f = None
        \/ /\ th[u].pc = "sweep" /\ th[u].back = "enforce"
           /\ [key |-> th[u].key, stamp |-> f.updated_at] \in th[u].todo
           /\ Expired(f)
    BY <2>1 DEF KeyFree
  <2>3. f' = f \/ f' = None
    <3>1. f' = flows'[th[u].key]
      BY <1>1
    <3> QED
      BY <2>1, <2>2, <3>1 DEF Spares
  <2>4. CASE f' = None
    BY <2>4 DEF KeyFree
  <2>5. CASE f' = f
    <3>1. Expired(f)' <=> Expired(f)
      BY <1>1, <2>5 DEF Expired
    <3> QED
      BY <1>1, <2>2, <2>5, <3>1 DEF KeyFree
  <2> QED
    BY <2>3, <2>4, <2>5
<1>5. Room(u)'
  <2> SUFFICES ASSUME Reserved(u) PROVE Room(u)'
    BY <1>1 DEF Room, Reserved, Removing
  <2>1. Live' \subseteq Live
    BY <1>3 DEF Spares, Live
  <2>2. Cardinality(Live') <= Cardinality(Live) /\ (Live' # Live => Cardinality(Live') < Cardinality(Live))
        /\ Cardinality(Live') \in Nat /\ Cardinality(Live) \in Nat
    BY <2>1, LiveShrinks
  <2> QED
    BY <1>1, <2>2, FlowAssumption DEF Room, CapacityRespected
<1> QED
  BY <1>2, <1>4, <1>5

\* A step that leaves the table alone keeps IInv if it keeps the invariant of its
\* own caller.
LEMMA LocalStep ==
    ASSUME IInv, NEW t \in Threads, UNCHANGED <<flows, now, last_id>>,
           DOMAIN th' = Threads, DOMAIN th'[t] = Fields,
           \A u \in Threads : u # t => th'[u] = th[u] /\ (insert_lock = u => insert_lock' = u),
           Live' = Live => CallerInv(t)'
    PROVE  IInv'
<1>1. Live' = Live
  BY DEF Live
<1>2. Shape' /\ CapacityRespected'
  BY <1>1 DEF IInv, Shape, CapacityRespected
<1>3. Spares(t)
  BY DEF Spares
<1>4. \A u \in Threads : CallerInv(u)'
  BY <1>1, <1>3, OthersInv
<1> QED
  BY <1>2, <1>4 DEF IInv

\* What collect_expired_keys lists is expired.
LEMMA ListedExpired ==
    Shape => \A x \in ExpiredEntries : x.stamp \in Nat /\ now - x.stamp >= Timeout
BY DEF ExpiredEntries, Expired, Live, Shape

-----------------------------------------------------------------------------
(* Steps that leave the flows alone. *)

\* maybe_cleanup at the start of an operation or under insert_lock.
LEMMA MaybeCleanupInv ==
    ASSUME IInv, NEW t \in Threads, NEW k \in Keys, NEW next, maybe_cleanup(t, k, next),
           \/ th[t].pc = "idle" /\ next \in {"lookup", "update", "remove"}
           \/ th[t].pc = "locked" /\ next = "relookup"
    PROVE  IInv'
<1> USE DEF IInv, CallerInv
<1>1. /\ UNCHANGED <<flows, now, last_id, insert_lock>>
      /\ \/ th' = [th EXCEPT ![t].pc = next, ![t].key = k]
         \/ th' = [th EXCEPT ![t].pc = "sweep", ![t].key = k, ![t].todo = ExpiredEntries, ![t].back = next]
  BY DEF maybe_cleanup, table, clock
<1>2. DOMAIN th' = Threads /\ DOMAIN th'[t] = Fields /\ \A u \in Threads : u # t => th'[u] = th[u]
  BY <1>1 DEF Shape, Fields
<1>3. Mutex(t)' /\ HasKey(t)' /\ Returns(t)'
  BY <1>1 DEF Shape, Fields, Mutex, HasKey, Returns, Holds, Creating, Reserved, Removing
<1>4. StampsExpired(t)' /\ KeyFree(t)'
  BY <1>1, ListedExpired DEF Shape, Fields, StampsExpired, KeyFree, Reserved, Removing, AnyStamp
<1>5. ASSUME Live' = Live PROVE Room(t)'
  BY <1>1, <1>5 DEF Shape, Fields, Room
<1> QED
  BY <1>1, <1>2, <1>3, <1>4, <1>5, LocalStep

\* An operation starts.
LEMMA CallInv ==
    ASSUME IInv, NEW t \in Threads, Call(t)
    PROVE  IInv'
<1>1. CASE \E k \in Keys : \E next \in {"lookup", "update", "remove"} : maybe_cleanup(t, k, next)
  BY <1>1, MaybeCleanupInv DEF Call, At
<1>2. CASE Goto(t, "clear") /\ UNCHANGED <<table, locks, stats, clock>>
  <2> USE <1>2 DEF IInv, CallerInv, Goto, table, locks, clock
  <2>1. UNCHANGED <<flows, now, last_id>> /\ DOMAIN th' = Threads /\ DOMAIN th'[t] = Fields
    BY DEF Shape, Fields
  <2>2. \A u \in Threads : u # t => th'[u] = th[u] /\ (insert_lock = u => insert_lock' = u)
    BY DEF Shape
  <2>3. Live' = Live => CallerInv(t)'
    BY <2>1 DEF Shape, Fields, Mutex, HasKey, Returns, StampsExpired, KeyFree, Room, Holds, Creating,
       Reserved, Removing
  <2> QED
    BY <2>1, <2>2, <2>3, LocalStep
<1> QED
  BY <1>1, <1>2 DEF Call

\* A sweep without the cleanup lock, and remove, start a removal.
LEMMA SweepInv ==
    ASSUME IInv, NEW t \in Threads, cleanup_expired_internal(t) \/ remove(t)
    PROVE  IInv'
<1> USE DEF IInv, CallerInv, cleanup_expired_internal, remove, At, StartRemoval, table, locks, clock
<1>1. UNCHANGED <<flows, now, last_id>> /\ DOMAIN th' = Threads /\ DOMAIN th'[t] = Fields
  BY DEF Shape, Fields
<1>2. \A u \in Threads : u # t => th'[u] = th[u] /\ (insert_lock = u => insert_lock' = u)
  BY DEF Shape
<1>3. Mutex(t)' /\ HasKey(t)' /\ Returns(t)'
  BY DEF Shape, Fields, Mutex, HasKey, Returns, Holds, Creating, Reserved, Removing
<1>4. StampsExpired(t)' /\ KeyFree(t)'
  BY ListedExpired, <1>1 DEF Shape, Fields, StampsExpired, KeyFree, Reserved, Removing
<1>5. ASSUME Live' = Live PROVE Room(t)'
  BY <1>1, <1>5 DEF Shape, Fields, Room, Returns, Removing
<1> QED
  BY <1>1, <1>2, <1>3, <1>4, <1>5, LocalStep

\* The first look of get_or_create: the caller returns, removes an expired flow, or
\* goes for the lock.
LEMMA LookupInv ==
    ASSUME IInv, NEW t \in Threads, Lookup(t, "lookup", "lock")
    PROVE  IInv'
<1> USE DEF IInv, CallerInv, Lookup, At, StartRemoval, Goto, IdleCaller, table, clock
<1>1. UNCHANGED <<flows, now, last_id>> /\ DOMAIN th' = Threads /\ DOMAIN th'[t] = Fields
  BY DEF Shape, Fields
<1>2. \A u \in Threads : u # t => th'[u] = th[u] /\ (insert_lock = u => insert_lock' = u)
  BY DEF Shape, Mutex, Holds
<1>3. Mutex(t)' /\ HasKey(t)' /\ Returns(t)'
  BY DEF Shape, Fields, Mutex, HasKey, Returns, Holds, Creating, Reserved, Removing
<1>4. StampsExpired(t)' /\ KeyFree(t)'
  BY <1>1 DEF Shape, Fields, StampsExpired, KeyFree, Reserved, Removing, Expired
<1>5. ASSUME Live' = Live PROVE Room(t)'
  BY <1>1, <1>5 DEF Shape, Fields, Room, Returns, Removing
<1> QED
  BY <1>1, <1>2, <1>3, <1>4, <1>5, LocalStep

\* The second look, under the lock: from here on the key is reserved.
LEMMA LookupAgainInv ==
    ASSUME IInv, NEW t \in Threads, LookupAgain(t)
    PROVE  IInv'
<1> USE DEF IInv, CallerInv, LookupAgain, Lookup, At, StartRemoval, Goto, IdleCaller, table, clock
<1>1. UNCHANGED <<flows, now, last_id>> /\ DOMAIN th' = Threads /\ DOMAIN th'[t] = Fields
  BY DEF Shape, Fields
<1>2. \A u \in Threads : u # t => th'[u] = th[u] /\ (insert_lock = u => insert_lock' = u)
  BY DEF Shape, Mutex, Holds
<1>3. Mutex(t)' /\ HasKey(t)' /\ Returns(t)'
  BY DEF Shape, Fields, Mutex, HasKey, Returns, Holds, Creating, Reserved, Removing
<1>4. StampsExpired(t)' /\ KeyFree(t)'
  BY <1>1 DEF Shape, Fields, StampsExpired, KeyFree, Reserved, Removing, Expired
<1>5. ASSUME Live' = Live PROVE Room(t)'
  BY <1>1, <1>5 DEF Shape, Fields, Room, Returns, Removing
<1> QED
  BY <1>1, <1>2, <1>3, <1>4, <1>5, LocalStep

\* The lock was free, so nobody else was inside.
LEMMA TakeInsertLockInv ==
    ASSUME IInv, NEW t \in Threads,
           TakeInsertLock(t, "lock", "locked") \/ TakeInsertLock(t, "clear", "clearing")
    PROVE  IInv'
<1> USE DEF IInv, CallerInv, TakeInsertLock, At, Goto, table, clock
<1>1. UNCHANGED <<flows, now, last_id>> /\ DOMAIN th' = Threads /\ DOMAIN th'[t] = Fields
  BY DEF Shape, Fields
<1>2. \A u \in Threads : u # t => th'[u] = th[u] /\ (insert_lock = u => insert_lock' = u)
  BY FlowAssumption DEF Shape
<1>3. Mutex(t)' /\ HasKey(t)' /\ Returns(t)'
  BY FlowAssumption DEF Shape, Fields, Mutex, HasKey, Returns, Holds, Creating, Reserved, Removing
<1>4. StampsExpired(t)' /\ KeyFree(t)'
  BY <1>1 DEF Shape, Fields, StampsExpired, KeyFree, Reserved, Removing
<1>5. ASSUME Live' = Live PROVE Room(t)'
  BY <1>1, <1>5 DEF Shape, Fields, Room, Returns, Removing
<1> QED
  BY <1>1, <1>2, <1>3, <1>4, <1>5, LocalStep

\* Under the capacity there is room for one more flow.
LEMMA EnforceInv ==
    ASSUME IInv, NEW t \in Threads, enforce_max_flows(t)
    PROVE  IInv'
<1> USE DEF IInv, CallerInv, enforce_max_flows, At, Goto, table, locks, clock
<1>1. UNCHANGED <<flows, now, last_id>> /\ DOMAIN th' = Threads /\ DOMAIN th'[t] = Fields
  BY DEF Shape, Fields
<1>2. \A u \in Threads : u # t => th'[u] = th[u] /\ (insert_lock = u => insert_lock' = u)
  BY DEF Shape
<1>3. Mutex(t)' /\ HasKey(t)' /\ Returns(t)'
  BY DEF Shape, Fields, Mutex, HasKey, Returns, Holds, Creating, Reserved, Removing
<1>4. StampsExpired(t)' /\ KeyFree(t)'
  BY <1>1 DEF Shape, Fields, StampsExpired, KeyFree, Reserved, Removing
<1>5. ASSUME Live' = Live PROVE Room(t)'
  BY LiveFinite, FlowAssumption, <1>1, <1>5 DEF Shape, Fields, Room, Returns, Removing, Full
<1> QED
  BY <1>1, <1>2, <1>3, <1>4, <1>5, LocalStep

\* The key of the oldest id is to be evicted.
LEMMA EvictKeyInv ==
    ASSUME IInv, NEW t \in Threads, EvictKey(t)
    PROVE  IInv'
<1> USE DEF IInv, CallerInv, EvictKey, At, StartRemoval, Goto, table, locks, clock
<1>1. UNCHANGED <<flows, now, last_id>> /\ DOMAIN th' = Threads /\ DOMAIN th'[t] = Fields
  BY DEF Shape, Fields
<1>2. \A u \in Threads : u # t => th'[u] = th[u] /\ (insert_lock = u => insert_lock' = u)
  BY DEF Shape
<1>3. Mutex(t)' /\ HasKey(t)' /\ Returns(t)'
  BY DEF Shape, Fields, Mutex, HasKey, Returns, Holds, Creating, Reserved, Removing
<1>4. StampsExpired(t)' /\ KeyFree(t)'
  BY <1>1 DEF Shape, Fields, StampsExpired, KeyFree, Reserved, Removing
<1>5. ASSUME Live' = Live PROVE Room(t)'
  BY <1>1, <1>5 DEF Shape, Fields, Room, Returns, Removing
<1> QED
  BY <1>1, <1>2, <1>3, <1>4, <1>5, LocalStep

\* The containers behind the flows are updated one after the other.
LEMMA BookkeepingInv ==
    ASSUME IInv, NEW t \in Threads, Index(t) \/ RecordOrder(t) \/ RecordRecent(t)
           \/ ClearIndex(t) \/ ClearRecent(t) \/ ClearOrder(t)
    PROVE  IInv'
<1> USE DEF IInv, CallerInv, Index, RecordOrder, RecordRecent, ClearIndex, ClearRecent, ClearOrder, At, Goto,
        locks, clock
<1>1. UNCHANGED <<flows, now, last_id>> /\ DOMAIN th' = Threads /\ DOMAIN th'[t] = Fields
  BY DEF Shape, Fields
<1>2. \A u \in Threads : u # t => th'[u] = th[u] /\ (insert_lock = u => insert_lock' = u)
  BY DEF Shape
<1>3. Mutex(t)' /\ HasKey(t)' /\ Returns(t)'
  BY DEF Shape, Fields, Mutex, HasKey, Returns, Holds, Creating, Reserved, Removing
<1>4. StampsExpired(t)' /\ KeyFree(t)'
  <2>1. th'[t].todo = th[t].todo /\ ~Reserved(t)'
    BY DEF Shape, Fields, Reserved, Removing
  <2> QED
    BY <1>1, <2>1 DEF StampsExpired, KeyFree
<1>5. ASSUME Live' = Live PROVE Room(t)'
  BY <1>1, <1>5 DEF Shape, Fields, Room, Returns, Removing
<1> QED
  BY <1>1, <1>2, <1>3, <1>4, <1>5, LocalStep

\* The end of a creation or a clear: the lock is released and nothing is reserved.
LEMMA ReleaseInv ==
    ASSUME IInv, NEW t \in Threads, Count(t) \/ ClearCount(t)
    PROVE  IInv'
<1> USE DEF IInv, CallerInv, Count, ClearCount, At, IdleCaller, table, clock
<1>1. UNCHANGED <<flows, now, last_id>> /\ DOMAIN th' = Threads /\ DOMAIN th'[t] = Fields
  BY DEF Shape, Fields
<1>2. \A u \in Threads : u # t => th'[u] = th[u] /\ (insert_lock = u => insert_lock' = u)
  BY DEF Shape, Mutex, Holds
<1>3. Mutex(t)' /\ HasKey(t)' /\ Returns(t)'
  BY DEF Shape, Fields, Mutex, HasKey, Returns, Holds, Creating, Reserved, Removing
<1>4. StampsExpired(t)' /\ KeyFree(t)'
  BY <1>1 DEF Shape, Fields, StampsExpired, KeyFree, Reserved, Removing
<1>5. ASSUME Live' = Live PROVE Room(t)'
  BY <1>1, <1>5 DEF Shape, Fields, Room, Returns, Removing
<1> QED
  BY <1>1, <1>2, <1>3, <1>4, <1>5, LocalStep

\* A removal takes the ids out of the index and the history.
LEMMA HistoryInv ==
    ASSUME IInv, NEW t \in Threads, Unindex(t) \/ Unorder(t) \/ Unrecent(t)
    PROVE  IInv'
<1> USE DEF IInv, CallerInv, Unindex, Unorder, Unrecent, At, Goto, locks, clock
<1>1. UNCHANGED <<flows, now, last_id>> /\ DOMAIN th' = Threads /\ DOMAIN th'[t] = Fields
  BY DEF Shape, Fields
<1>2. \A u \in Threads : u # t => th'[u] = th[u] /\ (insert_lock = u => insert_lock' = u)
  BY DEF Shape
<1>3. Mutex(t)' /\ HasKey(t)' /\ Returns(t)'
  BY DEF Shape, Fields, Mutex, HasKey, Returns, Holds, Creating, Reserved, Removing
<1>4. StampsExpired(t)' /\ KeyFree(t)'
  BY <1>1 DEF Shape, Fields, StampsExpired, KeyFree, Reserved, Removing
<1>5. ASSUME Live' = Live PROVE Room(t)'
  BY <1>1, <1>5 DEF Shape, Fields, Room, Returns, Removing
<1> QED
  BY <1>1, <1>2, <1>3, <1>4, <1>5, LocalStep

\* evict_oldest_flow without ids: any flow, and if there is none there is room.
LEMMA PopOldestInv ==
    ASSUME IInv, NEW t \in Threads, PopOldest(t)
    PROVE  IInv'
<1> USE DEF IInv, CallerInv
<1>1. /\ UNCHANGED <<flows, now, last_id, insert_lock>> /\ th[t].pc = "pop"
      /\ \/ th' = [th EXCEPT ![t].id = Head(flow_order), ![t].pc = "evict"]
         \/ Live = {} /\ th' = [th EXCEPT ![t].pc = "insert"]
         \/ \E k \in Live : th' = [th EXCEPT ![t].pc = "sweep", ![t].todo = {[key |-> k, stamp |-> AnyStamp]},
                                             ![t].back = "fallback", ![t].gone = {}]
  BY DEF PopOldest, At, Goto, StartRemoval, locks, clock
<1>2. DOMAIN th' = Threads /\ DOMAIN th'[t] = Fields /\ \A u \in Threads : u # t => th'[u] = th[u]
  BY <1>1 DEF Shape, Fields
<1>3. Reserved(t)' /\ th'[t].key = th[t].key
  <2>1. CASE Live = {} /\ th' = [th EXCEPT ![t].pc = "insert"]
    BY <2>1 DEF Shape, Fields, Reserved
  <2>2. CASE th' = [th EXCEPT ![t].id = Head(flow_order), ![t].pc = "evict"]
    BY <2>2 DEF Shape, Fields, Reserved
  <2>3. ASSUME NEW k \in Live,
               th' = [th EXCEPT ![t].pc = "sweep", ![t].todo = {[key |-> k, stamp |-> AnyStamp]},
                                ![t].back = "fallback", ![t].gone = {}]
        PROVE  Reserved(t)' /\ th'[t].key = th[t].key
    BY <2>3 DEF Shape, Fields, Reserved, Removing
  <2> QED
    BY <1>1, <2>1, <2>2, <2>3
<1>4. Mutex(t)' /\ HasKey(t)' /\ KeyFree(t)'
  BY <1>1, <1>3 DEF Mutex, HasKey, KeyFree, Holds, Creating, Reserved
<1>5. ASSUME Live' = Live PROVE Returns(t)' /\ StampsExpired(t)' /\ Room(t)'
  <2>1. CASE Live = {} /\ th' = [th EXCEPT ![t].pc = "insert"]
    BY <1>1, <1>5, <2>1, FS_EmptySet, FlowAssumption DEF Shape, Fields, Returns, StampsExpired, Room, Removing
  <2>2. CASE th' = [th EXCEPT ![t].id = Head(flow_order), ![t].pc = "evict"]
    BY <1>1, <2>2 DEF Shape, Fields, Returns, StampsExpired, Room, Removing
  <2>3. ASSUME NEW k \in Live,
               th' = [th EXCEPT ![t].pc = "sweep", ![t].todo = {[key |-> k, stamp |-> AnyStamp]},
                                ![t].back = "fallback", ![t].gone = {}]
        PROVE  Returns(t)' /\ StampsExpired(t)' /\ Room(t)'
    <3> DEFINE x == [key |-> k, stamp |-> AnyStamp]
    <3>1. x.key = k /\ x.stamp = AnyStamp
      OBVIOUS
    <3>2. th'[t].pc = "sweep" /\ th'[t].todo = {x} /\ th'[t].back = "fallback"
      BY <2>3 DEF Shape, Fields
    <3> HIDE DEF x
    <3> QED
      BY <1>5, <3>1, <3>2 DEF Returns, StampsExpired, Room, Removing, AnyStamp
  <2> QED
    BY <1>1, <2>1, <2>2, <2>3
<1> QED
  BY ZenonT(60), <1>1, <1>2, <1>4, <1>5, LocalStep

\* The end of a removal: the caller resumes, and one that goes on to insert has
\* a free key and room.
LEMMA EndRemovalInv ==
    ASSUME IInv, NEW t \in Threads, EndRemoval(t), UNCHANGED <<flows, now, last_id, insert_lock>>,
           th[t].pc = "uncount" \/ (th[t].pc = "sweep" /\ th[t].todo = {} /\ th[t].gone = {})
    PROVE  IInv'
<1> USE DEF IInv, CallerInv
<1>1. Resume(t) = IF th[t].back = "update" THEN (IF th[t].gone # {} THEN "idle" ELSE "update")
                  ELSE IF th[t].back = "evict" THEN (IF th[t].gone # {} THEN "enforce" ELSE "pop")
                  ELSE IF th[t].back = "fallback" THEN (IF th[t].gone # {} THEN "enforce" ELSE "insert")
                  ELSE th[t].back
  BY DEF Resume
<1>2. th' = [th EXCEPT ![t].pc = Resume(t), ![t].gone = {}, ![t].id = None, ![t].back = "idle",
                       ![t].key = IF Resume(t) = "idle" THEN None ELSE @]
  BY DEF EndRemoval
<1>3. DOMAIN th' = Threads /\ DOMAIN th'[t] = Fields /\ \A u \in Threads : u # t => th'[u] = th[u]
  BY <1>2 DEF Shape, Fields
<1>4. /\ th'[t].pc = Resume(t) /\ th'[t].back = "idle" /\ th'[t].todo = th[t].todo /\ th'[t].gone = {}
      /\ Resume(t) # "idle" => th'[t].key = th[t].key
  BY <1>2 DEF Shape, Fields
<1>5. Mutex(t)' /\ HasKey(t)' /\ Returns(t)'
  BY <1>1, <1>4 DEF Mutex, HasKey, Returns, Holds, Creating, Reserved, Removing
<1>6. StampsExpired(t)' /\ KeyFree(t)'
  BY <1>1, <1>4 DEF StampsExpired, KeyFree, Returns, Reserved, Removing
<1>7. ASSUME Live' = Live PROVE Room(t)'
  BY <1>1, <1>4, <1>7 DEF Room, Returns, Removing
<1> QED
  BY <1>3, <1>5, <1>6, <1>7, LocalStep

\* remove_expired_keys and remove_internal return, with or without having
\* removed something.
LEMMA RemovalDoneInv ==
    ASSUME IInv, NEW t \in Threads, RemovalDone(t) \/ Uncount(t)
    PROVE  IInv'
<1>1. CASE Uncount(t) \/ (RemovalDone(t) /\ th[t].gone = {})
  BY <1>1, EndRemovalInv DEF Uncount, RemovalDone, At, table, clock
<1>2. CASE RemovalDone(t) /\ th[t].gone # {}
  <2> USE <1>2 DEF IInv, CallerInv, RemovalDone, At, Goto, table, clock
  <2>1. UNCHANGED <<flows, now, last_id>> /\ DOMAIN th' = Threads /\ DOMAIN th'[t] = Fields
    BY DEF Shape, Fields
  <2>2. \A u \in Threads : u # t => th'[u] = th[u] /\ (insert_lock = u => insert_lock' = u)
    BY DEF Shape
  <2>3. Live' = Live => CallerInv(t)'
    BY <2>1 DEF Shape, Fields, Mutex, HasKey, Returns, StampsExpired, KeyFree, Room, Holds, Creating,
       Reserved, Removing
  <2> QED
    BY <2>1, <2>2, <2>3, LocalStep
<1> QED
  BY <1>1, <1>2

-----------------------------------------------------------------------------
(* Steps that change the flows. *)

\* A step that adds no flow keeps IInv if it keeps the invariant of its caller.
LEMMA ShrinkingStep ==
    ASSUME IInv, NEW t \in Threads, Shape', Spares(t), CallerInv(t)', Live' \subseteq Live
    PROVE  IInv'
<1>1. CapacityRespected'
  BY LiveShrinks, FlowAssumption DEF IInv, CapacityRespected
<1>2. \A u \in Threads : CallerInv(u)'
  BY OthersInv
<1> QED
  BY <1>1, <1>2 DEF IInv

\* get, contains and update: a flow that is refreshed was not expired.
LEMMA UpdateInv ==
    ASSUME IInv, NEW t \in Threads, update(t)
    PROVE  IInv'
<1> DEFINE f == flows[th[t].key]
<1> USE DEF IInv, CallerInv
<1>1. /\ th[t].pc = "update" /\ UNCHANGED <<insert_lock, now, last_id>>
      /\ \/ flows' = flows
         \/ f # None /\ ~Expired(f) /\ flows' = [flows EXCEPT ![th[t].key].updated_at = now]
      /\ \/ th' = [th EXCEPT ![t] = IdleCaller]
         \/ /\ Expired(f)
            /\ th' = [th EXCEPT ![t].pc = "sweep", ![t].todo = {[key |-> th[t].key, stamp |-> f.updated_at]},
                                ![t].back = "update", ![t].gone = {}]
  BY DEF update, At, StartRemoval, locks, clock
<1>2. Shape'
  BY <1>1 DEF Shape, Fields, IdleCaller
<1>3. Spares(t)
  BY <1>1 DEF Spares, Shape
<1>4. Live' \subseteq Live
  BY SMTT(30), <1>1 DEF Live, Shape
<1>5. CallerInv(t)'
  BY <1>1 DEF Shape, Fields, IdleCaller, Mutex, HasKey, Returns, StampsExpired, KeyFree, Room, Holds,
     Creating, Reserved, Removing, Expired, AnyStamp
<1> HIDE DEF IInv
<1> QED
  BY <1>2, <1>3, <1>4, <1>5, ShrinkingStep

\* The insert: the key was free, and there was room for one flow.
LEMMA InsertInv ==
    ASSUME IInv, NEW t \in Threads, Insert(t)
    PROVE  IInv'
<1> USE DEF IInv, CallerInv
<1> DEFINE k == th[t].key
<1>1. /\ th[t].pc = "insert" /\ UNCHANGED <<insert_lock, now>> /\ last_id' = last_id + 1
      /\ flows' = [flows EXCEPT ![k] = [id |-> last_id + 1, updated_at |-> now]]
      /\ th' = [th EXCEPT ![t].id = last_id + 1, ![t].pc = "index"]
  BY DEF Insert, At, locks
<1>2. k \in Keys /\ insert_lock = t /\ Cardinality(Live) < MaxFlows
  BY <1>1 DEF Mutex, HasKey, Room, Holds, Creating, Reserved
<1>3. Shape'
  BY <1>1, <1>2 DEF Shape, Fields
<1>4. CapacityRespected'
  <2>1. Live' \subseteq Live \cup {k}
    BY <1>1, <1>2 DEF Live, Shape
  <2>2. IsFiniteSet(Live) /\ Cardinality(Live) \in Nat
    BY LiveFinite
  <2>3. IsFiniteSet(Live \cup {k}) /\ Cardinality(Live \cup {k}) <= Cardinality(Live) + 1
    <3>1. /\ IsFiniteSet(Live \cup {k})
          /\ Cardinality(Live \cup {k}) = IF k \in Live THEN Cardinality(Live) ELSE Cardinality(Live) + 1
      BY <2>2, FS_AddElement
    <3> QED
      BY <2>2, <3>1
  <2>4. IsFiniteSet(Live') /\ Cardinality(Live') <= Cardinality(Live \cup {k})
    BY <2>1, <2>3, FS_Subset
  <2>5. Cardinality(Live') \in Nat /\ Cardinality(Live \cup {k}) \in Nat
    BY <2>3, <2>4, FS_CardinalityType
  <2> QED
    BY <1>2, <2>2, <2>3, <2>4, <2>5, FlowAssumption DEF CapacityRespected
<1>5. Spares(t)
  BY <1>1, <1>2 DEF Spares, Shape
<1>6. CallerInv(t)'
  BY <1>1 DEF Shape, Fields, Mutex, HasKey, Returns, StampsExpired, KeyFree, Room, Holds, Creating,
     Reserved, Removing
<1>7. \A u \in Threads : CallerInv(u)'
  BY <1>5, <1>6, OthersInv
<1> QED
  BY <1>3, <1>4, <1>7

\* remove_if: the flow on the list, if it is still that flow.
LEMMA RemoveFlowInv ==
    ASSUME IInv, NEW t \in Threads, RemoveFlow(t)
    PROVE  IInv'
<1> USE DEF IInv, CallerInv
<1>1. PICK x \in th[t].todo :
        \/ /\ RemoveIf(x) /\ flows' = [flows EXCEPT ![x.key] = None]
           /\ th' = [th EXCEPT ![t].todo = @ \ {x}, ![t].gone = @ \cup {flows[x.key].id},
                               ![t].id = flows[x.key].id, ![t].pc = "unindex"]
        \/ /\ ~RemoveIf(x) /\ flows' = flows
           /\ th' = [th EXCEPT ![t].todo = @ \ {x}]
  BY DEF RemoveFlow
<1>2. th[t].pc = "sweep" /\ UNCHANGED <<insert_lock, now, last_id>>
  BY DEF RemoveFlow, At, locks, clock
<1>3. Shape' /\ Live' \subseteq Live
  BY <1>1, <1>2 DEF Shape, Fields, Live
<1>4. Spares(t)
  BY <1>1, <1>2 DEF Spares, Shape
<1>5. Mutex(t)' /\ HasKey(t)' /\ StampsExpired(t)' /\ Returns(t)'
  BY <1>1, <1>2 DEF Shape, Fields, Mutex, HasKey, Returns, StampsExpired, Holds, Creating, Reserved, Removing
<1>6. KeyFree(t)'
  <2> SUFFICES ASSUME Reserved(t) PROVE KeyFree(t)'
    BY <1>1, <1>2 DEF KeyFree, Reserved, Shape, Fields, Removing
  <2>1. th[t].key \in Keys
    BY DEF HasKey, Creating
  <2>2. CASE RemoveIf(x)
    BY <1>1, <1>2, <2>1, <2>2 DEF KeyFree, RemoveIf, Shape, Fields, Reserved, Expired
  <2>3. CASE ~RemoveIf(x)
    BY <1>1, <1>2, <2>1, <2>3 DEF KeyFree, RemoveIf, Shape, Fields, Reserved, Expired
  <2> QED
    BY <2>2, <2>3
<1>7. Room(t)'
  <2>1. CASE RemoveIf(x)
    BY <1>1, <1>2, <2>1 DEF Room, Shape, Fields
  <2>2. CASE ~RemoveIf(x)
    <3>1. Live' = Live /\ (x.stamp = AnyStamp => x.key \notin Live)
      BY <1>1, <2>2 DEF RemoveIf, Live
    <3> QED
      BY <1>1, <1>2, <2>2, <3>1 DEF Room, Shape, Fields
  <2> QED
    BY <2>1, <2>2
<1> HIDE DEF IInv
<1> QED
  BY SMTT(30), <1>3, <1>4, <1>5, <1>6, <1>7, ShrinkingStep

\* clear removes the flows one by one.
LEMMA ClearKeysInv ==
    ASSUME IInv, NEW t \in Threads, ClearKeys(t)
    PROVE  IInv'
<1> USE DEF IInv, CallerInv
<1>1. /\ th[t].pc = "clearing" /\ UNCHANGED <<insert_lock, now, last_id>>
      /\ \/ \E k \in Live : /\ flows' = [flows EXCEPT ![k] = None]
                            /\ th' = [th EXCEPT ![t].gone = @ \cup {flows[k].id}]
         \/ flows' = flows /\ th' = [th EXCEPT ![t].pc = "clear_index"]
  BY DEF ClearKeys, At, Goto, locks, clock
<1>2. Shape' /\ Live' \subseteq Live
  BY <1>1 DEF Shape, Fields, Live
<1>3. Spares(t)
  BY <1>1 DEF Spares, Shape
<1>4. th'[t].pc \in {"clearing", "clear_index"} /\ th'[t].todo = th[t].todo /\ th'[t].back = th[t].back
  BY <1>1 DEF Shape, Fields
<1>5. CallerInv(t)'
  BY <1>1, <1>4 DEF Mutex, HasKey, Returns, StampsExpired, KeyFree, Room, Holds, Creating,
     Reserved, Removing
<1> HIDE DEF IInv
<1> QED
  BY <1>2, <1>3, <1>5, ShrinkingStep

\* Time passes: what is expired stays expired.
LEMMA TickInv ==
    ASSUME IInv, Tick
    PROVE  IInv'
<1> USE DEF IInv, CallerInv, Tick, table, locks
<1>1. Live' = Live
  BY DEF Live
<1>2. Shape' /\ CapacityRespected'
  BY <1>1 DEF Shape, CapacityRespected
<1>3. ASSUME NEW t \in Threads PROVE CallerInv(t)'
  <2>1. Mutex(t)' /\ HasKey(t)' /\ Returns(t)' /\ Room(t)'
    BY <1>1 DEF Mutex, HasKey, Returns, Room, Holds, Creating, Reserved
  <2>2. StampsExpired(t)'
    BY FlowAssumption DEF StampsExpired, Shape, AnyStamp
  <2>3. KeyFree(t)'
    BY FlowAssumption DEF KeyFree, Reserved, Expired, Shape, HasKey, Creating
  <2> QED
    BY <2>1, <2>2, <2>3
<1> QED
  BY <1>2, <1>3

-----------------------------------------------------------------------------
\* The table starts empty.
LEMMA InitInv == Init => IInv
<1> SUFFICES ASSUME Init PROVE IInv
  OBVIOUS
<1>1. Shape
  BY DEF Init, Shape, Fields, IdleCaller
<1>2. CapacityRespected
  <2>1. Live = {}
    BY DEF Init, Live
  <2> QED
    BY <2>1, FS_EmptySet, FlowAssumption DEF CapacityRespected
<1>3. \A t \in Threads : CallerInv(t)
  BY DEF Init, IdleCaller, CallerInv, Mutex, HasKey, Returns, StampsExpired, KeyFree, Room, Holds,
     Creating, Reserved, Removing
<1> QED
  BY <1>1, <1>2, <1>3 DEF IInv

\* Every step keeps the inductive invariant.
LEMMA StepInv == IInv /\ [Next]_vars => IInv'
<1> SUFFICES ASSUME IInv, [Next]_vars PROVE IInv'
  OBVIOUS
<1>1. CASE UNCHANGED vars
  <2>1. Live' = Live
    BY <1>1 DEF vars, Live
  <2> QED
    BY <1>1, <2>1 DEF vars, IInv, Shape, CapacityRespected, CallerInv, Mutex, HasKey, Returns,
       StampsExpired, KeyFree, Room, Holds, Creating, Reserved, Expired
<1>2. CASE Tick
  BY <1>2, TickInv
<1>3. ASSUME NEW t \in Threads, Call(t) \/ cleanup_expired_internal(t) \/ Step(t)
      PROVE  IInv'
  <2>1. CASE get_or_create(t)
    <3>1. CASE At(t, "locked") /\ maybe_cleanup(t, th[t].key, "relookup")
      <4>1. th[t].key \in Keys
        BY <3>1 DEF At, IInv, CallerInv, HasKey, Creating
      <4> QED
        BY <3>1, <4>1, MaybeCleanupInv DEF At
    <3> QED
      BY <2>1, <3>1, LookupInv, TakeInsertLockInv, LookupAgainInv, EnforceInv, PopOldestInv,
         EvictKeyInv, InsertInv, BookkeepingInv, ReleaseInv DEF get_or_create
  <2>2. CASE update(t) \/ remove(t) \/ cleanup_expired_internal(t) \/ Call(t)
    BY <2>2, UpdateInv, SweepInv, CallInv
  <2>3. CASE clear(t)
    BY <2>3, TakeInsertLockInv, ClearKeysInv, BookkeepingInv, ReleaseInv DEF clear
  <2>4. CASE Removal(t)
    BY <2>4, RemoveFlowInv, HistoryInv, RemovalDoneInv DEF Removal
  <2> QED
    BY <1>3, <2>1, <2>2, <2>3, <2>4 DEF Step
<1> QED
  BY <1>1, <1>2, <1>3 DEF Next

\* The invariant holds throughout.
THEOREM Invariance == Spec => []IInv
BY InitInv, StepInv, PTL DEF Spec

\* get_or_create never lets the table grow past max_flows, whatever lookups,
\* removals, sweeps, evictions and clears interleave with it.
THEOREM Capacity == Spec => []CapacityRespected
<1>1. IInv => CapacityRespected
  BY DEF IInv
<1> QED
  BY <1>1, Invariance, PTL

\* Only an insert puts a flow under a key, and then the key was free.
LEMMA StepNoOverwrite ==
    ASSUME IInv, [Next]_vars, NEW k \in Keys, flows[k] # None, flows'[k] # None
    PROVE  flows'[k].id = flows[k].id
<1> USE DEF IInv, CallerInv
<1>1. CASE flows' = flows
  BY <1>1
<1>2. ASSUME NEW t \in Threads, update(t) PROVE flows'[k].id = flows[k].id
  BY <1>2 DEF update, Shape
<1>3. ASSUME NEW t \in Threads, Insert(t) PROVE flows'[k].id = flows[k].id
  <2>1. flows[th[t].key] = None /\ th[t].key \in Keys
    BY <1>3 DEF Insert, At, KeyFree, HasKey, Creating, Reserved
  <2> QED
    BY <1>3, <2>1 DEF Insert, Shape
<1>4. ASSUME NEW t \in Threads, RemoveFlow(t) \/ ClearKeys(t) PROVE flows'[k].id = flows[k].id
  BY ZenonT(60), <1>4 DEF RemoveFlow, ClearKeys, Shape, Live
<1>5. ASSUME NEW t \in Threads, Call(t) \/ cleanup_expired_internal(t)
      PROVE  flows' = flows
  BY <1>5 DEF Call, maybe_cleanup, cleanup_expired_internal, table
<1>6. ASSUME NEW t \in Threads, get_or_create(t)
      PROVE  Insert(t) \/ flows' = flows
  BY <1>6 DEF get_or_create, Lookup, LookupAgain, TakeInsertLock, maybe_cleanup, enforce_max_flows,
     PopOldest, EvictKey, Index, RecordOrder, RecordRecent, Count, table
<1>7. ASSUME NEW t \in Threads, remove(t) \/ clear(t) \/ Removal(t)
      PROVE  RemoveFlow(t) \/ ClearKeys(t) \/ flows' = flows
  BY <1>7 DEF remove, clear, Removal, TakeInsertLock, ClearIndex, ClearRecent, ClearOrder, ClearCount,
     Unindex, RemovalDone, Unorder, Unrecent, Uncount, table
<1>8. Tick \/ UNCHANGED vars => flows' = flows
  BY DEF Tick, vars, table
<1> HIDE DEF IInv, CallerInv
<1> QED
  BY <1>1, <1>2, <1>3, <1>4, <1>5, <1>6, <1>7, <1>8 DEF Next, Step

\* Two creations of the same key never both insert: a flow that is in the table
\* is not replaced by another, so no connection loses its flow to a racing one.
THEOREM FlowsAreNotReplaced == Spec => NoOverwrite
<1>1. ASSUME IInv, [Next]_vars
      PROVE  [\A k \in Keys : flows[k] # None /\ flows'[k] # None => flows'[k].id = flows[k].id]_vars
  BY <1>1, StepNoOverwrite
<1> QED
  BY <1>1, Invariance, PTL DEF Spec, NoOverwrite

\* A step of u changes what u is doing and nobody else.
LEMMA OnlyOwnCaller ==
    ASSUME Shape, NEW t \in Threads, NEW u \in Threads, t # u,
           Call(u) \/ cleanup_expired_internal(u) \/ Step(u)
    PROVE  th'[t] = th[t]
<1> USE DEF Shape, Goto, StartRemoval
<1>1. CASE Call(u) \/ cleanup_expired_internal(u) \/ update(u) \/ remove(u)
  BY <1>1 DEF Call, maybe_cleanup, cleanup_expired_internal, update, remove
<1>2. CASE get_or_create(u)
  <2>1. CASE Lookup(u, "lookup", "lock") \/ LookupAgain(u) \/ TakeInsertLock(u, "lock", "locked")
             \/ maybe_cleanup(u, th[u].key, "relookup") \/ enforce_max_flows(u)
    BY <2>1 DEF Lookup, LookupAgain, TakeInsertLock, maybe_cleanup, enforce_max_flows
  <2>2. CASE PopOldest(u) \/ EvictKey(u)
    BY ZenonT(60), <2>2 DEF PopOldest, EvictKey
  <2>3. CASE Insert(u) \/ Index(u) \/ RecordOrder(u) \/ RecordRecent(u) \/ Count(u)
    BY <2>3 DEF Insert, Index, RecordOrder, RecordRecent, Count
  <2> QED
    BY <1>2, <2>1, <2>2, <2>3 DEF get_or_create
<1>3. CASE clear(u)
  BY <1>3 DEF clear, TakeInsertLock, ClearKeys, ClearIndex, ClearRecent, ClearOrder, ClearCount
<1>4. CASE Removal(u)
  BY <1>4 DEF Removal, RemoveFlow, Unindex, RemovalDone, EndRemoval, Unorder, Unrecent, Uncount
<1> QED
  BY SMTT(30), <1>1, <1>2, <1>3, <1>4 DEF Step

\* The step that takes a caller from its list to the index is a removal.
LEMMA SweepRemoves ==
    ASSUME IInv, [Next]_vars, NEW t \in Threads, At(t, "sweep"), th'[t].pc = "unindex"
    PROVE  RemoveFlow(t) \/ flows' = flows
<1>1. CASE Tick \/ UNCHANGED vars
  BY <1>1 DEF Tick, vars, table
<1>2. ASSUME NEW u \in Threads, Call(u) \/ cleanup_expired_internal(u) \/ Step(u)
      PROVE  RemoveFlow(t) \/ flows' = flows
  <2>1. u = t
    BY <1>2, OnlyOwnCaller DEF IInv, At
  <2>2. ~get_or_create(t)
    BY DEF At, get_or_create, Lookup, LookupAgain, TakeInsertLock, enforce_max_flows, PopOldest, EvictKey,
       Insert, Index, RecordOrder, RecordRecent, Count
  <2>3. ~Call(t) /\ ~cleanup_expired_internal(t) /\ ~update(t) /\ ~remove(t) /\ ~clear(t)
    BY DEF At, Call, cleanup_expired_internal, update, remove, clear, TakeInsertLock, ClearKeys,
       ClearIndex, ClearRecent, ClearOrder, ClearCount
  <2>4. Removal(t)
    BY <1>2, <2>1, <2>2, <2>3 DEF Step
  <2> QED
    BY <2>4 DEF Removal, Unindex, RemovalDone, Unorder, Unrecent, Uncount, table
<1> QED
  BY <1>1, <1>2 DEF Next

\* An expiry sweep never takes a flow that was refreshed or created anew after
\* the sweep listed its key: remove_if compares updated_at with the list, and
\* what is on the list stays expired.
THEOREM SweepsAreSafe == Spec => SweepSparesLive
<1>1. ASSUME IInv, [Next]_vars, NEW t \in Threads, NEW k \in Keys,
             At(t, "sweep"), th'[t].pc = "unindex", flows[k] # None, flows'[k] = None,
             \A x \in th[t].todo : x.stamp # AnyStamp
      PROVE  Expired(flows[k])
  <2>1. RemoveFlow(t)
    BY <1>1, SweepRemoves
  <2>2. PICK x \in th[t].todo : RemoveIf(x) /\ flows' = [flows EXCEPT ![x.key] = None]
    BY <1>1, <2>1 DEF RemoveFlow
  <2>3. x.key = k
    BY <1>1, <2>2 DEF IInv, Shape
  <2>4. flows[k].updated_at = x.stamp /\ now - x.stamp >= Timeout
    BY <1>1, <2>2, <2>3 DEF RemoveIf, IInv, CallerInv, StampsExpired
  <2> QED
    BY <2>4 DEF Expired
<1>2. ASSUME IInv, [Next]_vars
      PROVE  [\A t \in Threads, k \in Keys :
                /\ At(t, "sweep") /\ th'[t].pc = "unindex"
                /\ flows[k] # None /\ flows'[k] = None
                /\ \A x \in th[t].todo : x.stamp # AnyStamp
                => Expired(flows[k])]_vars
  BY <1>1, <1>2
<1> QED
  BY <1>2, Invariance, PTL DEF Spec, SweepSparesLive

-----------------------------------------------------------------------------
(* The other containers and the statistics.                                *)
(*                                                                         *)
(* IndexesAgree speaks of the states in which nobody is between two        *)
(* containers.  TableInv says what each caller still owes in the states    *)
(* between: a flow that was inserted and is not yet indexed, ordered or    *)
(* counted, a flow that was removed and is still counted, an id that was   *)
(* popped from the eviction order and whose flow is not yet removed.       *)

Uncounted == {t \in Threads : th[t].pc \in {"index", "order", "recent", "count"}}
Clearing  == {"clearing", "clear_index", "clear_recent", "clear_order", "clear_count"}
Ahead     == {t \in Threads : Creating(t)}
Gone      == UNION {th[t].gone : t \in Threads}

TableTypes ==
    /\ flows \in [Keys -> [id : Ids, updated_at : 0..MaxTime] \cup {None}]
    /\ flow_index \in [Ids -> Keys \cup {None}]
    /\ flow_order \in Seq(Ids) /\ recent_flows \in Seq(Ids) /\ Len(recent_flows) <= RecentLimit
    /\ insert_lock \in Threads \cup {None} /\ cleanup_lock \in Threads \cup {None}
    /\ created \in Nat /\ closed \in Nat /\ active \in 0..MaxFlows
    /\ now \in 0..MaxTime /\ last_id \in 0..MaxIds
    /\ th \in [Threads -> Caller]

\* What a caller knows of the flow it is inserting, removing or evicting.
Entry(t) ==
    /\ th[t].gone # {} => th[t].pc \in Removing \cup Clearing
    /\ th[t].pc = "unindex" => th[t].id \in th[t].gone
    /\ th[t].pc \in {"index", "order", "recent"} => th[t].id \in 1..last_id
    /\ th[t].pc = "evict" => th[t].id \in Ids
    /\ th[t].pc \in {"index", "order"} => th[t].id \notin SeqIds(flow_order)
    /\ th[t].pc = "index" => \A k \in Live : flows[k].id = th[t].id => k = th[t].key
    /\ th[t].pc \in Clearing \ {"clearing"} => Live = {}
    /\ th[t].pc = "remove" \/ (th[t].pc \in Removing /\ th[t].back = "remove") => th[t].key \in Keys

\* An id is live, removed by one caller, or closed.
Distinct ==
    /\ \A j, k \in Live : flows[j].id = flows[k].id => j = k
    /\ \A k \in Live : flows[k].id \in 1..last_id
    /\ \A t \in Threads : th[t].gone \subseteq 1..last_id /\ \A k \in Live : flows[k].id \notin th[t].gone
    /\ \A t, u \in Threads : t # u => th[t].gone \cap th[u].gone = {}

Counters ==
    /\ last_id + Cardinality(Ahead) <= MaxIds
    /\ created + Cardinality(Uncounted) = last_id
    /\ closed + Cardinality(Live) + Cardinality(Gone) = last_id
    /\ active = Cardinality(Live) \/ (\E t \in Threads : th[t].gone # {} \/ t \in Uncounted \/ th[t].pc \in Clearing)

\* t took the id of k's flow out of the eviction order to evict it.
Popped(t, k) ==
    /\ th[t].id = flows[k].id
    /\ \/ th[t].pc = "evict"
       \/ th[t].pc = "sweep" /\ th[t].back = "evict" /\ th[t].todo = {[key |-> k, stamp |-> AnyStamp]}

Indexed(k) ==
    flow_index[flows[k].id] = k \/ (\E t \in Threads : th[t].pc = "index" /\ th[t].id = flows[k].id)
Ordered(k) ==
    \/ flows[k].id \in SeqIds(flow_order)
    \/ \E t \in Threads : (th[t].pc \in {"index", "order"} /\ th[t].id = flows[k].id) \/ Popped(t, k)

Once(s) == \A i, j \in 1..Len(s) : s[i] = s[j] => i = j

Reach ==
    /\ Once(flow_order) /\ SeqIds(flow_order) \subseteq 1..last_id
    /\ \A k \in Live : Indexed(k) /\ Ordered(k)

TableInv == TableTypes /\ (\A t \in Threads : Entry(t)) /\ Distinct /\ Counters /\ Reach

-----------------------------------------------------------------------------
(* Sequences of ids. *)

\* Every set of natural numbers has a least element: induction by the least
\* counterexample.
LEMMA LeastNatural ==
    ASSUME NEW T, T \subseteq Nat, T # {}
    PROVE  \E n \in T : \A m \in T : n <= m
<1>1. PICK R : R = OpToRel(<, Nat)
  OBVIOUS
<1>2. PICK x \in T : \A y \in T : ~ (<<y, x>> \in R)
  BY <1>1, WFMin, NatLessThanWellFounded
<1>3. R = {ss \in Nat \X Nat : ss[1] < ss[2]}
  BY <1>1, Zenon DEF OpToRel
<1>4. \A y \in T : ~(y < x) /\ y \in Nat /\ x \in Nat
  <2>1. \A v, w \in Nat : <<w, v>> \in R <=> w < v
    BY <1>3
  <2> QED
    BY <1>2, <2>1
<1> QED
  BY <1>4

\* f filters the first n elements of s.
Filters(f, s, ids, n) ==
    /\ f = [i \in 0..n |-> f[i]] /\ f[0] = <<>>
    /\ \A i \in 1..n : f[i] = IF s[i] \in ids THEN f[i - 1] ELSE Append(f[i - 1], s[i])

LEMMA FilterExists ==
    ASSUME NEW s, NEW ids, NEW len \in Nat
    PROVE  \E f : Filters(f, s, ids, len)
<1> DEFINE T == {n \in Nat : ~ \E f : Filters(f, s, ids, n)}
<1>1. SUFFICES ASSUME T # {} PROVE FALSE
  OBVIOUS
<1>2. PICK n \in T : \A m \in T : n <= m
  BY <1>1, LeastNatural
<1>3. n # 0
  <2>1. Filters([i \in 0..0 |-> <<>>], s, ids, 0)
    BY DEF Filters
  <2> QED
    BY <1>2, <2>1
<1>4. n - 1 \in Nat /\ n - 1 \notin T
  BY <1>2, <1>3
<1>5. PICK g : Filters(g, s, ids, n - 1)
  BY <1>4
<1> DEFINE last == IF s[n] \in ids THEN g[n - 1] ELSE Append(g[n - 1], s[n])
           f == [i \in 0..n |-> IF i = n THEN last ELSE g[i]]
<1>6. Filters(f, s, ids, n)
  <2>1. n \in Nat \ {0}
    BY <1>2, <1>3
  <2>2. f = [i \in 0..n |-> f[i]] /\ f[0] = <<>>
    BY <1>5, <2>1 DEF Filters
  <2>3. ASSUME NEW i \in 1..n PROVE f[i] = IF s[i] \in ids THEN f[i - 1] ELSE Append(f[i - 1], s[i])
    <3>1. f[i - 1] = g[i - 1]
      BY <2>1
    <3>2. CASE i = n
      BY <3>1, <3>2, <2>1
    <3>3. CASE i # n
      <4>1. i \in 1..(n - 1) /\ f[i] = g[i]
        BY <2>1, <3>3
      <4> QED
        BY <1>5, <3>1, <4>1 DEF Filters
    <3> QED
      BY <3>2, <3>3
  <2> HIDE DEF f
  <2> QED
    BY <2>2, <2>3 DEF Filters
<1> QED
  BY <1>2, <1>6

\* retain keeps exactly the other ids, each as often as before.
LEMMA WithoutFacts ==
    ASSUME NEW S, NEW s \in Seq(S), NEW ids
    PROVE  /\ Without(s, ids) \in Seq(S)
           /\ Len(Without(s, ids)) <= Len(s)
           /\ SeqIds(Without(s, ids)) = SeqIds(s) \ ids
           /\ Once(s) => Once(Without(s, ids))
<1> DEFINE Body(f) == f = [n \in 0..Len(s) |-> IF n = 0 THEN <<>>
                                 ELSE IF s[n] \in ids THEN f[n - 1] ELSE Append(f[n - 1], s[n])]
           kept == CHOOSE f : Body(f)
<1>1. Len(s) \in Nat /\ DOMAIN s = 1..Len(s) /\ \A i \in 1..Len(s) : s[i] \in S
  BY LenProperties, ElementOfSeq
<1>2. Without(s, ids) = kept[Len(s)]
  BY DEF Without
<1>3. Filters(kept, s, ids, Len(s))
  <2>1. PICK f : Filters(f, s, ids, Len(s))
    BY <1>1, FilterExists
  <2>2. Body(f)
    <3> DEFINE g == [n \in 0..Len(s) |-> IF n = 0 THEN <<>>
                                          ELSE IF s[n] \in ids THEN f[n - 1] ELSE Append(f[n - 1], s[n])]
    <3>1. \A n \in 0..Len(s) : f[n] = g[n]
      <4> SUFFICES ASSUME NEW n \in 0..Len(s) PROVE f[n] = g[n]
        OBVIOUS
      <4>1. n = 0 \/ n \in 1..Len(s)
        BY <1>1
      <4> QED
        BY ZenonT(60), <2>1, <4>1 DEF Filters
    <3>2. f = [n \in 0..Len(s) |-> f[n]]
      BY <2>1 DEF Filters
    <3> QED
      BY <3>1, <3>2
  <2>3. Body(kept)
    BY <2>2
  <2>4. kept = [n \in 0..Len(s) |-> IF n = 0 THEN <<>>
                                    ELSE IF s[n] \in ids THEN kept[n - 1] ELSE Append(kept[n - 1], s[n])]
    BY <2>3
  <2> HIDE DEF kept
  <2>5. kept = [n \in 0..Len(s) |-> kept[n]]
    BY <2>4
  <2>6. kept[0] = <<>>
    BY <1>1, <2>4
  <2>7. ASSUME NEW i \in 1..Len(s) PROVE kept[i] = IF s[i] \in ids THEN kept[i - 1] ELSE Append(kept[i - 1], s[i])
    <3>1. i \in 0..Len(s) /\ i # 0
      BY <1>1
    <3> QED
      BY <2>4, <3>1
  <2> QED
    BY <2>5, <2>6, <2>7 DEF Filters
<1> HIDE DEF kept
<1> DEFINE P(n) == /\ kept[n] \in Seq(S) /\ Len(kept[n]) <= n
                   /\ \A x : x \in SeqIds(kept[n]) <=> x \notin ids /\ \E i \in 1..n : s[i] = x
                   /\ Once(s) => Once(kept[n])
           T == {n \in 0..Len(s) : ~P(n)}
<1>4. P(0)
  <2>1. kept[0] = <<>> /\ <<>> \in Seq(S) /\ Len(<<>>) = 0
    BY <1>3, EmptySeq DEF Filters
  <2>2. \A i : i \notin 1..0
    OBVIOUS
  <2>3. SeqIds(<<>>) = {} /\ Once(<<>>)
    BY <2>1, <2>2 DEF SeqIds, Once
  <2> QED
    BY <2>1, <2>2, <2>3
<1>5. ASSUME NEW n \in 1..Len(s), P(n - 1) PROVE P(n)
  <2>1. n - 1 \in Nat /\ n \in Nat
    BY <1>1
  <2>2. CASE s[n] \in ids
    <3>1. kept[n] = kept[n - 1]
      BY <1>3, <2>2 DEF Filters
    <3>2. \A i : i \in 1..n <=> i \in 1..(n - 1) \/ i = n
      BY <2>1
    <3>3. Len(kept[n - 1]) \in Nat
      BY <1>5, LenProperties
    <3> QED
      BY <1>5, <2>1, <2>2, <3>1, <3>2, <3>3
  <2>3. CASE s[n] \notin ids
    <3>1. PICK r : r = kept[n - 1]
      OBVIOUS
    <3>2. PICK w : w = Append(r, s[n]) /\ w = kept[n]
      BY <1>3, <2>3, <3>1 DEF Filters
    <3>3. /\ r \in Seq(S) /\ Len(r) \in Nat /\ s[n] \in S
      BY <1>1, <1>5, <3>1, LenProperties
    <3>4. /\ w \in Seq(S) /\ Len(w) = Len(r) + 1 /\ w[Len(r) + 1] = s[n]
          /\ \A i \in 1..Len(r) : w[i] = r[i]
      <4>1. /\ Append(r, s[n]) \in Seq(S) /\ Len(Append(r, s[n])) = Len(r) + 1
            /\ \A i \in 1..Len(r) : Append(r, s[n])[i] = r[i]
            /\ Append(r, s[n])[Len(r) + 1] = s[n]
        BY <3>3, AppendProperties
      <4> QED
        BY <3>2, <4>1
    <3>5. SeqIds(w) = SeqIds(r) \cup {s[n]}
      <4>1. \A i : i \in 1..Len(w) <=> i \in 1..Len(r) \/ i = Len(r) + 1
        BY <3>3, <3>4
      <4> QED
        BY <3>4, <4>1 DEF SeqIds
    <3>6. \A x : x \in SeqIds(w) <=> x \notin ids /\ \E i \in 1..n : s[i] = x
      <4>1. \A i : i \in 1..n <=> i \in 1..(n - 1) \/ i = n
        BY <2>1
      <4> QED
        BY <1>5, <2>3, <3>1, <3>5, <4>1
    <3>7. ASSUME Once(s) PROVE Once(w)
      <4>1. Once(r)
        BY <1>5, <3>1, <3>7
      <4>2. \A i \in 1..Len(r) : r[i] # s[n]
        <5> SUFFICES ASSUME NEW i \in 1..Len(r), r[i] = s[n] PROVE FALSE
          OBVIOUS
        <5>1. s[n] \in SeqIds(r)
          BY DEF SeqIds
        <5>2. PICK j \in 1..(n - 1) : s[j] = s[n]
          BY <1>5, <3>1, <5>1
        <5> QED
          BY <1>1, <2>1, <3>7, <5>2 DEF Once
      <4>3. ASSUME NEW i \in 1..Len(w), NEW j \in 1..Len(w), w[i] = w[j] PROVE i = j
        BY SMTT(30), <3>3, <3>4, <4>1, <4>2, <4>3 DEF Once
      <4> QED
        BY <4>3 DEF Once
    <3>8. Len(r) <= n - 1
      BY <1>5, <3>1
    <3> QED
      BY <2>1, <3>2, <3>3, <3>4, <3>6, <3>7, <3>8
  <2> QED
    BY <2>2, <2>3
<1>6. T = {}
  <2> SUFFICES ASSUME T # {} PROVE FALSE
    OBVIOUS
  <2>1. PICK n \in T : \A m \in T : n <= m
    <3>1. T \subseteq Nat
      OBVIOUS
    <3> HIDE DEF T
    <3> QED
      BY <3>1, LeastNatural
  <2>2. n \in 0..Len(s) /\ ~P(n)
    OBVIOUS
  <2>3. n \in 1..Len(s) /\ n - 1 \in 0..Len(s)
    <3> HIDE DEF P
    <3> QED
      BY <1>1, <1>4, <2>2
  <2>4. P(n - 1)
    <3> HIDE DEF P
    <3> QED
      BY <1>1, <2>1, <2>3
  <2> HIDE DEF P, T
  <2> QED
    BY <1>5, <2>2, <2>3, <2>4
<1>7. P(Len(s))
  <2> HIDE DEF P
  <2> QED
    BY <1>1, <1>6
<1>8. SeqIds(kept[Len(s)]) = SeqIds(s) \ ids
  <2>1. \A x : x \in SeqIds(s) <=> \E i \in 1..Len(s) : s[i] = x
    BY DEF SeqIds
  <2> QED
    BY <1>7, <2>1
<1> QED
  BY <1>2, <1>7, <1>8

-----------------------------------------------------------------------------
(* Types. *)

\* The fields of a caller that a step may set.
LEMMA SetCaller ==
    ASSUME th \in [Threads -> Caller], NEW t \in Threads
    PROVE  /\ \A pc \in Labels : [th EXCEPT ![t].pc = pc] \in [Threads -> Caller]
           /\ [th EXCEPT ![t] = IdleCaller] \in [Threads -> Caller]
           /\ \A todo \in SUBSET [key : Keys, stamp : 0..AnyStamp] : [th EXCEPT ![t].todo = todo] \in [Threads -> Caller]
           /\ \A gone \in SUBSET Ids : [th EXCEPT ![t].gone = gone] \in [Threads -> Caller]
           /\ \A pc \in Labels, id \in Ids : [th EXCEPT ![t].id = id, ![t].pc = pc] \in [Threads -> Caller]
           /\ \A pc \in Labels, key \in Keys : [th EXCEPT ![t].pc = pc, ![t].key = key] \in [Threads -> Caller]
<1>1. th[t] \in Caller
  OBVIOUS
<1>2. IdleCaller \in Caller
  BY DEF IdleCaller, Caller, Labels
<1>3. /\ \A pc \in Labels : [th[t] EXCEPT !.pc = pc] \in Caller
      /\ \A todo \in SUBSET [key : Keys, stamp : 0..AnyStamp] : [th[t] EXCEPT !.todo = todo] \in Caller
      /\ \A gone \in SUBSET Ids : [th[t] EXCEPT !.gone = gone] \in Caller
      /\ \A pc \in Labels, id \in Ids : [th[t] EXCEPT !.id = id, !.pc = pc] \in Caller
      /\ \A pc \in Labels, key \in Keys : [th[t] EXCEPT !.pc = pc, !.key = key] \in Caller
  BY ZenonT(60), <1>1 DEF Caller
<1> QED
  BY <1>1, <1>2, <1>3

LEMMA SetRemoval ==
    ASSUME th \in [Threads -> Caller], NEW t \in Threads, NEW back \in Labels,
           NEW doomed \in SUBSET [key : Keys, stamp : 0..AnyStamp]
    PROVE  /\ [th EXCEPT ![t].pc = "sweep", ![t].todo = doomed, ![t].back = back, ![t].gone = {}] \in [Threads -> Caller]
           /\ \A key \in Keys : [th EXCEPT ![t].pc = "sweep", ![t].key = key, ![t].todo = doomed, ![t].back = back]
                                   \in [Threads -> Caller]
<1>1. th[t] \in Caller /\ "sweep" \in Labels
  BY DEF Labels
<1>2. /\ [th[t] EXCEPT !.pc = "sweep", !.todo = doomed, !.back = back, !.gone = {}] \in Caller
      /\ \A key \in Keys : [th[t] EXCEPT !.pc = "sweep", !.key = key, !.todo = doomed, !.back = back] \in Caller
  BY <1>1 DEF Caller
<1> QED
  BY <1>1, <1>2

-----------------------------------------------------------------------------
(* What a step of t leaves alone. *)

\* A step of t changes what t is doing, and nobody else.
Own(t) == th' \in [Threads -> Caller] /\ \A u \in Threads : u # t => th'[u] = th[u]

LEMMA OwnStep ==
    ASSUME IInv, NEW t \in Threads, Call(t) \/ cleanup_expired_internal(t) \/ Step(t), th' \in [Threads -> Caller]
    PROVE  Own(t)
  BY OnlyOwnCaller DEF Own, IInv

LEMMA FlowIsSome == \A f \in [id : Ids, updated_at : 0..MaxTime] : f # None
  BY FlowAssumption DEF Ids

LEMMA LiveIds ==
    ASSUME TableTypes
    PROVE  \A k \in Live : k \in Keys /\ flows[k].id \in Ids /\ flows[k].updated_at \in 0..MaxTime
  BY DEF TableTypes, Live

\* The other callers' entries: the order loses ids, flows leave, or the caller
\* is not where that would matter.
LEMMA OthersEntry ==
    ASSUME TableTypes, NEW u \in Threads, Entry(u), th'[u] = th[u], last_id' \in Nat, last_id <= last_id',
           SeqIds(flow_order)' \subseteq SeqIds(flow_order) \/ th[u].pc \notin {"index", "order"},
           (\A k \in Live' : k \in Live /\ flows'[k].id = flows[k].id) \/ th[u].pc \notin {"index"} \cup Clearing
    PROVE  Entry(u)'
<1>1. last_id \in Nat
  BY DEF TableTypes
<1>2. th[u].pc \in {"index", "order", "recent"} => th[u].id \in 1..last_id'
  BY <1>1 DEF Entry
<1>3. th[u].pc \in Clearing \ {"clearing"} => Live' = {}
  BY DEF Entry
<1>4. th[u].pc = "index" => \A k \in Live' : flows'[k].id = th[u].id => k = th[u].key
  BY DEF Entry
<1>5. th[u].pc \in {"index", "order"} => th[u].id \notin SeqIds(flow_order)'
  BY DEF Entry
<1> QED
  BY <1>2, <1>3, <1>4, <1>5 DEF Entry

LEMMA AheadFinite ==
    /\ IsFiniteSet(Ahead) /\ IsFiniteSet(Uncounted) /\ Cardinality(Ahead) \in Nat /\ Cardinality(Uncounted) \in Nat
    /\ IsFiniteSet(Ahead') /\ IsFiniteSet(Uncounted') /\ Cardinality(Ahead') \in Nat /\ Cardinality(Uncounted') \in Nat
<1>1. Ahead \subseteq Threads /\ Uncounted \subseteq Threads /\ Ahead' \subseteq Threads /\ Uncounted' \subseteq Threads
  BY DEF Ahead, Uncounted
<1>2. IsFiniteSet(Ahead) /\ IsFiniteSet(Uncounted) /\ IsFiniteSet(Ahead') /\ IsFiniteSet(Uncounted')
  BY <1>1, FlowAssumption, FS_Subset
<1> QED
  BY <1>2, FS_CardinalityType

\* A step that does not come closer to an insert than it was.
LEMMA AheadShrinks ==
    ASSUME NEW t \in Threads, Own(t), Creating(t)' => Creating(t)
    PROVE  Ahead' \subseteq Ahead /\ Cardinality(Ahead') <= Cardinality(Ahead)
<1>1. \A u \in Threads : u # t => (Creating(u)' <=> Creating(u))
  BY DEF Own, Creating, Reserved
<1>2. Ahead' \subseteq Ahead
  BY <1>1 DEF Ahead
<1> QED
  BY <1>2, AheadFinite, FS_Subset

\* No flow comes or goes.
SameFlows == Live' = Live /\ \A k \in Live : flows'[k].id = flows[k].id

\* A step that neither inserts, removes nor counts.
LEMMA CountersKept ==
    ASSUME TableInv, NEW t \in Threads, Own(t), SameFlows, UNCHANGED <<created, closed, active, last_id>>,
           th'[t].gone = th[t].gone, t \in Uncounted <=> t \in Uncounted',
           th[t].pc \in Clearing => th'[t].pc \in Clearing,
           last_id + Cardinality(Ahead') <= MaxIds \/ (Creating(t)' => Creating(t))
    PROVE  Distinct' /\ Counters'
<1>1. Distinct /\ Counters /\ TableTypes
  BY DEF TableInv
<1>2. Live' = Live
  BY DEF SameFlows
<1>3. \A u \in Threads : th'[u].gone = th[u].gone
  BY DEF Own
<1>4. Gone' = Gone
  BY <1>3 DEF Gone
<1>5. Uncounted' = Uncounted
  BY DEF Own, Uncounted
<1>6. Distinct'
  BY <1>1, <1>2, <1>3 DEF Distinct, SameFlows
<1>7. last_id' + Cardinality(Ahead') <= MaxIds
  <2>1. CASE Creating(t)' => Creating(t)
    <3>1. Cardinality(Ahead') <= Cardinality(Ahead)
      BY <2>1, AheadShrinks
    <3>2. last_id \in Nat /\ MaxIds \in Nat
      BY <1>1, FlowAssumption DEF TableTypes
    <3> QED
      BY <1>1, <3>1, <3>2, AheadFinite DEF Counters
  <2> QED
    BY <2>1
<1>8. active' = Cardinality(Live') \/
          (\E u \in Threads : th'[u].gone # {} \/ u \in Uncounted' \/ th'[u].pc \in Clearing)
  <2>1. CASE active = Cardinality(Live)
    BY <1>2, <2>1
  <2>2. ASSUME NEW u \in Threads, th[u].gone # {} \/ u \in Uncounted \/ th[u].pc \in Clearing
        PROVE  th'[u].gone # {} \/ u \in Uncounted' \/ th'[u].pc \in Clearing
    BY <1>3, <1>5, <2>2 DEF Own
  <2> QED
    BY <1>1, <2>1, <2>2 DEF Counters
<1>9. Counters'
  BY <1>1, <1>2, <1>4, <1>5, <1>7, <1>8 DEF Counters
<1> QED
  BY <1>6, <1>9

\* A step that leaves flows, flow_index and flow_order alone.
LEMMA ReachKept ==
    ASSUME TableInv, NEW t \in Threads, Own(t), SameFlows, UNCHANGED <<flow_index, flow_order, last_id>>,
           th[t].pc \notin {"index", "order"}, \A k \in Live : Popped(t, k) => Popped(t, k)'
    PROVE  Reach'
<1>1. Live' = Live
  BY DEF SameFlows
<1>2. \A u \in Threads, k \in Live : Popped(u, k) => Popped(u, k)'
  BY DEF Own, Popped, SameFlows
<1>3. ASSUME NEW k \in Live PROVE Indexed(k)' /\ Ordered(k)'
  <2>1. Indexed(k) /\ Ordered(k)
    BY DEF TableInv, Reach
  <2>2. Indexed(k)'
    BY <2>1 DEF Indexed, Own, SameFlows
  <2>3. Ordered(k)'
    BY <1>2, <2>1 DEF Ordered, Own, SeqIds, SameFlows
  <2> QED
    BY <2>2, <2>3
<1> QED
  BY <1>1, <1>3 DEF TableInv, Reach, Once, SeqIds

LEMMA CalmStep ==
    ASSUME TableInv, TableTypes', NEW t \in Threads, Own(t), Entry(t)',
           SameFlows, UNCHANGED <<flow_index, flow_order, created, closed, active, last_id>>,
           th'[t].gone = th[t].gone, th[t].pc \notin {"index", "order"},
           t \in Uncounted <=> t \in Uncounted',
           th[t].pc \in Clearing => th'[t].pc \in Clearing,
           last_id + Cardinality(Ahead') <= MaxIds \/ (Creating(t)' => Creating(t)),
           \A k \in Live : Popped(t, k) => Popped(t, k)'
    PROVE  TableInv'
<1>1. Distinct' /\ Counters'
  BY CountersKept
<1>2. Reach'
  BY ReachKept
<1>3. \A u \in Threads : Entry(u)'
  <2> SUFFICES ASSUME NEW u \in Threads, u # t PROVE Entry(u)'
    OBVIOUS
  <2>1. th'[u] = th[u] /\ Entry(u) /\ TableTypes /\ last_id \in Nat
    BY DEF Own, TableInv, TableTypes
  <2>2. Live' = Live /\ SeqIds(flow_order)' = SeqIds(flow_order)
    BY DEF SameFlows, SeqIds
  <2> QED
    BY <2>1, <2>2, OthersEntry DEF SameFlows
<1> QED
  BY <1>1, <1>2, <1>3 DEF TableInv

-----------------------------------------------------------------------------
(* Steps that only move a caller. *)

Busy == Removing \cup Clearing \cup {"index", "order", "recent", "count", "evict"}

\* A caller that is not busy with a flow goes on, to a removal or elsewhere.
LEMMA MoveStep ==
    ASSUME TableInv, NEW t \in Threads, Own(t), th[t].pc \notin Busy,
           UNCHANGED <<flows, flow_index, flow_order, recent_flows, created, closed, active, now, last_id>>,
           insert_lock' \in Threads \cup {None}, cleanup_lock' \in Threads \cup {None},
           th'[t].gone = th[t].gone \/ th'[t].gone = {},
           th'[t].pc \notin (Busy \ {"sweep"}),
           th'[t].pc = "remove" \/ (th'[t].pc = "sweep" /\ th'[t].back = "remove") => th'[t].key \in Keys,
           last_id + Cardinality(Ahead') <= MaxIds \/ (Creating(t)' => Creating(t))
    PROVE  TableInv'
<1>1. TableTypes /\ Entry(t)
  BY DEF TableInv
<1>2. th[t].gone = {} /\ th'[t].gone = {}
  BY <1>1 DEF Entry, Busy
<1>3. TableTypes'
  BY <1>1 DEF TableTypes, Own
<1>4. Entry(t)'
  BY <1>2 DEF Entry, Busy, Removing, Clearing
<1>5. \A k \in Live : ~Popped(t, k)
  BY DEF Popped, Busy, Removing
<1>6. (t \in Uncounted <=> t \in Uncounted') /\ th[t].pc \notin Clearing /\ th[t].pc \notin {"index", "order"}
  BY DEF Uncounted, Busy, Removing
<1> QED
  BY <1>2, <1>3, <1>4, <1>5, <1>6, CalmStep DEF SameFlows, Live

LEMMA GotoFacts ==
    ASSUME TableInv, NEW t \in Threads, NEW label \in Labels, Goto(t, label)
    PROVE  /\ Own(t) /\ th'[t].pc = label /\ th'[t].gone = th[t].gone /\ th'[t].key = th[t].key
           /\ th'[t].back = th[t].back /\ th'[t].id = th[t].id /\ th'[t].todo = th[t].todo
<1>1. th \in [Threads -> Caller]
  BY DEF TableInv, TableTypes
<1>2. th[t] \in Caller /\ th' = [th EXCEPT ![t].pc = label]
  BY <1>1 DEF Goto
<1>3. th' \in [Threads -> Caller]
  BY <1>1, <1>2, SetCaller
<1> QED
  BY <1>1, <1>2, <1>3 DEF Own, Caller

LEMMA RestFacts ==
    ASSUME TableInv, NEW t \in Threads, th' = [th EXCEPT ![t] = IdleCaller]
    PROVE  Own(t) /\ th'[t] = IdleCaller /\ th'[t].pc = "idle" /\ th'[t].gone = {}
<1>1. th \in [Threads -> Caller]
  BY DEF TableInv, TableTypes
<1>2. th' \in [Threads -> Caller]
  BY <1>1, SetCaller
<1> QED
  BY <1>1, <1>2 DEF Own, IdleCaller

LEMMA RemovalFacts ==
    ASSUME TableInv, NEW t \in Threads, NEW back \in Labels, NEW doomed \in SUBSET [key : Keys, stamp : 0..AnyStamp],
           StartRemoval(t, doomed, back)
    PROVE  /\ Own(t) /\ th'[t].pc = "sweep" /\ th'[t].gone = {} /\ th'[t].back = back /\ th'[t].todo = doomed
           /\ th'[t].id = th[t].id
<1>1. th \in [Threads -> Caller]
  BY DEF TableInv, TableTypes
<1>2. th' = [th EXCEPT ![t].pc = "sweep", ![t].todo = doomed, ![t].back = back, ![t].gone = {}]
  BY DEF StartRemoval
<1>3. th' \in [Threads -> Caller]
  BY <1>1, <1>2, SetRemoval
<1>4. th[t] \in Caller
  BY <1>1
<1> QED
  BY <1>1, <1>2, <1>3, <1>4 DEF Own, Caller

\* What is put on a list of flows to remove.
LEMMA DoomedTypes ==
    ASSUME TableInv
    PROVE  /\ ExpiredEntries \in SUBSET [key : Keys, stamp : 0..AnyStamp]
           /\ \A k \in Live : {[key |-> k, stamp |-> flows[k].updated_at]} \in SUBSET [key : Keys, stamp : 0..AnyStamp]
           /\ \A k \in Keys : {[key |-> k, stamp |-> AnyStamp]} \in SUBSET [key : Keys, stamp : 0..AnyStamp]
<1>1. \A k \in Live : k \in Keys /\ flows[k].updated_at \in 0..AnyStamp
  BY LiveIds, FlowAssumption DEF TableInv, AnyStamp
<1>2. AnyStamp \in 0..AnyStamp
  BY FlowAssumption DEF AnyStamp
<1> QED
  BY <1>1, <1>2 DEF ExpiredEntries

LEMMA MaybeCleanupTable ==
    ASSUME IInv, TableInv, NEW t \in Threads, NEW k \in Keys,
           NEW next \in {"lookup", "relookup", "update", "remove"}, maybe_cleanup(t, k, next),
           th[t].pc \in {"idle", "locked"},
           last_id + Cardinality(Ahead') <= MaxIds \/ next # "lookup",
           next = "relookup" => th[t].pc = "locked"
    PROVE  TableInv'
<1>1. th \in [Threads -> Caller] /\ insert_lock \in Threads \cup {None} /\ cleanup_lock \in Threads \cup {None} /\ Entry(t)
  BY DEF TableInv, TableTypes
<1>2. UNCHANGED <<flows, flow_index, flow_order, recent_flows, created, closed, active, now, last_id, insert_lock>>
  BY DEF maybe_cleanup, table, stats, clock
<1>3. next \in Labels /\ th[t].pc \notin Busy /\ th[t].gone = {} /\ th[t] \in Caller
  BY <1>1 DEF Labels, Busy, Removing, Clearing, Entry
<1>4. CASE th' = [th EXCEPT ![t].pc = next, ![t].key = k] /\ cleanup_lock' = cleanup_lock
  <2>1. th' \in [Threads -> Caller]
    BY <1>1, <1>3, <1>4, SetCaller
  <2>2. Own(t) /\ th'[t].pc = next /\ th'[t].key = k /\ th'[t].gone = {}
    BY <1>1, <1>3, <1>4, <2>1 DEF Own, Caller
  <2>3. last_id + Cardinality(Ahead') <= MaxIds \/ (Creating(t)' => Creating(t))
    BY <2>2 DEF Creating, Reserved, Removing
  <2>4. th'[t].pc \notin Busy
    BY <2>2 DEF Busy, Removing, Clearing
  <2> QED
    BY <1>1, <1>2, <1>3, <1>4, <2>2, <2>3, <2>4, MoveStep
<1>5. CASE /\ th' = [th EXCEPT ![t].pc = "sweep", ![t].key = k, ![t].todo = ExpiredEntries, ![t].back = next]
           /\ cleanup_lock' = t
  <2>1. th' \in [Threads -> Caller]
    BY <1>1, <1>3, <1>5, SetRemoval, DoomedTypes
  <2>2. Own(t) /\ th'[t].pc = "sweep" /\ th'[t].key = k /\ th'[t].gone = {} /\ th'[t].back = next
    BY <1>1, <1>3, <1>5, <2>1 DEF Own, Caller
  <2>3. last_id + Cardinality(Ahead') <= MaxIds \/ (Creating(t)' => Creating(t))
    BY <2>2 DEF Creating, Reserved, Removing
  <2> QED
    BY <1>1, <1>2, <1>3, <1>5, <2>2, <2>3, MoveStep
<1> QED
  BY <1>4, <1>5 DEF maybe_cleanup

\* The bound on the ids: a creation starts only when every call under way could
\* still have one.
LEMMA RoomForId ==
    ASSUME TableInv, NEW t \in Threads, CanCreate, At(t, "idle"), \A u \in Threads : u # t => th'[u] = th[u]
    PROVE  last_id + Cardinality(Ahead') <= MaxIds
<1> DEFINE Calls == {u \in Threads : ~At(u, "idle")}
<1>1. \A u \in Threads : u # t /\ Creating(u)' => u \in Calls
  BY DEF Creating, Reserved, Removing, At
<1>2. Ahead' \subseteq Calls \cup {t}
  BY <1>1 DEF Ahead
<1>3. IsFiniteSet(Calls) /\ Cardinality(Calls) \in Nat /\ t \notin Calls
  <2>1. Calls \subseteq Threads
    OBVIOUS
  <2> QED
    BY <2>1, FlowAssumption, FS_Subset, FS_CardinalityType
<1>4. IsFiniteSet(Calls \cup {t}) /\ Cardinality(Calls \cup {t}) = Cardinality(Calls) + 1
  BY <1>3, FS_AddElement
<1>5. Cardinality(Ahead') <= Cardinality(Calls) + 1
  BY <1>2, <1>4, FS_Subset
<1>6. last_id \in Nat /\ MaxIds \in Nat
  BY FlowAssumption DEF TableInv, TableTypes
<1>7. last_id + Cardinality(Calls) < MaxIds
  BY DEF CanCreate
<1> HIDE DEF Calls
<1> QED
  BY <1>3, <1>5, <1>6, <1>7, AheadFinite

LEMMA CallTable ==
    ASSUME IInv, TableInv, NEW t \in Threads, Call(t)
    PROVE  TableInv'
<1>1. th[t].pc = "idle" /\ th \in [Threads -> Caller]
  BY DEF Call, At, TableInv, TableTypes
<1>2. ASSUME NEW k \in Keys, CanCreate, maybe_cleanup(t, k, "lookup") PROVE TableInv'
  <2>1. \A u \in Threads : u # t => th'[u] = th[u]
    BY <1>1, <1>2 DEF maybe_cleanup
  <2>2. last_id + Cardinality(Ahead') <= MaxIds
    BY <1>1, <1>2, <2>1, RoomForId DEF At
  <2> QED
    BY <1>1, <1>2, <2>2, MaybeCleanupTable
<1>3. ASSUME NEW k \in Keys, maybe_cleanup(t, k, "update") \/ maybe_cleanup(t, k, "remove") PROVE TableInv'
  BY <1>1, <1>3, MaybeCleanupTable
<1>4. ASSUME Goto(t, "clear"), UNCHANGED <<table, locks, stats, clock>> PROVE TableInv'
  <2>1. "clear" \in Labels /\ "clear" \notin Busy /\ "idle" \notin Busy
    BY DEF Labels, Busy, Removing, Clearing
  <2>2. Own(t) /\ th'[t].pc = "clear" /\ th'[t].gone = th[t].gone
    BY <1>4, <2>1, GotoFacts
  <2>3. ~Creating(t)'
    BY <2>2 DEF Creating, Reserved, Removing
  <2> QED
    BY <1>1, <1>4, <2>1, <2>2, <2>3, MoveStep DEF table, locks, stats, clock, TableInv, TableTypes
<1> QED
  BY <1>2, <1>3, <1>4 DEF Call

LEMMA SweepTable ==
    ASSUME IInv, TableInv, NEW t \in Threads, cleanup_expired_internal(t) \/ remove(t)
    PROVE  TableInv'
<1>1. /\ th[t].pc \in {"idle", "remove"} /\ UNCHANGED <<table, locks, stats, clock>>
      /\ StartRemoval(t, ExpiredEntries, "idle") \/ StartRemoval(t, {[key |-> th[t].key, stamp |-> AnyStamp]}, "idle")
      /\ StartRemoval(t, ExpiredEntries, "idle") \/ th[t].pc = "remove"
  BY DEF cleanup_expired_internal, remove, At
<1>2. "idle" \in Labels /\ th[t].pc \notin Busy
  BY <1>1 DEF Labels, Busy, Removing, Clearing
<1>3. th[t].pc = "remove" => th[t].key \in Keys
  BY DEF TableInv, Entry
<1>4. Own(t) /\ th'[t].pc = "sweep" /\ th'[t].gone = {} /\ th'[t].back = "idle"
  BY <1>1, <1>2, <1>3, RemovalFacts, DoomedTypes
<1>5. ~Creating(t)' /\ th'[t].pc \notin (Busy \ {"sweep"})
  BY <1>4 DEF Creating, Reserved
<1> QED
  BY <1>1, <1>2, <1>4, <1>5, MoveStep DEF table, locks, stats, clock, TableInv, TableTypes

LEMMA LookupTable ==
    ASSUME IInv, TableInv, NEW t \in Threads,
           Lookup(t, "lookup", "lock") \/ LookupAgain(t)
    PROVE  TableInv'
<1>1. PICK next \in {"lock", "enforce"} : Lookup(t, IF next = "lock" THEN "lookup" ELSE "relookup", next)
  BY DEF LookupAgain
<1>2. /\ th[t].pc \in {"lookup", "relookup"} /\ UNCHANGED <<table, cleanup_lock, stats, clock>>
      /\ insert_lock' \in {insert_lock, None}
  BY <1>1 DEF Lookup, At
<1>3. next \in Labels /\ th[t].pc \notin Busy /\ next \notin Busy /\ Creating(t) /\ th[t].key \in Keys
  BY <1>2 DEF Labels, Busy, Removing, Clearing, Creating, IInv, CallerInv, HasKey
<1>4. /\ Own(t) /\ (th'[t].pc \notin Busy \/ (th'[t].pc = "sweep" /\ th'[t].back # "remove")) /\ th'[t].pc # "remove"
      /\ th'[t].gone = th[t].gone \/ th'[t].gone = {}
  <2> DEFINE f == flows[th[t].key]
  <2>1. CASE f = None
    BY <1>1, <1>3, <2>1, GotoFacts DEF Lookup
  <2>2. CASE f # None /\ Expired(f)
    <3>1. StartRemoval(t, {[key |-> th[t].key, stamp |-> f.updated_at]}, next) /\ th[t].key \in Live
      BY <1>1, <1>3, <2>2 DEF Lookup, Live
    <3> QED
      BY <1>3, <3>1, RemovalFacts, DoomedTypes
  <2>3. CASE f # None /\ ~Expired(f)
    <3>1. "idle" \notin Busy
      BY DEF Busy, Removing, Clearing
    <3> QED
      BY <1>1, <2>3, <3>1, RestFacts DEF Lookup
  <2> QED
    BY <2>1, <2>2, <2>3
<1>5. /\ th'[t].pc \notin (Busy \ {"sweep"})
      /\ ~(th'[t].pc = "remove" \/ (th'[t].pc = "sweep" /\ th'[t].back = "remove"))
  <2>1. "sweep" \in Busy
    BY DEF Busy, Removing
  <2> QED
    BY <1>4, <2>1
<1> QED
  BY <1>2, <1>3, <1>4, <1>5, MoveStep DEF table, stats, clock, TableInv, TableTypes

LEMMA LockTable ==
    ASSUME IInv, TableInv, NEW t \in Threads,
           TakeInsertLock(t, "lock", "locked") \/ enforce_max_flows(t)
    PROVE  TableInv'
<1>1. PICK label \in {"locked", "pop", "insert"} : Goto(t, label)
  BY DEF TakeInsertLock, enforce_max_flows
<1>2. /\ th[t].pc \in {"lock", "enforce"} /\ UNCHANGED <<table, cleanup_lock, stats, clock>>
      /\ insert_lock' \in {insert_lock, t}
  BY DEF TakeInsertLock, enforce_max_flows, At, locks
<1>3. label \in Labels /\ th[t].pc \notin Busy /\ label \notin Busy /\ Creating(t)
  BY <1>2 DEF Labels, Busy, Removing, Clearing, Creating, Reserved
<1>4. Own(t) /\ th'[t].pc = label /\ th'[t].gone = th[t].gone
  BY <1>1, <1>3, GotoFacts
<1> QED
  BY <1>2, <1>3, <1>4, MoveStep DEF table, stats, clock, TableInv, TableTypes

LEMMA UpdateTable ==
    ASSUME IInv, TableInv, NEW t \in Threads, update(t)
    PROVE  TableInv'
<1> DEFINE k == th[t].key
           f == flows[k]
<1>1. th[t].pc = "update" /\ k \in Keys /\ UNCHANGED <<flow_index, flow_order, recent_flows, locks, stats, clock>>
  BY DEF update, At, IInv, CallerInv, HasKey
<1>2. th[t].pc \notin Busy /\ "idle" \notin Busy /\ "update" \in Labels /\ "idle" \in Labels
  BY <1>1 DEF Busy, Removing, Clearing, Labels
<1>3. CASE f # None /\ Expired(f)
  <2>1. StartRemoval(t, {[key |-> k, stamp |-> f.updated_at]}, "update") /\ flows' = flows /\ k \in Live
    BY <1>1, <1>3 DEF update, Live
  <2>2. Own(t) /\ th'[t].pc = "sweep" /\ th'[t].gone = {} /\ th'[t].back = "update"
    BY <1>2, <2>1, RemovalFacts, DoomedTypes
  <2>3. ~Creating(t)'
    BY <2>2 DEF Creating, Reserved
  <2> QED
    BY <1>1, <1>2, <2>1, <2>2, <2>3, MoveStep DEF locks, stats, clock, TableInv, TableTypes
<1>4. CASE f = None \/ ~Expired(f)
  <2>1. th' = [th EXCEPT ![t] = IdleCaller] /\ (flows' = flows \/ (f # None /\ flows' = [flows EXCEPT ![k].updated_at = now]))
    BY <1>4 DEF update
  <2>2. Own(t) /\ th'[t].pc = "idle" /\ th'[t].gone = {}
    BY <2>1, RestFacts
  <2>3. ~Creating(t)'
    BY <2>2 DEF Creating, Reserved, Removing
  <2>4. CASE flows' = flows
    BY <1>1, <1>2, <2>2, <2>3, <2>4, MoveStep DEF locks, stats, clock, TableInv, TableTypes
  <2>5. CASE f # None /\ flows' = [flows EXCEPT ![k].updated_at = now]
    <3>1. TableTypes /\ Entry(t) /\ f \in [id : Ids, updated_at : 0..MaxTime] /\ now \in 0..MaxTime
      BY <1>1, <2>5 DEF TableInv, TableTypes
    <3>2. flows' \in [Keys -> [id : Ids, updated_at : 0..MaxTime] \cup {None}] /\ SameFlows
      <4>1. [f EXCEPT !.updated_at = now] \in [id : Ids, updated_at : 0..MaxTime] /\ [f EXCEPT !.updated_at = now].id = f.id
        BY <3>1
      <4>2. flows' = [flows EXCEPT ![k] = [f EXCEPT !.updated_at = now]]
        BY <1>1, <2>5, <3>1
      <4>3. flows \in [Keys -> [id : Ids, updated_at : 0..MaxTime] \cup {None}]
        BY <3>1 DEF TableTypes
      <4> HIDE DEF f, k
      <4>4. flows' \in [Keys -> [id : Ids, updated_at : 0..MaxTime] \cup {None}]
        BY <4>1, <4>2, <4>3
      <4>5. \A j \in Keys : IF j = k THEN flows'[j].id = flows[j].id /\ flows'[j] # None ELSE flows'[j] = flows[j]
        <5>1. [f EXCEPT !.updated_at = now] # None
          BY <4>1, FlowIsSome
        <5> QED
          BY <1>1, <4>1, <4>2, <4>3, <5>1 DEF f
      <4> QED
        BY <1>1, <2>5, <4>4, <4>5 DEF SameFlows, Live, f
    <3>3. TableTypes'
      BY <1>1, <2>2, <3>1, <3>2 DEF TableTypes, Own, locks, stats, clock
    <3>4. Entry(t)'
      BY <2>2, <1>2 DEF Entry, Busy
    <3>5. th[t].gone = {}
      BY <1>2, <3>1 DEF Entry, Busy
    <3>6. \A j \in Live : ~Popped(t, j)
      BY <1>1 DEF Popped
    <3>7. (t \in Uncounted <=> t \in Uncounted') /\ th[t].pc \notin Clearing
      BY <1>1, <2>2 DEF Uncounted, Clearing
    <3> QED
      BY <1>1, <2>2, <2>3, <3>2, <3>3, <3>4, <3>5, <3>6, <3>7, CalmStep DEF stats, clock
  <2> QED
    BY <2>1, <2>4, <2>5
<1> QED
  BY <1>3, <1>4

\* The oldest id: it leaves the order, and its flow is the one t evicts.
LEMMA PopOldestTable ==
    ASSUME IInv, TableInv, NEW t \in Threads, PopOldest(t)
    PROVE  TableInv'
<1>1. th[t].pc = "pop" /\ UNCHANGED <<flows, flow_index, recent_flows, locks, stats, clock>>
  BY DEF PopOldest, At
<1>2. TableTypes /\ Entry(t) /\ Reach /\ Creating(t) /\ th[t].pc \notin Busy /\ Live' = Live
  BY <1>1 DEF TableInv, Creating, Reserved, Busy, Removing, Clearing, Live
<1>3. CASE flow_order = <<>>
  <2>1. PICK label \in {"insert", "sweep"} : /\ Own(t) /\ th'[t].pc = label /\ (th'[t].gone = th[t].gone \/ th'[t].gone = {})
                                             /\ label = "sweep" => th'[t].back = "fallback"
    <3>1. CASE Live = {}
      BY <1>3, <3>1, GotoFacts DEF PopOldest, Labels
    <3>2. ASSUME NEW k \in Live, StartRemoval(t, {[key |-> k, stamp |-> AnyStamp]}, "fallback")
          PROVE  Own(t) /\ th'[t].pc = "sweep" /\ th'[t].gone = {} /\ th'[t].back = "fallback"
      <4>1. k \in Keys /\ "fallback" \in Labels
        BY DEF Live, Labels
      <4> QED
        BY <3>2, <4>1, RemovalFacts, DoomedTypes
    <3> QED
      BY <1>3, <3>1, <3>2 DEF PopOldest
  <2>2. flow_order' = flow_order
    BY <1>3 DEF PopOldest
  <2>3. th'[t].pc \notin (Busy \ {"sweep"})
    BY <2>1 DEF Busy, Removing, Clearing
  <2> QED
    BY <1>1, <1>2, <2>1, <2>2, <2>3, MoveStep DEF locks, stats, clock, TableTypes
<1>4. CASE flow_order # <<>>
  <2>1. flow_order' = Tail(flow_order) /\ th' = [th EXCEPT ![t].id = Head(flow_order), ![t].pc = "evict"]
    BY <1>4 DEF PopOldest
  <2>2. /\ flow_order \in Seq(Ids) /\ Head(flow_order) = flow_order[1] /\ Len(flow_order) \in Nat \ {0}
        /\ Tail(flow_order) \in Seq(Ids) /\ Len(Tail(flow_order)) = Len(flow_order) - 1
        /\ \A i \in 1..Len(Tail(flow_order)) : Tail(flow_order)[i] = flow_order[i + 1]
    BY <1>2, <1>4, HeadTailProperties, EmptySeq DEF TableTypes
  <2>3. Once(flow_order') /\ \A x : x \in SeqIds(flow_order) => x = flow_order[1] \/ x \in SeqIds(flow_order')
    <3>1. Once(flow_order')
      BY <1>2, <2>1, <2>2 DEF Reach, Once
    <3>2. ASSUME NEW i \in 1..Len(flow_order), i # 1 PROVE flow_order[i] \in SeqIds(flow_order')
      <4>1. i - 1 \in 1..Len(flow_order') /\ flow_order'[i - 1] = flow_order[i]
        BY <2>1, <2>2, <3>2
      <4> QED
        BY <4>1 DEF SeqIds
    <3> QED
      BY <3>1, <3>2 DEF SeqIds
  <2>4. SeqIds(flow_order)' \subseteq SeqIds(flow_order)
    <3>1. \A i \in 1..Len(flow_order') : i + 1 \in 1..Len(flow_order) /\ flow_order'[i] = flow_order[i + 1]
      BY <2>1, <2>2
    <3> QED
      BY <3>1 DEF SeqIds
  <2>5. Own(t) /\ th'[t].pc = "evict" /\ th'[t].gone = th[t].gone /\ th'[t].id = flow_order[1] /\ flow_order[1] \in Ids
    <3>1. th \in [Threads -> Caller] /\ th[t] \in Caller /\ "evict" \in Labels /\ flow_order[1] \in Ids
      BY <1>2, <2>2, ElementOfSeq DEF TableTypes, Labels
    <3>2. th' \in [Threads -> Caller]
      BY <2>1, <2>2, <3>1, SetCaller
    <3> QED
      BY <2>1, <2>2, <3>1, <3>2 DEF Own, Caller
  <2>6. TableTypes'
    BY <1>1, <1>2, <2>1, <2>2, <2>5 DEF TableTypes, Own, locks, stats, clock
  <2>7. th[t].gone = {}
    BY <1>2 DEF Entry, Busy
  <2>8. Entry(t)'
    BY <2>5, <2>7 DEF Entry, Removing, Clearing
  <2>9. ASSUME NEW u \in Threads, u # t PROVE Entry(u)'
    BY <1>1, <1>2, <2>4, <2>5, <2>9, OthersEntry DEF TableInv, Own, clock, TableTypes
  <2>10. Distinct' /\ Counters'
    <3>1. (t \in Uncounted <=> t \in Uncounted') /\ th[t].pc \notin Clearing /\ SameFlows
      BY <1>1, <1>2, <2>5 DEF Uncounted, Clearing, SameFlows
    <3> QED
      BY <1>1, <1>2, <2>5, <3>1, CountersKept DEF stats, clock
  <2>11. Reach'
    <3>1. SeqIds(flow_order') \subseteq 1..last_id'
      BY <1>1, <1>2, <2>4 DEF Reach, clock, SeqIds
    <3>2. ASSUME NEW k \in Live PROVE Indexed(k)' /\ Ordered(k)'
      <4>1. Indexed(k) /\ Ordered(k) /\ flows'[k] = flows[k]
        BY <1>1, <1>2 DEF Reach
      <4>2. Indexed(k)'
        BY <1>1, <2>5, <4>1 DEF Indexed, Own
      <4>3. flows[k].id = flow_order[1] => Popped(t, k)'
        BY <1>1, <2>5 DEF Popped
      <4>4. \A u \in Threads : u # t /\ Popped(u, k) => Popped(u, k)'
        BY <1>1, <2>5 DEF Popped, Own
      <4>5. ~Popped(t, k)
        BY <1>1 DEF Popped
      <4>6. Ordered(k)'
        <5>1. CASE flows[k].id \in SeqIds(flow_order)
          BY <2>3, <4>1, <4>3, <5>1 DEF Ordered, SeqIds
        <5>2. ASSUME NEW u \in Threads, (th[u].pc \in {"index", "order"} /\ th[u].id = flows[k].id) \/ Popped(u, k)
              PROVE  Ordered(k)'
          <6>1. u # t
            BY <1>1, <4>5, <5>2
          <6> QED
            BY <2>5, <4>1, <4>4, <5>2, <6>1 DEF Ordered, Own
        <5> QED
          BY <4>1, <5>1, <5>2 DEF Ordered
      <4> QED
        BY <4>2, <4>6
    <3> QED
      BY <1>2, <2>3, <3>1, <3>2 DEF Reach, Once, SeqIds
  <2> QED
    BY <2>6, <2>8, <2>9, <2>10, <2>11 DEF TableInv
<1> QED
  BY <1>3, <1>4

\* The holder of insert_lock is alone in the critical section.
LEMMA Alone ==
    ASSUME IInv, NEW t \in Threads, NEW u \in Threads, Holds(t), Holds(u)
    PROVE  t = u
  BY DEF IInv, CallerInv, Mutex

LEMMA EvictKeyTable ==
    ASSUME IInv, TableInv, NEW t \in Threads, EvictKey(t)
    PROVE  TableInv'
<1> DEFINE k == flow_index[th[t].id]
<1>1. th[t].pc = "evict" /\ UNCHANGED <<table, locks, stats, clock>>
  BY DEF EvictKey, At
<1>2. TableTypes /\ Entry(t) /\ Creating(t) /\ th[t].gone = {}
  BY <1>1 DEF TableInv, Creating, Reserved, Removing, Clearing, Entry
<1>3. ASSUME NEW j \in Live, Popped(t, j) PROVE k = j
  <2>1. Indexed(j) /\ th[t].id = flows[j].id
    BY <1>3 DEF TableInv, Reach, Popped
  <2>2. \A u \in Threads : th[u].pc # "index"
    BY <1>1, Alone DEF Holds, Reserved
  <2> QED
    BY <2>1, <2>2 DEF Indexed
<1>4. CASE k = None
  <2>1. Own(t) /\ th'[t].pc = "pop" /\ th'[t].gone = th[t].gone
    BY <1>4, GotoFacts DEF EvictKey, Labels
  <2>2. \A j \in Live : ~Popped(t, j)
    BY <1>3, <1>4, FlowAssumption DEF Live
  <2>3. Entry(t)' /\ (t \in Uncounted <=> t \in Uncounted') /\ th[t].pc \notin Clearing /\ th[t].pc \notin {"index", "order"}
    BY <1>1, <1>2, <2>1 DEF Entry, Removing, Clearing, Uncounted
  <2>4. TableTypes'
    BY <1>1, <1>2, <2>1 DEF TableTypes, Own, table, locks, stats, clock
  <2> QED
    BY <1>1, <1>2, <2>1, <2>2, <2>3, <2>4, CalmStep DEF SameFlows, Live, table, stats, clock
<1>5. CASE k # None
  <2>1. k \in Keys
    <3>1. StartRemoval(t, {[key |-> k, stamp |-> AnyStamp]}, "evict")
      BY <1>5 DEF EvictKey
    <3>2. th[t].id \in Ids
      BY <1>1, <1>2 DEF Entry
    <3> QED
      BY <1>2, <1>5, <3>2 DEF TableTypes
  <2>2. StartRemoval(t, {[key |-> k, stamp |-> AnyStamp]}, "evict") /\ "evict" \in Labels
    BY <1>5 DEF EvictKey, Labels
  <2> HIDE DEF k
  <2>3. /\ Own(t) /\ th'[t].pc = "sweep" /\ th'[t].gone = {} /\ th'[t].back = "evict"
        /\ th'[t].todo = {[key |-> k, stamp |-> AnyStamp]} /\ th'[t].id = th[t].id
    BY <2>1, <2>2, RemovalFacts, DoomedTypes
  <2>4. \A j \in Live : Popped(t, j) => Popped(t, j)'
    BY <1>1, <1>3, <2>3 DEF Popped, table
  <2>5. Entry(t)' /\ (t \in Uncounted <=> t \in Uncounted') /\ th[t].pc \notin Clearing /\ th[t].pc \notin {"index", "order"}
    BY <1>1, <1>2, <2>3 DEF Entry, Removing, Clearing, Uncounted
  <2>6. TableTypes'
    BY <1>1, <1>2, <2>3 DEF TableTypes, Own, table, locks, stats, clock
  <2> QED
    BY <1>1, <1>2, <2>3, <2>4, <2>5, <2>6, CalmStep DEF SameFlows, Live, table, stats, clock
<1> QED
  BY <1>4, <1>5

-----------------------------------------------------------------------------
(* The steps of a creation after its insert, and of a removal after it.    *)

\* A step that changes neither the flows nor the statistics, with what it does
\* to the containers given.
LEMMA ContainerStep ==
    ASSUME TableInv, NEW t \in Threads, Own(t), Entry(t)', TableTypes', Reach',
           UNCHANGED <<flows, created, closed, active, last_id>>, th'[t].gone = th[t].gone,
           t \in Uncounted <=> t \in Uncounted', th[t].pc \in Clearing => th'[t].pc \in Clearing,
           Creating(t)' => Creating(t),
           \A u \in Threads : u # t => \/ SeqIds(flow_order)' \subseteq SeqIds(flow_order)
                                       \/ th[u].pc \notin {"index", "order"}
    PROVE  TableInv'
<1>1. SameFlows /\ TableTypes
  BY DEF SameFlows, Live, TableInv
<1>2. Distinct' /\ Counters'
  BY <1>1, CountersKept
<1>3. ASSUME NEW u \in Threads, u # t PROVE Entry(u)'
  BY <1>1, <1>3, OthersEntry DEF TableInv, Own, SameFlows, TableTypes
<1> QED
  BY <1>2, <1>3 DEF TableInv

LEMMA IndexTable ==
    ASSUME IInv, TableInv, NEW t \in Threads, Index(t)
    PROVE  TableInv'
<1>1. /\ th[t].pc = "index" /\ flow_index' = [flow_index EXCEPT ![th[t].id] = th[t].key] /\ Goto(t, "order")
      /\ UNCHANGED <<flows, flow_order, recent_flows, locks, stats, clock>>
  BY DEF Index, At
<1>2. TableTypes /\ Entry(t) /\ Reach /\ th[t] \in Caller /\ th[t].id \in 1..last_id /\ th[t].id \in Ids
  BY SMTT(30), <1>1, FlowAssumption DEF TableInv, TableTypes, Entry, Ids
<1>3. Own(t) /\ th'[t].pc = "order" /\ th'[t].gone = th[t].gone /\ th'[t].id = th[t].id
  BY <1>1, GotoFacts DEF Labels
<1>4. TableTypes'
  <2>1. flow_index' \in [Ids -> Keys \cup {None}]
    BY <1>1, <1>2 DEF TableTypes, Caller
  <2> QED
    BY <1>1, <1>2, <1>3, <2>1 DEF TableTypes, Own, locks, stats, clock
<1>5. Entry(t)'
  BY <1>1, <1>2, <1>3 DEF Entry, Removing, Clearing, SeqIds, clock
<1>6. Reach'
  <2>1. Live' = Live /\ Once(flow_order)' /\ (SeqIds(flow_order) \subseteq 1..last_id)'
    BY <1>1, <1>2 DEF Live, Reach, Once, SeqIds, clock
  <2>2. ASSUME NEW k \in Live PROVE Indexed(k)' /\ Ordered(k)'
    <3>1. Indexed(k) /\ Ordered(k) /\ flows'[k] = flows[k] /\ flows[k].id \in Ids
      BY <1>1, <1>2, LiveIds DEF Reach
    <3>2. \A u \in Threads : u # t => th'[u] = th[u] /\ ~Holds(u)
      BY <1>1, <1>3, Alone DEF Own, Holds
    <3>3. Indexed(k)'
      <4>1. CASE flows[k].id = th[t].id
        <5>1. th[t].key = k
          BY <1>1, <1>2, <4>1 DEF Entry
        <5> QED
          BY <1>1, <1>2, <3>1, <4>1, <5>1 DEF Indexed, TableTypes
      <4>2. CASE flows[k].id # th[t].id
        <5>1. flow_index[flows[k].id] = k
          BY <3>1, <3>2, <4>2 DEF Indexed, Holds
        <5> QED
          BY <1>1, <1>2, <3>1, <4>2, <5>1 DEF Indexed, TableTypes
      <4> QED
        BY <4>1, <4>2
    <3>4. \A u \in Threads : Popped(u, k) => Popped(u, k)'
      BY <1>1, <3>1, <3>2 DEF Popped
    <3>5. Ordered(k)'
      BY <1>1, <1>3, <3>1, <3>2, <3>4 DEF Ordered, SeqIds
    <3> QED
      BY <3>3, <3>5
  <2> QED
    BY <2>1, <2>2 DEF Reach
<1>7. /\ t \in Uncounted /\ t \in Uncounted' /\ th[t].pc \notin Clearing /\ ~Creating(t)'
      /\ SeqIds(flow_order)' = SeqIds(flow_order)
  BY <1>1, <1>3 DEF Uncounted, Clearing, Creating, Reserved, Removing, SeqIds
<1> QED
  BY <1>1, <1>3, <1>4, <1>5, <1>6, <1>7, ContainerStep DEF stats, clock

LEMMA RecordOrderTable ==
    ASSUME IInv, TableInv, NEW t \in Threads, RecordOrder(t)
    PROVE  TableInv'
<1>1. /\ th[t].pc = "order" /\ flow_order' = Append(flow_order, th[t].id) /\ Goto(t, "recent")
      /\ UNCHANGED <<flows, flow_index, recent_flows, locks, stats, clock>>
  BY DEF RecordOrder, At
<1>2. /\ TableTypes /\ Entry(t) /\ Reach /\ th[t] \in Caller /\ th[t].id \in 1..last_id /\ th[t].id \in Ids
      /\ th[t].id \notin SeqIds(flow_order) /\ flow_order \in Seq(Ids)
  BY SMTT(30), <1>1, FlowAssumption DEF TableInv, TableTypes, Entry, Ids
<1>3. Own(t) /\ th'[t].pc = "recent" /\ th'[t].gone = th[t].gone /\ th'[t].id = th[t].id
  BY <1>1, GotoFacts DEF Labels
<1>4. /\ Append(flow_order, th[t].id) \in Seq(Ids) /\ Len(Append(flow_order, th[t].id)) = Len(flow_order) + 1
      /\ Len(flow_order) \in Nat
      /\ \A i \in 1..Len(flow_order) : Append(flow_order, th[t].id)[i] = flow_order[i]
      /\ Append(flow_order, th[t].id)[Len(flow_order) + 1] = th[t].id
  BY <1>2, AppendProperties, LenProperties
<1>5. TableTypes'
  BY <1>1, <1>2, <1>3, <1>4 DEF TableTypes, Own, locks, stats, clock
<1>6. SeqIds(flow_order)' = SeqIds(flow_order) \cup {th[t].id} /\ Once(flow_order)'
  <2>1. \A i : i \in 1..(Len(flow_order) + 1) <=> i \in 1..Len(flow_order) \/ i = Len(flow_order) + 1
    BY <1>4
  <2>2. SeqIds(flow_order)' = SeqIds(flow_order) \cup {th[t].id}
    BY <1>1, <1>4, <2>1 DEF SeqIds
  <2>3. \A i \in 1..Len(flow_order) : flow_order[i] # th[t].id
    BY <1>2 DEF SeqIds
  <2>4. ASSUME NEW i \in 1..Len(flow_order'), NEW j \in 1..Len(flow_order'), flow_order'[i] = flow_order'[j] PROVE i = j
    BY <1>1, <1>2, <1>4, <2>1, <2>3, <2>4 DEF Reach, Once
  <2> QED
    BY <2>2, <2>4 DEF Once
<1>7. Entry(t)'
  BY <1>1, <1>2, <1>3 DEF Entry, Removing, Clearing, clock
<1>8. \A u \in Threads : u # t => th'[u] = th[u] /\ ~Holds(u)
  BY <1>1, <1>3, Alone DEF Own, Holds
<1>9. Reach'
  <2>1. Live' = Live /\ (SeqIds(flow_order) \subseteq 1..last_id)'
    BY <1>1, <1>2, <1>6 DEF Live, Reach, clock
  <2>2. ASSUME NEW k \in Live PROVE Indexed(k)' /\ Ordered(k)'
    <3>1. Indexed(k) /\ Ordered(k) /\ flows'[k] = flows[k]
      BY <1>1, <1>2 DEF Reach
    <3>2. Indexed(k)'
      BY <1>1, <1>8, <3>1 DEF Indexed
    <3>3. \A u \in Threads : Popped(u, k) => Popped(u, k)'
      BY <1>1, <1>8, <3>1 DEF Popped
    <3>4. Ordered(k)'
      BY <1>1, <1>6, <1>8, <3>1, <3>3 DEF Ordered, Holds
    <3> QED
      BY <3>2, <3>4
  <2> QED
    BY <1>6, <2>1, <2>2 DEF Reach
<1>10. /\ t \in Uncounted /\ t \in Uncounted' /\ th[t].pc \notin Clearing /\ ~Creating(t)'
       /\ \A u \in Threads : u # t => th[u].pc \notin {"index", "order"}
  BY <1>1, <1>3, <1>8 DEF Uncounted, Clearing, Creating, Reserved, Removing, Holds
<1> QED
  BY <1>1, <1>3, <1>5, <1>7, <1>9, <1>10, ContainerStep DEF stats, clock

LEMMA RecordRecentTable ==
    ASSUME IInv, TableInv, NEW t \in Threads, RecordRecent(t)
    PROVE  TableInv'
<1> DEFINE longer == Append(recent_flows, th[t].id)
<1>1. /\ th[t].pc = "recent" /\ recent_flows' = (IF Len(longer) > RecentLimit THEN Tail(longer) ELSE longer)
      /\ Goto(t, "count") /\ UNCHANGED <<flows, flow_index, flow_order, locks, stats, clock>>
  BY DEF RecordRecent, At
<1>2. TableTypes /\ Entry(t) /\ th[t].id \in Ids /\ recent_flows \in Seq(Ids) /\ Len(recent_flows) <= RecentLimit
  <2>1. TableTypes /\ Entry(t)
    BY DEF TableInv
  <2>2. th[t].id \in 1..last_id /\ last_id \in 0..MaxIds
    BY <1>1, <2>1 DEF TableTypes, Entry
  <2>3. th[t].id \in Ids
    BY <2>2, FlowAssumption DEF Ids
  <2> QED
    BY <2>1, <2>3 DEF TableTypes
<1>3. Own(t) /\ th'[t].pc = "count" /\ th'[t].gone = th[t].gone
  BY <1>1, GotoFacts DEF Labels
<1>4. recent_flows' \in Seq(Ids) /\ Len(recent_flows') <= RecentLimit
  <2>1. longer \in Seq(Ids) /\ Len(longer) = Len(recent_flows) + 1 /\ Len(recent_flows) \in Nat /\ longer # <<>>
    BY <1>2, AppendProperties, LenProperties
  <2> HIDE DEF longer
  <2>2. Tail(longer) \in Seq(Ids) /\ Len(Tail(longer)) = Len(longer) - 1
    BY <2>1, HeadTailProperties
  <2> QED
    BY <1>1, <1>2, <2>1, <2>2, FlowAssumption
<1>5. TableTypes'
  BY <1>1, <1>2, <1>3, <1>4 DEF TableTypes, Own, locks, stats, clock
<1>6. Entry(t)' /\ ~Creating(t)' /\ t \in Uncounted /\ t \in Uncounted' /\ th[t].pc \notin Clearing
  BY <1>1, <1>2, <1>3 DEF Entry, Creating, Reserved, Removing, Clearing, Uncounted
<1>7. \A k \in Live : ~Popped(t, k)
  BY <1>1 DEF Popped
<1> QED
  BY <1>1, <1>3, <1>5, <1>6, <1>7, CalmStep DEF SameFlows, Live, stats, clock

LEMMA UnindexTable ==
    ASSUME IInv, TableInv, NEW t \in Threads, Unindex(t)
    PROVE  TableInv'
<1>1. /\ th[t].pc = "unindex" /\ flow_index' = [flow_index EXCEPT ![th[t].id] = None] /\ Goto(t, "sweep")
      /\ UNCHANGED <<flows, flow_order, recent_flows, locks, stats, clock>>
  BY DEF Unindex, At
<1>2. TableTypes /\ Entry(t) /\ Reach /\ Distinct /\ th[t].id \in th[t].gone
  BY <1>1 DEF TableInv, Entry
<1>3. /\ Own(t) /\ th'[t].pc = "sweep" /\ th'[t].gone = th[t].gone /\ th'[t].back = th[t].back /\ th'[t].key = th[t].key
  BY <1>1, GotoFacts DEF Labels
<1>4. TableTypes'
  <2>1. flow_index' \in [Ids -> Keys \cup {None}]
    BY <1>1, <1>2 DEF TableTypes
  <2> QED
    BY <1>1, <1>2, <1>3, <2>1 DEF TableTypes, Own, locks, stats, clock
<1>5. Entry(t)' /\ (t \in Uncounted <=> t \in Uncounted') /\ th[t].pc \notin Clearing
  BY <1>1, <1>2, <1>3 DEF Entry, Removing, Clearing, Uncounted
<1>6. Creating(t)' => Creating(t)
  BY <1>1, <1>3 DEF Creating, Reserved, Removing
<1>7. Reach'
  <2>1. Live' = Live /\ Once(flow_order)' /\ (SeqIds(flow_order) \subseteq 1..last_id)'
    BY <1>1, <1>2 DEF Live, Reach, Once, SeqIds, clock
  <2>2. ASSUME NEW k \in Live PROVE Indexed(k)' /\ Ordered(k)'
    <3>1. Indexed(k) /\ Ordered(k) /\ flows'[k] = flows[k] /\ flows[k].id # th[t].id /\ flows[k].id \in Ids
      BY <1>1, <1>2, LiveIds DEF Reach, Distinct
    <3>2. Indexed(k)'
      BY <1>1, <1>2, <1>3, <3>1 DEF Indexed, Own, TableTypes
    <3>3. \A u \in Threads : Popped(u, k) => Popped(u, k)'
      BY <1>1, <1>3, <3>1 DEF Popped, Own
    <3>4. Ordered(k)'
      BY <1>1, <1>3, <3>1, <3>3 DEF Ordered, Own, SeqIds
    <3> QED
      BY <3>2, <3>4
  <2> QED
    BY <2>1, <2>2 DEF Reach
<1>8. SeqIds(flow_order)' = SeqIds(flow_order)
  BY <1>1 DEF SeqIds
<1> QED
  BY <1>1, <1>3, <1>4, <1>5, <1>6, <1>7, <1>8, ContainerStep DEF stats, clock

LEMMA UnorderTable ==
    ASSUME IInv, TableInv, NEW t \in Threads, Unorder(t)
    PROVE  TableInv'
<1>1. /\ th[t].pc = "unorder" /\ flow_order' = Without(flow_order, th[t].gone) /\ Goto(t, "unrecent")
      /\ UNCHANGED <<flows, flow_index, recent_flows, locks, stats, clock>>
  BY DEF Unorder, At
<1>2. TableTypes /\ Entry(t) /\ Reach /\ Distinct /\ flow_order \in Seq(Ids)
  BY DEF TableInv, TableTypes
<1>3. /\ Own(t) /\ th'[t].pc = "unrecent" /\ th'[t].gone = th[t].gone /\ th'[t].back = th[t].back /\ th'[t].key = th[t].key
  BY <1>1, GotoFacts DEF Labels
<1>4. flow_order' \in Seq(Ids) /\ SeqIds(flow_order') = SeqIds(flow_order) \ th[t].gone /\ Once(flow_order')
  BY <1>1, <1>2, WithoutFacts DEF Reach
<1>5. SeqIds(flow_order)' = SeqIds(flow_order') /\ (Once(flow_order)' <=> Once(flow_order'))
  BY DEF SeqIds, Once
<1>6. TableTypes'
  BY <1>1, <1>2, <1>3, <1>4 DEF TableTypes, Own, locks, stats, clock
<1>7. Entry(t)' /\ (t \in Uncounted <=> t \in Uncounted') /\ th[t].pc \notin Clearing
  BY <1>1, <1>2, <1>3 DEF Entry, Removing, Clearing, Uncounted
<1>8. Creating(t)' => Creating(t)
  BY <1>1, <1>3 DEF Creating, Reserved, Removing
<1>9. Reach'
  <2>1. Live' = Live /\ (SeqIds(flow_order) \subseteq 1..last_id)'
    BY <1>1, <1>2, <1>4, <1>5 DEF Live, Reach, clock
  <2>2. ASSUME NEW k \in Live PROVE Indexed(k)' /\ Ordered(k)'
    <3>1. Indexed(k) /\ Ordered(k) /\ flows'[k] = flows[k] /\ flows[k].id \notin th[t].gone
      BY <1>1, <1>2 DEF Reach, Distinct
    <3>2. Indexed(k)'
      BY <1>1, <1>3, <3>1 DEF Indexed, Own
    <3>3. \A u \in Threads : Popped(u, k) => Popped(u, k)'
      BY <1>1, <1>3, <3>1 DEF Popped, Own
    <3>4. Ordered(k)'
      BY <1>1, <1>3, <1>4, <1>5, <3>1, <3>3 DEF Ordered, Own
    <3> QED
      BY <3>2, <3>4
  <2> QED
    BY <1>4, <1>5, <2>1, <2>2 DEF Reach
<1> QED
  BY <1>1, <1>3, <1>4, <1>5, <1>6, <1>7, <1>8, <1>9, ContainerStep DEF stats, clock

LEMMA UnrecentTable ==
    ASSUME IInv, TableInv, NEW t \in Threads, Unrecent(t)
    PROVE  TableInv'
<1>1. /\ th[t].pc = "unrecent" /\ recent_flows' = Without(recent_flows, th[t].gone) /\ Goto(t, "uncount")
      /\ UNCHANGED <<flows, flow_index, flow_order, locks, stats, clock>>
  BY DEF Unrecent, At
<1>2. TableTypes /\ Entry(t) /\ recent_flows \in Seq(Ids) /\ Len(recent_flows) \in Nat /\ Len(recent_flows) <= RecentLimit
  BY LenProperties DEF TableInv, TableTypes
<1>3. /\ Own(t) /\ th'[t].pc = "uncount" /\ th'[t].gone = th[t].gone /\ th'[t].back = th[t].back /\ th'[t].key = th[t].key
  BY <1>1, GotoFacts DEF Labels
<1>4. recent_flows' \in Seq(Ids) /\ Len(recent_flows') <= RecentLimit
  <2>1. recent_flows' \in Seq(Ids) /\ Len(recent_flows') <= Len(recent_flows)
    BY <1>1, <1>2, WithoutFacts
  <2>2. Len(recent_flows') \in Nat
    BY <2>1, LenProperties
  <2> QED
    BY <1>2, <2>1, <2>2, FlowAssumption
<1>5. TableTypes'
  BY <1>1, <1>2, <1>3, <1>4 DEF TableTypes, Own, locks, stats, clock
<1>6. Entry(t)' /\ (t \in Uncounted <=> t \in Uncounted') /\ th[t].pc \notin Clearing
  BY <1>1, <1>2, <1>3 DEF Entry, Removing, Clearing, Uncounted
<1>7. Creating(t)' => Creating(t)
  BY <1>1, <1>3 DEF Creating, Reserved, Removing
<1>8. \A k \in Live : ~Popped(t, k)
  BY <1>1 DEF Popped
<1> QED
  BY <1>1, <1>3, <1>5, <1>6, <1>7, <1>8, CalmStep DEF SameFlows, Live, stats, clock

\* Where a removal returns to.
LEMMA EndFacts ==
    ASSUME IInv, TableInv, NEW t \in Threads, th[t].pc \in {"sweep", "uncount"}, EndRemoval(t)
    PROVE  /\ Own(t) /\ th'[t].gone = {} /\ cleanup_lock' \in Threads \cup {None}
           /\ th'[t].pc \in {"idle", "lookup", "lock", "relookup", "enforce", "pop", "insert", "update", "remove"}
           /\ Creating(t)' => Creating(t)
           /\ th'[t].pc = "remove" => th'[t].key \in Keys
<1>1. TableTypes /\ Entry(t) /\ Returns(t) /\ th \in [Threads -> Caller] /\ th[t] \in Caller
  BY DEF TableInv, IInv, CallerInv, TableTypes
<1>2. PICK r : r = Resume(t)
  OBVIOUS
<1>3. /\ r \in {"idle", "lookup", "lock", "relookup", "enforce", "pop", "insert", "update", "remove"}
      /\ r \in {"lookup", "lock", "relookup", "enforce", "pop", "insert"} =>
             th[t].back \in {"lookup", "lock", "relookup", "enforce", "evict", "fallback"}
      /\ r = "remove" => th[t].back = "remove"
  BY <1>1, <1>2 DEF Resume, Returns
<1>4. /\ th' = [th EXCEPT ![t].pc = r, ![t].gone = {}, ![t].id = None, ![t].back = "idle",
                          ![t].key = IF r = "idle" THEN None ELSE @]
      /\ cleanup_lock' = IF cleanup_lock = t THEN None ELSE cleanup_lock
  BY <1>2 DEF EndRemoval
<1>5. PICK c : c = [th[t] EXCEPT !.pc = r, !.gone = {}, !.id = None, !.back = "idle",
                                 !.key = IF r = "idle" THEN None ELSE th[t].key]
  OBVIOUS
<1>6. /\ c \in Caller /\ c.pc = r /\ c.gone = {} /\ c.back = "idle" /\ (r # "idle" => c.key = th[t].key)
  <2>1. r \in Labels /\ "idle" \in Labels
    BY <1>3 DEF Labels
  <2>2. PICK k : k = (IF r = "idle" THEN None ELSE th[t].key) /\ k \in Keys \cup {None}
    BY <1>1 DEF Caller
  <2>3. c = [th[t] EXCEPT !.pc = r, !.gone = {}, !.id = None, !.back = "idle", !.key = k]
    BY <1>5, <2>2
  <2>4. c \in Caller /\ c.pc = r /\ c.gone = {} /\ c.back = "idle" /\ c.key = k
    BY <1>1, <2>1, <2>2, <2>3 DEF Caller
  <2> QED
    BY <2>2, <2>4
<1>7. th' = [th EXCEPT ![t] = c]
  BY <1>1, <1>4, <1>5 DEF Caller
<1>8. Own(t) /\ th'[t] = c
  BY <1>1, <1>6, <1>7 DEF Own
<1>9. Creating(t)' => Creating(t)
  BY <1>3, <1>6, <1>8 DEF Creating, Reserved, Removing
<1>10. r = "remove" => th[t].key \in Keys
  BY <1>1, <1>3 DEF Entry, Removing
<1> QED
  BY <1>1, <1>3, <1>4, <1>6, <1>8, <1>9, <1>10 DEF TableTypes

LEMMA RemovalDoneTable ==
    ASSUME IInv, TableInv, NEW t \in Threads, RemovalDone(t)
    PROVE  TableInv'
<1>1. th[t].pc = "sweep" /\ th[t].todo = {} /\ UNCHANGED <<table, insert_lock, stats, clock>>
  BY DEF RemovalDone, At
<1>2. TableTypes /\ Entry(t) /\ \A k \in Live : ~Popped(t, k)
  BY <1>1 DEF TableInv, Popped
<1>3. CASE th[t].gone = {}
  <2>1. EndRemoval(t)
    BY <1>3 DEF RemovalDone
  <2>2. /\ Own(t) /\ th'[t].gone = {} /\ cleanup_lock' \in Threads \cup {None}
        /\ th'[t].pc \in {"idle", "lookup", "lock", "relookup", "enforce", "pop", "insert", "update", "remove"}
        /\ Creating(t)' => Creating(t)
        /\ th'[t].pc = "remove" => th'[t].key \in Keys
    BY <1>1, <2>1, EndFacts
  <2>3. TableTypes'
    BY <1>1, <1>2, <2>2 DEF TableTypes, Own, table, stats, clock
  <2>4. Entry(t)' /\ (t \in Uncounted <=> t \in Uncounted') /\ th[t].pc \notin Clearing
    BY <1>1, <1>2, <2>2 DEF Entry, Removing, Clearing, Uncounted
  <2> QED
    BY <1>1, <1>2, <1>3, <2>2, <2>3, <2>4, CalmStep DEF SameFlows, Live, table, stats, clock
<1>4. CASE th[t].gone # {}
  <2>1. Goto(t, "unorder") /\ cleanup_lock' = cleanup_lock
    BY <1>4 DEF RemovalDone
  <2>2. /\ Own(t) /\ th'[t].pc = "unorder" /\ th'[t].gone = th[t].gone /\ th'[t].back = th[t].back /\ th'[t].key = th[t].key
    BY <2>1, GotoFacts DEF Labels
  <2>3. TableTypes'
    BY <1>1, <1>2, <2>1, <2>2 DEF TableTypes, Own, table, stats, clock
  <2>4. Entry(t)' /\ (t \in Uncounted <=> t \in Uncounted') /\ th[t].pc \notin Clearing
    BY <1>1, <1>2, <2>2 DEF Entry, Removing, Clearing, Uncounted
  <2>5. Creating(t)' => Creating(t)
    BY <1>1, <2>2 DEF Creating, Reserved, Removing
  <2> QED
    BY <1>1, <1>2, <2>2, <2>3, <2>4, <2>5, CalmStep DEF SameFlows, Live, table, stats, clock
<1> QED
  BY <1>3, <1>4

-----------------------------------------------------------------------------
(* The steps that change the flows or the statistics. *)

\* The removed flows are finitely many.
LEMMA GoneFinite ==
    ASSUME TableInv
    PROVE  IsFiniteSet(Gone) /\ Cardinality(Gone) \in Nat /\ Gone \subseteq 1..last_id
<1>1. Gone \subseteq 1..last_id
  BY DEF TableInv, Distinct, Gone
<1>2. last_id \in Int /\ 1 \in Int
  BY DEF TableInv, TableTypes
<1>3. IsFiniteSet(1..last_id)
  BY <1>2, FS_Interval
<1>4. IsFiniteSet(Gone)
  BY <1>1, <1>3, FS_Subset
<1> QED
  BY <1>1, <1>4, FS_CardinalityType

\* A flow leaves the table for the list of what its remover has removed.
LEMMA FlowLeaves ==
    ASSUME TableInv, NEW t \in Threads, NEW k \in Live, Own(t), flows' = [flows EXCEPT ![k] = None],
           th'[t].gone = th[t].gone \cup {flows[k].id}, Creating(t)' => Creating(t),
           t \in Uncounted <=> t \in Uncounted', UNCHANGED <<flow_order, created, closed, active, last_id>>
    PROVE  /\ Live' = Live \ {k} /\ \A j \in Live' : flows'[j] = flows[j]
           /\ Distinct' /\ Counters'
<1>1. TableTypes /\ Distinct /\ Counters /\ k \in Keys /\ flows[k].id \in 1..last_id /\ last_id \in Nat
  BY DEF TableInv, TableTypes, Live, Distinct
<1>2. Live' = Live \ {k} /\ \A j \in Live' : flows'[j] = flows[j]
  BY <1>1 DEF Live, TableTypes
<1>3. \A u \in Threads : u # t => th'[u].gone = th[u].gone
  BY DEF Own
<1>4. Distinct'
  <2>1. \A i, j \in Live' : flows'[i].id = flows'[j].id => i = j
    BY <1>1, <1>2 DEF Distinct
  <2>2. \A j \in Live' : flows'[j].id \in 1..last_id' /\ flows'[j].id # flows[k].id
    BY <1>1, <1>2 DEF Distinct
  <2>3. \A u \in Threads : th'[u].gone \subseteq 1..last_id' /\ \A j \in Live' : flows'[j].id \notin th'[u].gone
    BY <1>1, <1>2, <1>3, <2>2 DEF Distinct
  <2>4. \A u, v \in Threads : u # v => th'[u].gone \cap th'[v].gone = {}
    BY <1>1, <1>3 DEF Distinct
  <2> QED
    BY <2>1, <2>2, <2>3, <2>4 DEF Distinct
<1>5. Gone' = Gone \cup {flows[k].id} /\ flows[k].id \notin Gone
  BY <1>1, <1>3 DEF Gone, Distinct
<1>6. Cardinality(Gone') = Cardinality(Gone) + 1 /\ Cardinality(Gone) \in Nat
  BY <1>5, GoneFinite, FS_AddElement
<1>7. Cardinality(Live') = Cardinality(Live) - 1 /\ Cardinality(Live) \in Nat
  BY <1>2, LiveFinite, FS_RemoveElement
<1>8. Uncounted' = Uncounted
  BY DEF Uncounted, Own
<1>9. Cardinality(Ahead') <= Cardinality(Ahead)
  BY AheadShrinks
<1>10. Counters'
  <2>1. closed \in Nat /\ MaxIds \in Nat
    BY <1>1, FlowAssumption DEF TableTypes
  <2>2. closed + Cardinality(Live') + Cardinality(Gone') = last_id
    BY <1>1, <1>6, <1>7, <2>1 DEF Counters
  <2>3. last_id + Cardinality(Ahead') <= MaxIds
    BY <1>1, <1>9, <2>1, AheadFinite DEF Counters
  <2>4. th'[t].gone # {}
    OBVIOUS
  <2> QED
    BY <1>1, <1>8, <2>2, <2>3, <2>4 DEF Counters
<1> QED
  BY <1>2, <1>4, <1>10

LEMMA RemoveFlowTable ==
    ASSUME IInv, TableInv, NEW t \in Threads, RemoveFlow(t)
    PROVE  TableInv'
<1>1. PICK x \in th[t].todo :
        \/ /\ RemoveIf(x) /\ flows' = [flows EXCEPT ![x.key] = None]
           /\ th' = [th EXCEPT ![t].todo = @ \ {x}, ![t].gone = @ \cup {flows[x.key].id},
                               ![t].id = flows[x.key].id, ![t].pc = "unindex"]
        \/ /\ ~RemoveIf(x) /\ flows' = flows
           /\ th' = [th EXCEPT ![t].todo = @ \ {x}]
  BY DEF RemoveFlow
<1>2. th[t].pc = "sweep" /\ UNCHANGED <<flow_index, flow_order, recent_flows, locks, stats, clock>>
  BY DEF RemoveFlow, At
<1>3. /\ TableTypes /\ Entry(t) /\ Reach /\ th \in [Threads -> Caller] /\ th[t] \in Caller
      /\ x \in [key : Keys, stamp : 0..AnyStamp] /\ th[t].todo \in SUBSET [key : Keys, stamp : 0..AnyStamp]
  BY DEF TableInv, TableTypes, Caller
<1>4. CASE /\ RemoveIf(x) /\ flows' = [flows EXCEPT ![x.key] = None]
           /\ th' = [th EXCEPT ![t].todo = @ \ {x}, ![t].gone = @ \cup {flows[x.key].id},
                               ![t].id = flows[x.key].id, ![t].pc = "unindex"]
  <2>1. PICK k : k = x.key
    OBVIOUS
  <2>2. k \in Live /\ flows[k].id \in Ids
    BY <1>3, <1>4, <2>1, LiveIds DEF RemoveIf, Live
  <2>3. PICK c : c = [th[t] EXCEPT !.todo = th[t].todo \ {x}, !.gone = th[t].gone \cup {flows[k].id},
                                   !.id = flows[k].id, !.pc = "unindex"]
    OBVIOUS
  <2>4. /\ c \in Caller /\ c.gone = th[t].gone \cup {flows[k].id} /\ c.id = flows[k].id /\ c.pc = "unindex"
        /\ c.back = th[t].back /\ c.key = th[t].key
    <3>1. "unindex" \in Labels /\ th[t].gone \cup {flows[k].id} \in SUBSET Ids
      BY <1>3, <2>2 DEF Labels, Caller
    <3> QED
      BY <1>3, <2>2, <2>3, <3>1 DEF Caller
  <2>5. th' = [th EXCEPT ![t] = c]
    BY <1>3, <1>4, <2>1, <2>3 DEF Caller
  <2>6. Own(t) /\ th'[t] = c
    BY <1>3, <2>4, <2>5 DEF Own
  <2>7. (Creating(t)' => Creating(t)) /\ (t \in Uncounted <=> t \in Uncounted')
    BY <1>2, <2>4, <2>6 DEF Creating, Reserved, Removing, Uncounted
  <2>8. /\ Live' = Live \ {k} /\ (\A j \in Live' : flows'[j] = flows[j])
        /\ Distinct' /\ Counters'
    BY <1>2, <1>4, <2>1, <2>2, <2>4, <2>6, <2>7, FlowLeaves DEF stats, clock
  <2>9. TableTypes'
    <3>1. flows' \in [Keys -> [id : Ids, updated_at : 0..MaxTime] \cup {None}]
      BY <1>3, <1>4 DEF TableTypes
    <3> QED
      BY <1>2, <1>3, <2>6, <3>1 DEF TableTypes, Own, locks, stats, clock
  <2>10. Entry(t)'
    BY <1>2, <1>3, <2>4, <2>6 DEF Entry, Removing, Clearing
  <2>11. ASSUME NEW u \in Threads, u # t PROVE Entry(u)'
    <3>1. SeqIds(flow_order)' = SeqIds(flow_order)
      BY <1>2 DEF SeqIds
    <3>2. th'[u] = th[u] /\ Entry(u) /\ last_id' = last_id /\ last_id \in Nat
      BY <1>2, <2>6, <2>11 DEF Own, TableInv, TableTypes, clock
    <3>3. \A j \in Live' : j \in Live /\ flows'[j].id = flows[j].id
      BY <2>8
    <3> QED
      BY <1>3, <3>1, <3>2, <3>3, OthersEntry
  <2>12. Reach'
    <3>1. ASSUME NEW j \in Live' PROVE Indexed(j)' /\ Ordered(j)'
      <4>1. Indexed(j) /\ Ordered(j) /\ flows'[j] = flows[j] /\ j # k
        BY <1>3, <2>8, <3>1 DEF Reach
      <4>2. ~Popped(t, j)
        BY <1>2, <2>1, <4>1 DEF Popped
      <4>3. \A u \in Threads : u # t => (Popped(u, j) => Popped(u, j)')
        BY <2>6, <4>1 DEF Popped, Own
      <4>4. Indexed(j)'
        BY <1>2, <2>6, <4>1 DEF Indexed, Own
      <4>5. Ordered(j)'
        BY <1>2, <2>6, <4>1, <4>2, <4>3 DEF Ordered, Own, SeqIds
      <4> QED
        BY <4>4, <4>5
    <3> QED
      BY <1>2, <1>3, <3>1 DEF Reach, Once, SeqIds, clock
  <2> QED
    BY <2>8, <2>9, <2>10, <2>11, <2>12 DEF TableInv
<1>5. CASE ~RemoveIf(x) /\ flows' = flows /\ th' = [th EXCEPT ![t].todo = @ \ {x}]
  <2>1. PICK c : c = [th[t] EXCEPT !.todo = th[t].todo \ {x}]
    OBVIOUS
  <2>2. c \in Caller /\ c.pc = "sweep" /\ c.gone = th[t].gone /\ c.back = th[t].back /\ c.key = th[t].key
    BY <1>2, <1>3, <2>1 DEF Caller
  <2>3. th' = [th EXCEPT ![t] = c]
    BY <1>3, <1>5, <2>1 DEF Caller
  <2>4. Own(t) /\ th'[t] = c
    BY <1>3, <2>2, <2>3 DEF Own
  <2>5. /\ Creating(t)' => Creating(t)
        /\ t \in Uncounted <=> t \in Uncounted'
        /\ Entry(t)' /\ th[t].pc \notin Clearing
    BY <1>2, <1>3, <2>2, <2>4 DEF Creating, Reserved, Removing, Uncounted, Entry, Clearing
  <2>6. TableTypes'
    BY <1>2, <1>3, <1>5, <2>4 DEF TableTypes, Own, locks, stats, clock
  <2>7. \A j \in Live : ~Popped(t, j)
    BY <1>2, <1>5 DEF Popped, RemoveIf, Live
  <2> QED
    BY <1>2, <1>5, <2>2, <2>4, <2>5, <2>6, <2>7, CalmStep DEF SameFlows, Live, stats, clock
<1> QED
  BY <1>1, <1>4, <1>5

LEMMA ClearKeysTable ==
    ASSUME IInv, TableInv, NEW t \in Threads, ClearKeys(t)
    PROVE  TableInv'
<1>1. th[t].pc = "clearing" /\ UNCHANGED <<flow_index, flow_order, recent_flows, locks, stats, clock>>
  BY DEF ClearKeys, At
<1>2. TableTypes /\ Entry(t) /\ Reach /\ th \in [Threads -> Caller] /\ th[t] \in Caller
  BY DEF TableInv, TableTypes
<1>3. \A k \in Live : ~Popped(t, k)
  BY <1>1 DEF Popped
<1>4. CASE Live = {} /\ Goto(t, "clear_index") /\ flows' = flows
  <2>1. Own(t) /\ th'[t].pc = "clear_index" /\ th'[t].gone = th[t].gone
    BY <1>4, GotoFacts DEF Labels
  <2>2. TableTypes'
    BY <1>1, <1>2, <1>4, <2>1 DEF TableTypes, Own, locks, stats, clock
  <2>3. Entry(t)' /\ ~Creating(t)' /\ (t \in Uncounted <=> t \in Uncounted') /\ th'[t].pc \in Clearing
    BY <1>1, <1>2, <1>4, <2>1 DEF Entry, Creating, Reserved, Removing, Clearing, Uncounted, Live
  <2> QED
    BY <1>1, <1>3, <1>4, <2>1, <2>2, <2>3, CalmStep DEF SameFlows, Live, stats, clock
<1>5. ASSUME NEW k \in Live, flows' = [flows EXCEPT ![k] = None], th' = [th EXCEPT ![t].gone = @ \cup {flows[k].id}]
      PROVE  TableInv'
  <2>1. flows[k].id \in Ids /\ k \in Keys
    BY <1>2, LiveIds
  <2>2. Own(t) /\ th'[t].pc = "clearing" /\ th'[t].gone = th[t].gone \cup {flows[k].id} /\ th'[t].back = th[t].back
        /\ th'[t].key = th[t].key
    <3>1. PICK c : c = [th[t] EXCEPT !.gone = th[t].gone \cup {flows[k].id}]
      OBVIOUS
    <3>2. c \in Caller /\ c.pc = "clearing" /\ c.gone = th[t].gone \cup {flows[k].id} /\ c.back = th[t].back /\ c.key = th[t].key
      BY <1>1, <1>2, <2>1, <3>1 DEF Caller
    <3>3. th' = [th EXCEPT ![t] = c]
      BY <1>2, <1>5, <3>1 DEF Caller
    <3> QED
      BY <1>2, <3>2, <3>3 DEF Own
  <2>3. ~Creating(t)' /\ (t \in Uncounted <=> t \in Uncounted')
    BY <1>1, <2>2 DEF Creating, Reserved, Removing, Uncounted
  <2>4. /\ Live' = Live \ {k} /\ (\A j \in Live' : flows'[j] = flows[j])
        /\ Distinct' /\ Counters'
    BY <1>1, <1>5, <2>2, <2>3, FlowLeaves DEF stats, clock
  <2>5. TableTypes'
    <3>1. flows' \in [Keys -> [id : Ids, updated_at : 0..MaxTime] \cup {None}]
      BY <1>2, <1>5 DEF TableTypes
    <3> QED
      BY <1>1, <1>2, <2>2, <3>1 DEF TableTypes, Own, locks, stats, clock
  <2>6. Entry(t)'
    BY <2>2 DEF Entry, Removing, Clearing
  <2>7. ASSUME NEW u \in Threads, u # t PROVE Entry(u)'
    <3>1. SeqIds(flow_order)' = SeqIds(flow_order)
      BY <1>1 DEF SeqIds
    <3>2. th'[u] = th[u] /\ Entry(u) /\ last_id' = last_id /\ last_id \in Nat
      BY <1>1, <2>2, <2>7 DEF Own, TableInv, TableTypes, clock
    <3>3. \A j \in Live' : j \in Live /\ flows'[j].id = flows[j].id
      BY <2>4
    <3> QED
      BY <1>2, <3>1, <3>2, <3>3, OthersEntry
  <2>8. Reach'
    <3>1. ASSUME NEW j \in Live' PROVE Indexed(j)' /\ Ordered(j)'
      <4>1. Indexed(j) /\ Ordered(j) /\ flows'[j] = flows[j]
        BY <1>2, <2>4, <3>1 DEF Reach
      <4>2. ~Popped(t, j)
        BY <1>1 DEF Popped
      <4>3. \A u \in Threads : u # t => (Popped(u, j) => Popped(u, j)')
        BY <2>2, <4>1 DEF Popped, Own
      <4>4. Indexed(j)'
        BY <1>1, <2>2, <4>1 DEF Indexed, Own
      <4>5. Ordered(j)'
        BY <1>1, <2>2, <4>1, <4>2, <4>3 DEF Ordered, Own, SeqIds
      <4> QED
        BY <4>4, <4>5
    <3> QED
      BY <1>1, <1>2, <3>1 DEF Reach, Once, SeqIds, clock
  <2> QED
    BY <2>4, <2>5, <2>6, <2>7, <2>8 DEF TableInv
<1> QED
  BY <1>4, <1>5 DEF ClearKeys

\* A new flow, under an id nobody has seen: its key was free, and the callers
\* ahead of their insert leave an id for each of them.
LEMMA InsertTable ==
    ASSUME IInv, TableInv, NEW t \in Threads, Insert(t)
    PROVE  TableInv'
<1>1. PICK id : id = last_id + 1
  OBVIOUS
<1>2. PICK k : k = th[t].key
  OBVIOUS
<1>3. /\ th[t].pc = "insert" /\ last_id' = id /\ flows' = [flows EXCEPT ![k] = [id |-> id, updated_at |-> now]]
      /\ th' = [th EXCEPT ![t].id = id, ![t].pc = "index"]
      /\ UNCHANGED <<flow_index, flow_order, recent_flows, locks, stats, now>>
  BY <1>1, <1>2 DEF Insert, At
<1>4. /\ TableTypes /\ Entry(t) /\ Reach /\ Distinct /\ Counters /\ th \in [Threads -> Caller] /\ th[t] \in Caller
      /\ last_id \in Nat /\ MaxIds \in Nat /\ now \in 0..MaxTime
  BY FlowAssumption DEF TableInv, TableTypes
<1>5. k \in Keys /\ flows[k] = None /\ Creating(t) /\ k \notin Live
  BY <1>2, <1>3 DEF IInv, CallerInv, HasKey, KeyFree, Creating, Reserved, Live
<1>6. last_id + Cardinality(Ahead) <= MaxIds /\ t \in Ahead /\ Cardinality(Ahead) \in Nat
  BY <1>4, <1>5, AheadFinite DEF Counters, Ahead
<1>7. Cardinality(Ahead) >= 1 /\ Cardinality(Ahead \ {t}) = Cardinality(Ahead) - 1
  <2>1. IsFiniteSet(Ahead)
    BY AheadFinite
  <2>2. /\ IsFiniteSet(Ahead \ {t}) /\ Cardinality(Ahead \ {t}) = Cardinality(Ahead) - 1
    BY <1>6, <2>1, FS_RemoveElement
  <2>3. Cardinality(Ahead \ {t}) \in Nat
    BY <2>2, FS_CardinalityType
  <2> QED
    BY <1>6, <2>2, <2>3
<1>8. id \in Ids /\ id \in Nat /\ id = last_id + 1
  BY <1>1, <1>4, <1>6, <1>7 DEF Ids
<1>9. /\ Own(t) /\ th'[t].pc = "index" /\ th'[t].id = id /\ th'[t].gone = th[t].gone /\ th'[t].key = k
      /\ th[t].gone = {}
  <2>1. th' \in [Threads -> Caller]
    <3>1. "index" \in Labels
      BY DEF Labels
    <3>2. [th EXCEPT ![t].id = id, ![t].pc = "index"] \in [Threads -> Caller]
      BY <1>4, <1>8, <3>1, SetCaller
    <3> QED
      BY <1>3, <3>2
  <2>2. th[t].gone = {}
    BY <1>3, <1>4 DEF Entry, Removing, Clearing
  <2> QED
    BY <1>2, <1>3, <1>4, <2>1, <2>2 DEF Own, Caller
<1>10. PICK f : f = [id |-> id, updated_at |-> now]
  OBVIOUS
<1>11. f \in [id : Ids, updated_at : 0..MaxTime] /\ f.id = id /\ f # None
  BY <1>4, <1>8, <1>10, FlowIsSome
<1>12. /\ flows' = [flows EXCEPT ![k] = f] /\ flows \in [Keys -> [id : Ids, updated_at : 0..MaxTime] \cup {None}]
  BY <1>3, <1>4, <1>10 DEF TableTypes
<1>13. /\ flows' \in [Keys -> [id : Ids, updated_at : 0..MaxTime] \cup {None}]
       /\ flows'[k] = f /\ \A j \in Keys : j # k => flows'[j] = flows[j]
  BY <1>5, <1>11, <1>12
<1>14. Live' = Live \cup {k} /\ \A j \in Live : flows'[j] = flows[j] /\ j # k
  BY <1>5, <1>11, <1>13 DEF Live
<1>15. TableTypes'
  BY <1>3, <1>4, <1>8, <1>9, <1>13 DEF TableTypes, Own, locks, stats, Ids
<1>16. \A u \in Threads : u # t => th'[u] = th[u] /\ ~Holds(u)
  BY <1>3, <1>9, Alone DEF Own, Holds, Reserved
<1>17. \A n \in 1..last_id : n \in 1..id /\ n # id
  BY <1>4, <1>8
<1>18. id \in 1..id /\ SeqIds(flow_order) \subseteq 1..last_id /\ SeqIds(flow_order)' = SeqIds(flow_order)
  BY <1>3, <1>4, <1>8 DEF Reach, SeqIds
<1>19. Distinct'
  <2>1. \A j \in Live : flows[j].id \in 1..last_id
    BY <1>4 DEF Distinct
  <2>2. \A i, j \in Live' : flows'[i].id = flows'[j].id => i = j
    BY <1>4, <1>11, <1>13, <1>14, <1>17, <2>1 DEF Distinct
  <2>3. \A j \in Live' : flows'[j].id \in 1..last_id'
    BY <1>3, <1>11, <1>13, <1>14, <1>17, <1>18, <2>1
  <2>4. \A u \in Threads : th'[u].gone = th[u].gone /\ th[u].gone \subseteq 1..last_id
    BY <1>4, <1>9, <1>16 DEF Distinct
  <2>5. \A u \in Threads : th'[u].gone \subseteq 1..last_id' /\ \A j \in Live' : flows'[j].id \notin th'[u].gone
    <3> SUFFICES ASSUME NEW u \in Threads
                 PROVE  th'[u].gone \subseteq 1..last_id' /\ \A j \in Live' : flows'[j].id \notin th'[u].gone
      OBVIOUS
    <3>1. th'[u].gone \subseteq 1..last_id' /\ id \notin th'[u].gone
      BY <1>3, <1>17, <2>4
    <3>2. \A j \in Live : flows[j].id \notin th'[u].gone
      BY <1>4, <2>4 DEF Distinct
    <3> QED
      BY <1>11, <1>13, <1>14, <3>1, <3>2
  <2>6. \A u, v \in Threads : u # v => th'[u].gone \cap th'[v].gone = {}
    BY <1>4, <2>4 DEF Distinct
  <2> QED
    BY <2>2, <2>3, <2>5, <2>6 DEF Distinct
<1>20. Counters'
  <2>1. Ahead' = Ahead \ {t}
    <3>1. ~Creating(t)'
      BY <1>9 DEF Creating, Reserved, Removing
    <3>2. \A u \in Threads : u # t => (Creating(u)' <=> Creating(u))
      BY <1>16 DEF Creating, Reserved
    <3> QED
      BY <3>1, <3>2 DEF Ahead
  <2>2. Uncounted' = Uncounted \cup {t} /\ t \notin Uncounted
    BY <1>3, <1>9, <1>16 DEF Uncounted
  <2>3. Cardinality(Uncounted') = Cardinality(Uncounted) + 1 /\ Cardinality(Uncounted) \in Nat
    BY <2>2, AheadFinite, FS_AddElement
  <2>4. Cardinality(Live') = Cardinality(Live) + 1 /\ Cardinality(Live) \in Nat
    BY <1>5, <1>14, LiveFinite, FS_AddElement
  <2>5. Gone' = Gone /\ Cardinality(Gone) \in Nat
    <3>1. \A u \in Threads : th'[u].gone = th[u].gone
      BY <1>9, <1>16
    <3> QED
      BY <3>1, GoneFinite DEF Gone
  <2>6. created \in Nat /\ closed \in Nat /\ UNCHANGED <<created, closed, active>>
    BY <1>3, <1>4 DEF TableTypes, stats
  <2>7. last_id' + Cardinality(Ahead') <= MaxIds
    BY <1>3, <1>4, <1>6, <1>7, <1>8, <2>1
  <2>8. created' + Cardinality(Uncounted') = last_id'
    BY <1>3, <1>4, <1>8, <2>3, <2>6 DEF Counters
  <2>9. closed' + Cardinality(Live') + Cardinality(Gone') = last_id'
    BY <1>3, <1>4, <1>8, <2>4, <2>5, <2>6 DEF Counters
  <2>10. \E u \in Threads : th'[u].gone # {} \/ u \in Uncounted' \/ th'[u].pc \in Clearing
    BY <2>2
  <2> QED
    BY <2>7, <2>8, <2>9, <2>10 DEF Counters
<1>21. Entry(t)'
  <2>1. \A j \in Live' : flows'[j].id = id => j = k
    BY <1>4, <1>14, <1>17 DEF Distinct
  <2>2. id \in 1..last_id' /\ id \notin SeqIds(flow_order)'
    BY <1>3, <1>17, <1>18
  <2> QED
    BY <1>9, <2>1, <2>2 DEF Entry, Clearing, Removing
<1>22. ASSUME NEW u \in Threads, u # t PROVE Entry(u)'
  <2>1. th'[u] = th[u] /\ th[u].pc \notin {"index"} \cup Clearing /\ Entry(u)
    BY <1>16, <1>22 DEF Holds, Clearing, TableInv
  <2> QED
    BY <1>3, <1>4, <1>8, <1>18, <2>1, OthersEntry
<1>23. Reach'
  <2>1. ASSUME NEW j \in Live' PROVE Indexed(j)' /\ Ordered(j)'
    <3>1. CASE j = k
      BY <1>9, <1>11, <1>13, <3>1 DEF Indexed, Ordered
    <3>2. CASE j \in Live
      <4>1. Indexed(j) /\ Ordered(j) /\ flows'[j] = flows[j]
        BY <1>4, <1>14, <3>2 DEF Reach
      <4>2. \A u \in Threads : Popped(u, j) => Popped(u, j)'
        BY <1>3, <1>16, <4>1 DEF Popped
      <4>3. Indexed(j)'
        BY <1>3, <1>16, <4>1 DEF Indexed
      <4>4. Ordered(j)'
        BY <1>3, <1>16, <1>18, <4>1, <4>2 DEF Ordered
      <4> QED
        BY <4>3, <4>4
    <3> QED
      BY <1>14, <2>1, <3>1, <3>2
  <2>2. SeqIds(flow_order)' \subseteq 1..last_id'
    BY <1>3, <1>17, <1>18
  <2> QED
    BY <1>3, <1>4, <2>1, <2>2 DEF Reach, Once
<1> QED
  BY <1>15, <1>19, <1>20, <1>21, <1>22, <1>23 DEF TableInv

-----------------------------------------------------------------------------
(* The steps that count. *)

\* A step of t that counts what t did and leaves the containers alone.
LEMMA CountingStep ==
    ASSUME IInv, TableInv, NEW t \in Threads, Own(t), Entry(t)', UNCHANGED <<table, clock>>,
           insert_lock' \in Threads \cup {None}, cleanup_lock' \in Threads \cup {None},
           created' \in Nat, closed' \in Nat, th[t].pc \notin {"index", "order"},
           \A k \in Live : ~Popped(t, k), th'[t].gone = {}, Creating(t)' => Creating(t),
           created' + Cardinality(Uncounted') = last_id,
           closed' = closed + Cardinality(th[t].gone), active' = Cardinality(Live)
    PROVE  TableInv'
<1>1. TableTypes /\ Distinct /\ Counters /\ last_id \in Nat /\ closed \in Nat /\ MaxIds \in Nat
  BY FlowAssumption DEF TableInv, TableTypes
<1>2. UNCHANGED <<flows, flow_index, flow_order, recent_flows, now, last_id>> /\ Live' = Live /\ SameFlows
  BY DEF table, clock, Live, SameFlows
<1>3. Cardinality(Live) \in 0..MaxFlows /\ Cardinality(Live) \in Nat
  BY LiveFinite, FlowAssumption DEF IInv, CapacityRespected
<1>4. TableTypes'
  BY <1>1, <1>2, <1>3 DEF TableTypes, Own
<1>5. \A u \in Threads : u # t => th'[u] = th[u]
  BY DEF Own
<1>6. \A u \in Threads : th'[u].gone = IF u = t THEN {} ELSE th[u].gone
  BY <1>5
<1>7. Distinct'
  BY <1>1, <1>2, <1>6 DEF Distinct
<1>8. Gone' = Gone \ th[t].gone /\ th[t].gone \subseteq Gone
  BY <1>1, <1>6 DEF Gone, Distinct
<1>9. /\ Cardinality(Gone) = Cardinality(th[t].gone) + Cardinality(Gone') /\ Cardinality(Gone') \in Nat
      /\ Cardinality(th[t].gone) \in Nat
  <2>1. IsFiniteSet(Gone) /\ Cardinality(Gone) \in Nat
    BY GoneFinite
  <2>2. IsFiniteSet(th[t].gone) /\ IsFiniteSet(Gone')
    BY <1>8, <2>1, FS_Subset
  <2>3. Cardinality(th[t].gone) \in Nat /\ Cardinality(Gone') \in Nat
    BY <2>2, FS_CardinalityType
  <2>4. Gone = th[t].gone \cup Gone' /\ th[t].gone \cap Gone' = {}
    BY <1>8
  <2>5. Cardinality(th[t].gone \cap Gone') = 0
    BY <2>4, FS_EmptySet
  <2>6. Cardinality(th[t].gone \cup Gone') =
          Cardinality(th[t].gone) + Cardinality(Gone') - Cardinality(th[t].gone \cap Gone')
    BY <2>2, FS_Union
  <2>7. Cardinality(Gone) = Cardinality(th[t].gone) + Cardinality(Gone') - 0
    BY <2>4, <2>5, <2>6
  <2> QED
    BY <2>3, <2>7
<1>10. Counters'
  <2>1. last_id' + Cardinality(Ahead') <= MaxIds
    BY <1>1, <1>2, AheadShrinks, AheadFinite DEF Counters
  <2>2. closed' + Cardinality(Live') + Cardinality(Gone') = last_id'
    BY <1>1, <1>2, <1>3, <1>9 DEF Counters
  <2>3. created' + Cardinality(Uncounted') = last_id' /\ active' = Cardinality(Live')
    BY <1>2
  <2> QED
    BY <2>1, <2>2, <2>3 DEF Counters
<1>11. ASSUME NEW u \in Threads, u # t PROVE Entry(u)'
  BY <1>1, <1>2, <1>5, <1>11, OthersEntry DEF TableInv, SameFlows, SeqIds
<1>12. Reach'
  BY <1>2, ReachKept
<1> QED
  BY <1>4, <1>7, <1>10, <1>11, <1>12 DEF TableInv

\* A removal counts every flow it removed, and sets active to the length.
LEMMA UncountTable ==
    ASSUME IInv, TableInv, NEW t \in Threads, Uncount(t)
    PROVE  TableInv'
<1>1. /\ th[t].pc = "uncount" /\ closed' = closed + Cardinality(th[t].gone) /\ active' = Cardinality(Live)
      /\ EndRemoval(t) /\ UNCHANGED <<table, insert_lock, created, clock>>
  BY DEF Uncount, At
<1>2. /\ Own(t) /\ th'[t].gone = {} /\ cleanup_lock' \in Threads \cup {None}
      /\ th'[t].pc \in {"idle", "lookup", "lock", "relookup", "enforce", "pop", "insert", "update", "remove"}
      /\ Creating(t)' => Creating(t)
      /\ th'[t].pc = "remove" => th'[t].key \in Keys
  BY <1>1, EndFacts
<1>3. TableTypes /\ Counters /\ Distinct /\ insert_lock' \in Threads \cup {None} /\ created' \in Nat
  BY <1>1 DEF TableInv, TableTypes
<1>4. Entry(t)'
  BY <1>2 DEF Entry, Removing, Clearing
<1>5. Uncounted' = Uncounted
  BY <1>1, <1>2 DEF Uncounted, Own
<1>6. closed' \in Nat
  <2>1. th[t].gone \subseteq Gone
    BY DEF Gone
  <2>2. IsFiniteSet(th[t].gone)
    BY <2>1, GoneFinite, FS_Subset
  <2>3. Cardinality(th[t].gone) \in Nat
    BY <2>2, FS_CardinalityType
  <2> QED
    BY <1>1, <1>3, <2>3 DEF TableTypes
<1>7. \A k \in Live : ~Popped(t, k)
  BY <1>1 DEF Popped
<1>8. created' + Cardinality(Uncounted') = last_id
  BY <1>1, <1>3, <1>5 DEF Counters
<1> QED
  BY <1>1, <1>2, <1>3, <1>4, <1>6, <1>7, <1>8, CountingStep

\* A creation counts its flow, and sets active to the length.
LEMMA CountTable ==
    ASSUME IInv, TableInv, NEW t \in Threads, Count(t)
    PROVE  TableInv'
<1>1. /\ th[t].pc = "count" /\ created' = created + 1 /\ active' = Cardinality(Live) /\ insert_lock' = None
      /\ th' = [th EXCEPT ![t] = IdleCaller] /\ UNCHANGED <<table, cleanup_lock, closed, clock>>
  BY DEF Count, At
<1>2. Own(t) /\ th'[t].pc = "idle" /\ th'[t].gone = {}
  BY <1>1, RestFacts
<1>3. TableTypes /\ Counters /\ Entry(t) /\ created \in Nat /\ closed \in Nat /\ cleanup_lock' \in Threads \cup {None}
  BY <1>1 DEF TableInv, TableTypes
<1>4. Entry(t)' /\ ~Creating(t)' /\ th[t].gone = {}
  BY <1>1, <1>2, <1>3 DEF Entry, Removing, Clearing, Creating, Reserved
<1>5. Uncounted' = Uncounted \ {t} /\ t \in Uncounted
  BY <1>1, <1>2 DEF Uncounted, Own
<1>6. Cardinality(Uncounted') = Cardinality(Uncounted) - 1 /\ Cardinality(Uncounted) \in Nat
  BY <1>5, AheadFinite, FS_RemoveElement
<1>7. created' + Cardinality(Uncounted') = last_id
  BY <1>1, <1>3, <1>6 DEF Counters
<1>8. closed' = closed + Cardinality(th[t].gone)
  BY <1>1, <1>3, <1>4, FS_EmptySet
<1>9. \A k \in Live : ~Popped(t, k)
  BY <1>1 DEF Popped
<1>10. created' \in Nat /\ closed' \in Nat
  BY <1>1, <1>3
<1> QED
  BY <1>1, <1>2, <1>3, <1>4, <1>7, <1>8, <1>9, <1>10, CountingStep

\* clear counts what it removed; nobody could insert since.
LEMMA ClearCountTable ==
    ASSUME IInv, TableInv, NEW t \in Threads, ClearCount(t)
    PROVE  TableInv'
<1>1. /\ th[t].pc = "clear_count" /\ closed' = closed + Cardinality(th[t].gone) /\ active' = 0 /\ insert_lock' = None
      /\ th' = [th EXCEPT ![t] = IdleCaller] /\ UNCHANGED <<table, cleanup_lock, created, clock>>
  BY DEF ClearCount, At
<1>2. Own(t) /\ th'[t].pc = "idle" /\ th'[t].gone = {}
  BY <1>1, RestFacts
<1>3. TableTypes /\ Counters /\ Entry(t) /\ created \in Nat /\ closed \in Nat /\ cleanup_lock' \in Threads \cup {None}
  BY <1>1 DEF TableInv, TableTypes
<1>4. Entry(t)' /\ ~Creating(t)' /\ Live = {}
  BY <1>1, <1>2, <1>3 DEF Entry, Removing, Clearing, Creating, Reserved
<1>5. Uncounted' = Uncounted
  BY <1>1, <1>2 DEF Uncounted, Own
<1>6. closed' \in Nat
  <2>1. th[t].gone \subseteq Gone
    BY DEF Gone
  <2>2. IsFiniteSet(th[t].gone)
    BY <2>1, GoneFinite, FS_Subset
  <2>3. Cardinality(th[t].gone) \in Nat
    BY <2>2, FS_CardinalityType
  <2> QED
    BY <1>1, <1>3, <2>3
<1>7. \A k \in Live : ~Popped(t, k)
  BY <1>4
<1>8. created' + Cardinality(Uncounted') = last_id /\ active' = Cardinality(Live)
  BY <1>1, <1>3, <1>4, <1>5, FS_EmptySet DEF Counters
<1> QED
  BY <1>1, <1>2, <1>3, <1>4, <1>6, <1>7, <1>8, CountingStep

\* With no flow in the table, clear empties the containers.
LEMMA ClearTable ==
    ASSUME IInv, TableInv, NEW t \in Threads, ClearIndex(t) \/ ClearRecent(t) \/ ClearOrder(t)
    PROVE  TableInv'
<1>1. /\ th[t].pc \in {"clear_index", "clear_recent", "clear_order"} /\ UNCHANGED <<flows, locks, stats, clock>>
      /\ flow_index' \in {flow_index, [i \in Ids |-> None]}
      /\ flow_order' \in {flow_order, <<>>} /\ recent_flows' \in {recent_flows, <<>>}
      /\ \E label \in {"clear_recent", "clear_order", "clear_count"} : Goto(t, label)
  BY DEF ClearIndex, ClearRecent, ClearOrder, At
<1>2. PICK label \in {"clear_recent", "clear_order", "clear_count"} : Goto(t, label)
  BY <1>1
<1>3. Own(t) /\ th'[t].pc = label /\ th'[t].gone = th[t].gone
  BY <1>2, GotoFacts DEF Labels
<1>4. TableTypes /\ Entry(t) /\ Reach /\ Live = {} /\ Live' = {}
  <2>1. TableTypes /\ Entry(t) /\ Reach
    BY DEF TableInv
  <2>2. Live = {} /\ Live' = Live
    BY <1>1, <2>1 DEF Entry, Clearing, Live
  <2> QED
    BY <2>1, <2>2
<1>5. Len(<<>>) = 0 /\ <<>> \in Seq(Ids) /\ SeqIds(<<>>) = {} /\ Once(<<>>)
  <2>1. Len(<<>>) = 0 /\ <<>> \in Seq(Ids) /\ \A i : i \notin 1..0
    BY EmptySeq
  <2> QED
    BY <2>1 DEF SeqIds, Once
<1>6. TableTypes'
  <2>1. flow_index' \in [Ids -> Keys \cup {None}]
    BY <1>1, <1>4 DEF TableTypes
  <2>2. flow_order' \in Seq(Ids) /\ recent_flows' \in Seq(Ids) /\ Len(recent_flows') <= RecentLimit
    <3>1. RecentLimit \in Nat /\ 0 <= RecentLimit
      BY FlowAssumption
    <3>2. flow_order \in Seq(Ids) /\ recent_flows \in Seq(Ids) /\ Len(recent_flows) <= RecentLimit
      BY <1>4 DEF TableTypes
    <3>3. CASE recent_flows' = <<>>
      BY <1>1, <1>5, <3>1, <3>2, <3>3
    <3>4. CASE recent_flows' = recent_flows
      BY <1>1, <1>5, <3>2, <3>4
    <3> QED
      BY <1>1, <3>3, <3>4
  <2> QED
    BY <1>1, <1>3, <1>4, <2>1, <2>2 DEF TableTypes, Own, locks, stats, clock
<1>7. Entry(t)' /\ ~Creating(t)' /\ (t \in Uncounted <=> t \in Uncounted') /\ th'[t].pc \in Clearing
  BY <1>1, <1>3, <1>4 DEF Entry, Creating, Reserved, Removing, Clearing, Uncounted
<1>8. SeqIds(flow_order)' \subseteq SeqIds(flow_order) /\ Once(flow_order)'
  <2>1. CASE flow_order' = flow_order
    BY <1>4, <2>1 DEF Reach, Once, SeqIds
  <2>2. CASE flow_order' = <<>>
    BY <1>5, <2>2 DEF SeqIds, Once
  <2> QED
    BY <1>1, <2>1, <2>2
<1>9. Reach'
  BY <1>1, <1>4, <1>8 DEF Reach, clock
<1> QED
  BY <1>1, <1>3, <1>6, <1>7, <1>8, <1>9, ContainerStep DEF stats, clock

\* clear takes the lock.
LEMMA ClearLockTable ==
    ASSUME IInv, TableInv, NEW t \in Threads, TakeInsertLock(t, "clear", "clearing")
    PROVE  TableInv'
<1>1. th[t].pc = "clear" /\ insert_lock' = t /\ Goto(t, "clearing") /\ UNCHANGED <<table, cleanup_lock, stats, clock>>
  BY DEF TakeInsertLock, At
<1>2. Own(t) /\ th'[t].pc = "clearing" /\ th'[t].gone = th[t].gone
  BY <1>1, GotoFacts DEF Labels
<1>3. TableTypes /\ TableTypes'
  BY <1>1, <1>2 DEF TableInv, TableTypes, Own, table, stats, clock
<1>4. /\ Entry(t)' /\ ~Creating(t)' /\ (t \in Uncounted <=> t \in Uncounted')
      /\ th[t].pc \notin Clearing /\ \A k \in Live : ~Popped(t, k)
  BY <1>1, <1>2 DEF Entry, Creating, Reserved, Removing, Clearing, Uncounted, Popped
<1> QED
  BY <1>1, <1>2, <1>3, <1>4, CalmStep DEF SameFlows, Live, table, stats, clock

-----------------------------------------------------------------------------
\* Time passes, and nothing else does.
LEMMA TickTable ==
    ASSUME TableInv, Tick \/ UNCHANGED vars
    PROVE  TableInv'
<1>1. /\ UNCHANGED <<flows, flow_index, flow_order, recent_flows, insert_lock, cleanup_lock, created, closed, active,
                     last_id, th>>
      /\ now' \in 0..MaxTime
  <2>1. now \in 0..MaxTime /\ MaxTime \in Nat
    BY FlowAssumption DEF TableInv, TableTypes
  <2> QED
    BY <2>1 DEF Tick, vars, table, locks, stats
<1>2. Live' = Live /\ Uncounted' = Uncounted /\ Gone' = Gone /\ SeqIds(flow_order)' = SeqIds(flow_order)
  BY <1>1 DEF Live, Uncounted, Gone, SeqIds
<1>3. Ahead' = Ahead
  BY <1>1 DEF Ahead, Creating, Reserved
<1>4. TableTypes'
  BY <1>1 DEF TableInv, TableTypes
<1>5. \A t \in Threads : Entry(t)'
  BY <1>1, <1>2 DEF TableInv, Entry
<1>6. Distinct' /\ Counters'
  BY <1>1, <1>2, <1>3 DEF TableInv, Distinct, Counters
<1>7. Reach'
  BY <1>1, <1>2 DEF TableInv, Reach, Once, Indexed, Ordered, Popped
<1> QED
  BY <1>4, <1>5, <1>6, <1>7 DEF TableInv

\* The table starts empty and nobody owes anything.
LEMMA InitTable == Init => TableInv
<1> SUFFICES ASSUME Init PROVE TableInv
  OBVIOUS
<1>1. Len(<<>>) = 0 /\ <<>> \in Seq(Ids) /\ SeqIds(<<>>) = {} /\ Once(<<>>)
  <2>1. Len(<<>>) = 0 /\ <<>> \in Seq(Ids) /\ \A i : i \notin 1..0
    BY EmptySeq
  <2> QED
    BY <2>1 DEF SeqIds, Once
<1>2. IdleCaller \in Caller /\ IdleCaller.pc = "idle" /\ IdleCaller.gone = {}
  BY DEF IdleCaller, Caller, Labels
<1>3. \A t \in Threads : th[t] = IdleCaller
  BY DEF Init
<1>4. Live = {} /\ Uncounted = {} /\ Gone = {} /\ Ahead = {}
  BY <1>2, <1>3 DEF Init, Live, Uncounted, Gone, Ahead, Creating, Reserved, Removing
<1>5. TableTypes
  <2>1. th \in [Threads -> Caller]
    BY <1>2 DEF Init
  <2>2. 0 \in 0..MaxFlows /\ 0 \in 0..MaxTime /\ 0 \in 0..MaxIds /\ 0 <= RecentLimit
    BY FlowAssumption
  <2> QED
    BY <1>1, <2>1, <2>2 DEF Init, TableTypes
<1>6. \A t \in Threads : Entry(t)
  BY <1>2, <1>3 DEF Entry, Removing, Clearing
<1>7. Distinct
  BY <1>2, <1>3, <1>4 DEF Distinct
<1>8. Counters
  BY <1>4, FS_EmptySet, FlowAssumption DEF Counters, Init
<1>9. Reach
  BY <1>1, <1>4 DEF Reach, Init
<1> QED
  BY <1>5, <1>6, <1>7, <1>8, <1>9 DEF TableInv

LEMMA StepTable == IInv /\ TableInv /\ [Next]_vars => TableInv'
<1> SUFFICES ASSUME IInv, TableInv, [Next]_vars PROVE TableInv'
  OBVIOUS
<1>1. CASE Tick \/ UNCHANGED vars
  BY <1>1, TickTable
<1>2. ASSUME NEW t \in Threads, Call(t) \/ cleanup_expired_internal(t) \/ Step(t)
      PROVE  TableInv'
  <2>1. CASE get_or_create(t)
    <3>1. CASE At(t, "locked") /\ maybe_cleanup(t, th[t].key, "relookup")
      <4>1. th[t].key \in Keys
        BY <3>1 DEF At, IInv, CallerInv, HasKey, Creating
      <4> QED
        BY <3>1, <4>1, MaybeCleanupTable DEF At
    <3> QED
      BY <2>1, <3>1, LookupTable, LockTable, PopOldestTable, EvictKeyTable, InsertTable, IndexTable,
         RecordOrderTable, RecordRecentTable, CountTable DEF get_or_create
  <2>2. CASE update(t) \/ remove(t) \/ cleanup_expired_internal(t) \/ Call(t)
    BY <2>2, UpdateTable, SweepTable, CallTable
  <2>3. CASE clear(t)
    BY <2>3, ClearLockTable, ClearKeysTable, ClearTable, ClearCountTable DEF clear
  <2>4. CASE Removal(t)
    BY <2>4, RemoveFlowTable, UnindexTable, RemovalDoneTable, UnorderTable, UnrecentTable, UncountTable DEF Removal
  <2> QED
    BY <1>2, <2>1, <2>2, <2>3, <2>4 DEF Step
<1> QED
  BY <1>1, <1>2 DEF Next

\* What every caller owes is accounted for throughout.
THEOREM TableInvariance == Spec => [](IInv /\ TableInv)
<1>1. Init => IInv /\ TableInv
  BY InitInv, InitTable
<1>2. IInv /\ TableInv /\ [Next]_vars => (IInv /\ TableInv)'
  BY StepInv, StepTable
<1> QED
  BY <1>1, <1>2, PTL DEF Spec

\* When nobody is between two containers, nothing is owed.
LEMMA NothingOwed == IInv /\ TableInv => IndexesAgree
<1> SUFFICES ASSUME IInv, TableInv PROVE IndexesAgree
  OBVIOUS
<1>1. TableTypes /\ Counters /\ Reach /\ Distinct
  BY DEF TableInv
<1>2. /\ created \in Nat /\ closed \in Nat /\ last_id \in 0..MaxIds /\ MaxIds \in Nat
      /\ Cardinality(Live) \in Nat /\ Cardinality(Gone) \in Nat /\ Cardinality(Uncounted) \in Nat
  BY <1>1, LiveFinite, GoneFinite, AheadFinite, FlowAssumption DEF TableTypes
<1>3. TypeOK
  <2>1. created \in 0..MaxIds /\ closed \in 0..MaxIds
    BY <1>1, <1>2 DEF Counters
  <2>2. SeqIds(flow_order) \subseteq Ids /\ SeqIds(recent_flows) \subseteq Ids
    <3>1. \A i \in 1..Len(flow_order) : flow_order[i] \in Ids
      BY <1>1, ElementOfSeq DEF TableTypes
    <3>2. \A i \in 1..Len(recent_flows) : recent_flows[i] \in Ids
      BY <1>1, ElementOfSeq DEF TableTypes
    <3> QED
      BY <3>1, <3>2 DEF SeqIds
  <2> QED
    BY <1>1, <2>1, <2>2 DEF TypeOK, TableTypes
<1>4. StatsBalance
  <2> SUFFICES ASSUME Quiet PROVE created = closed + Cardinality(Live) /\ active = Cardinality(Live)
    BY DEF StatsBalance
  <2>1. \A t \in Threads : th[t].pc = "idle" /\ th[t].gone = {}
    BY DEF Quiet, At, TableInv, Entry, Removing, Clearing
  <2>2. Gone = {} /\ Uncounted = {}
    BY <2>1 DEF Gone, Uncounted
  <2>3. Cardinality(Gone) = 0 /\ Cardinality(Uncounted) = 0
    BY <2>2, FS_EmptySet
  <2>4. active = Cardinality(Live)
    BY <1>1, <2>1, <2>2 DEF Counters, Clearing
  <2> QED
    BY <1>1, <1>2, <2>3, <2>4 DEF Counters
<1>5. FlowIsReachable
  <2> SUFFICES ASSUME insert_lock = None, NEW k \in Live
               PROVE  /\ flow_index[flows[k].id] = k
                      /\ Cardinality({i \in 1..Len(flow_order) : flow_order[i] = flows[k].id}) = 1
    BY DEF FlowIsReachable
  <2>1. \A t \in Threads : ~Holds(t)
    BY FlowAssumption DEF IInv, CallerInv, Mutex
  <2>2. \A t \in Threads : th[t].pc \notin {"index", "order"} /\ ~Popped(t, k)
    BY <2>1 DEF Holds, Reserved, Removing, Popped
  <2>3. flow_index[flows[k].id] = k /\ flows[k].id \in SeqIds(flow_order)
    BY <1>1, <2>2 DEF Reach, Indexed, Ordered
  <2>4. PICK i \in 1..Len(flow_order) : flow_order[i] = flows[k].id
    BY <2>3 DEF SeqIds
  <2>5. {j \in 1..Len(flow_order) : flow_order[j] = flows[k].id} = {i}
    BY <1>1, <2>4 DEF Reach, Once
  <2> QED
    BY <2>3, <2>5, FS_Singleton
<1> QED
  BY <1>3, <1>4, <1>5 DEF IndexesAgree

\* Whatever creations, removals, sweeps, evictions and clears overlap, the
\* containers of the flow manager agree when the callers are done with them:
\* every flow was counted once as created and once as closed, active_flows is
\* the length of the table, and each flow is found by its id and has exactly
\* one turn in the eviction order (get_or_create, remove_internal,
\* remove_expired_keys and clear take one lock after the other).
THEOREM ContainersAgree == Spec => []IndexesAgree
BY NothingOwed, TableInvariance, PTL
=============================================================================
