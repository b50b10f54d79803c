--------------------------- MODULE WinDivert_proofs ---------------------------
(***************************************************************************)
(* The flow table of the rewriting interceptor is sound for every set of   *)
(* frames, every list of rules and every limit, however long it runs.      *)
(*                                                                         *)
(* The maps and the queue change one after the other, so the properties of *)
(* a table are stated for a value t of it and carried through each         *)
(* operation: EntriesOk and MapsInverse of the two maps, QueueOk of the    *)
(* queue, Covered of the two together.  MapsInverse is more than           *)
(* TablesAgree: a reverse key is the one its flow has, not only one with   *)
(* the same listener, or remove could leave it behind.                     *)
(***************************************************************************)
EXTENDS WinDivert, FiniteSetTheorems, SequenceTheorems, WellFoundedInduction, TLAPS

FlowKey(p) == [proto |-> p.proto, client |-> <<p.src, p.sport>>, dest |-> <<p.dst, p.dport>>]
FlowKeys == {FlowKey(packet_metadata(x.f)) : x \in {y \in Frames : packet_metadata(y.f).proto \in {"tcp", "udp"}}}
Uses == [at : Nat, key : FlowKeys]

TableShape(t) == t = [entries |-> t.entries, reverse |-> t.reverse, expiry |-> t.expiry]

EntriesOk(t, time) ==
    /\ IsFiniteSet(DOMAIN t.entries) /\ DOMAIN t.entries \subseteq FlowKeys
    /\ \A k \in DOMAIN t.entries :
         /\ t.entries[k] = [listener |-> t.entries[k].listener, at |-> t.entries[k].at]
         /\ t.entries[k].at \in Nat /\ t.entries[k].at <= time /\ t.entries[k].listener # 0

MapsInverse(t) ==
    /\ \A k \in DOMAIN t.entries :
         /\ reverse_key(k, t.entries[k].listener) \in DOMAIN t.reverse
         /\ t.reverse[reverse_key(k, t.entries[k].listener)] = k
    /\ \A r \in DOMAIN t.reverse :
         /\ t.reverse[r] \in DOMAIN t.entries
         /\ r = reverse_key(t.reverse[r], t.entries[t.reverse[r]].listener)

QueueOk(t, time) ==
    /\ t.expiry \in Seq(Uses)
    /\ \A i \in 1..Len(t.expiry) : t.expiry[i].at <= time
    /\ \A i, j \in 1..Len(t.expiry) : i < j => t.expiry[i].at <= t.expiry[j].at

\* Each flow outside keys is in the queue after its first m entries.
CoveredAfter(t, keys, m) ==
    \A k \in DOMAIN t.entries \ keys :
      \E i \in 1..Len(t.expiry) : i > m /\ t.expiry[i] = [at |-> t.entries[k].at, key |-> k]

TableOk(t, time) ==
    TableShape(t) /\ EntriesOk(t, time) /\ MapsInverse(t) /\ QueueOk(t, time) /\ CoveredAfter(t, {}, 0)

\* What a reply will be given was contacted.
Contacted(t, c) == \A r \in DOMAIN t.reverse : r \in DOMAIN c /\ c[r] = t.reverse[r].dest

DivertInv ==
    /\ rx \in {"idle", "waiting", "failed"} /\ lock \in {"free", "rx"}
    /\ now \in 0..MaxTime /\ packets \in 0..MaxPackets
    /\ TableOk(table, now) /\ Cardinality(DOMAIN table.entries) <= MAX_REDIRECT_FLOWS
    /\ Contacted(table, contact) /\ ReplyComesFromContacted

-----------------------------------------------------------------------------
\* Every set of natural numbers has a least element.
LEMMA LeastNumber ==
    ASSUME NEW T, T \subseteq Nat, T # {}
    PROVE  \E n \in T : \A m \in T : n <= m
<1>1. PICK R : R = OpToRel(<, Nat)
  OBVIOUS
<1>2. PICK x \in T : \A y \in T : ~ (<<y, x>> \in R)
  BY <1>1, WFMin, NatLessThanWellFounded
<1>3. R = {ss \in Nat \X Nat : ss[1] < ss[2]}
  BY <1>1, Zenon DEF OpToRel
<1>4. \A y \in T : ~(y < x) /\ y \in Nat /\ x \in Nat
  <2>1. \A v, w \in Nat : <<w, v>> \in R <=> w < v
    BY <1>3
  <2> QED
    BY <1>2, <2>1
<1> QED
  BY <1>4

\* A set of positions that holds with each position those before it is an
\* interval that begins with the first: Cardinality counts a prefix.
LEMMA PrefixIsInterval ==
    ASSUME NEW n \in Nat, NEW S \in SUBSET (1..n), \A i \in S : 1..i \subseteq S
    PROVE  Cardinality(S) \in 0..n /\ S = 1..Cardinality(S)
<1>1. PICK out : out = {i \in 1..(n + 1) : i \notin S}
  OBVIOUS
<1>2. n + 1 \in out /\ out \subseteq Nat
  BY <1>1
<1>3. PICK m \in out : \A i \in out : m <= i
  BY <1>2, LeastNumber
<1>4. m \in 1..(n + 1) /\ m \notin S
  BY <1>1
<1>5. S = 1..(m - 1)
  <2>1. ASSUME NEW i \in 1..(m - 1) PROVE i \in S
    <3>1. i \notin out /\ i \in 1..(n + 1)
      BY <1>3, <1>4, <2>1
    <3> QED
      BY <1>1, <3>1
  <2>2. ASSUME NEW i \in S PROVE i \in 1..(m - 1)
    <3>1. ~(m <= i)
      <4>1. SUFFICES ASSUME m <= i PROVE FALSE
        OBVIOUS
      <4>2. m \in 1..i
        BY <1>4, <2>2, <4>1
      <4> QED
        BY <1>4, <2>2, <4>2
    <3> QED
      BY <1>4, <2>2, <3>1
  <2> QED
    BY <2>1, <2>2
<1>6. Cardinality(1..(m - 1)) = m - 1
  <2>1. 1 \in Int /\ m - 1 \in Int
    BY <1>4
  <2> QED
    BY <1>4, <2>1, FS_Interval
<1> QED
  BY <1>4, <1>5, <1>6

-----------------------------------------------------------------------------
(* remove and RemoveAll. *)

\* The maps of u are those of t without keys.
Without(u, t, keys) ==
    /\ u.expiry = t.expiry /\ DOMAIN u.entries = DOMAIN t.entries \ keys
    /\ \A k \in DOMAIN u.entries : u.entries[k] = t.entries[k]
    /\ DOMAIN u.reverse \subseteq DOMAIN t.reverse /\ \A r \in DOMAIN u.reverse : u.reverse[r] = t.reverse[r]

\* Flows that are removed take their reverse entries with them, and no others.
LEMMA RemoveAllKeeps ==
    ASSUME NEW t, NEW time, TableShape(t), EntriesOk(t, time), MapsInverse(t), NEW keys, NEW u, u = RemoveAll(t, keys)
    PROVE  TableShape(u) /\ EntriesOk(u, time) /\ MapsInverse(u) /\ Without(u, t, keys)
<1>1. PICK R : R = {r \in DOMAIN t.reverse : ~(/\ t.reverse[r] \in keys \cap DOMAIN t.entries
                                               /\ r = reverse_key(t.reverse[r], t.entries[t.reverse[r]].listener))}
  OBVIOUS
<1>2. R = {r \in DOMAIN t.reverse : t.reverse[r] \notin keys}
  BY <1>1 DEF MapsInverse
<1>3. u = [t EXCEPT !.entries = Restrict(t.entries, DOMAIN t.entries \ keys), !.reverse = Restrict(t.reverse, R)]
  BY <1>1 DEF RemoveAll
<1>4. /\ TableShape(u) /\ u.expiry = t.expiry
      /\ u.entries = Restrict(t.entries, DOMAIN t.entries \ keys) /\ u.reverse = Restrict(t.reverse, R)
  BY <1>3 DEF TableShape
<1>5. /\ DOMAIN u.entries = DOMAIN t.entries \ keys /\ (\A k \in DOMAIN u.entries : u.entries[k] = t.entries[k])
      /\ DOMAIN u.reverse = R /\ \A r \in R : u.reverse[r] = t.reverse[r]
  BY <1>4 DEF Restrict
<1>6. EntriesOk(u, time)
  <2>1. IsFiniteSet(DOMAIN t.entries \ keys)
    BY FS_Difference DEF EntriesOk
  <2> QED
    BY <1>5, <2>1 DEF EntriesOk
<1>7. MapsInverse(u)
  BY <1>2, <1>5 DEF MapsInverse
<1> QED
  BY <1>2, <1>4, <1>5, <1>6, <1>7 DEF Without

\* remove is RemoveAll of one flow.
LEMMA RemoveIsAll ==
    ASSUME NEW t, NEW time, TableShape(t), EntriesOk(t, time), MapsInverse(t), NEW key, NEW u, u = remove(t, key)
    PROVE  TableShape(u) /\ EntriesOk(u, time) /\ MapsInverse(u) /\ Without(u, t, {key})
<1>1. CASE key \notin DOMAIN t.entries
  <2>1. u = t
    BY <1>1 DEF remove
  <2> QED
    BY <1>1, <2>1 DEF Without
<1>2. CASE key \in DOMAIN t.entries
  <2>1. PICK r : r = reverse_key(key, t.entries[key].listener)
    OBVIOUS
  <2>2. r \in DOMAIN t.reverse /\ t.reverse[r] = key
    BY <1>2, <2>1 DEF MapsInverse
  <2>3. u = [t EXCEPT !.entries = Restrict(t.entries, DOMAIN t.entries \ {key}),
                      !.reverse = Restrict(t.reverse, DOMAIN t.reverse \ {r})]
    BY <1>2, <2>1, <2>2 DEF remove
  <2>4. TableShape(u) /\ u.expiry = t.expiry /\ u.entries = Restrict(t.entries, DOMAIN t.entries \ {key})
        /\ u.reverse = Restrict(t.reverse, DOMAIN t.reverse \ {r})
    BY <2>3 DEF TableShape
  <2>5. /\ DOMAIN u.entries = DOMAIN t.entries \ {key} /\ (\A k \in DOMAIN u.entries : u.entries[k] = t.entries[k])
        /\ DOMAIN u.reverse = DOMAIN t.reverse \ {r} /\ \A s \in DOMAIN u.reverse : u.reverse[s] = t.reverse[s]
    BY <2>4 DEF Restrict
  <2>6. EntriesOk(u, time)
    <3>1. IsFiniteSet(DOMAIN t.entries \ {key})
      BY FS_Difference DEF EntriesOk
    <3> QED
      BY <2>5, <3>1 DEF EntriesOk
  <2>7. \A s \in DOMAIN t.reverse : t.reverse[s] = key => s = r
    BY <2>1 DEF MapsInverse
  <2>8. MapsInverse(u)
    BY <2>2, <2>5, <2>7 DEF MapsInverse
  <2> QED
    BY <2>4, <2>5, <2>6, <2>8 DEF Without
<1> QED
  BY <1>1, <1>2

\* The queue without its first m entries covers what it covered after them.
LEMMA ShorterQueue ==
    ASSUME NEW t, NEW time, QueueOk(t, time), NEW m \in 0..Len(t.expiry), NEW keys, CoveredAfter(t, keys, m),
           NEW u, u.expiry = SubSeq(t.expiry, m + 1, Len(t.expiry)),
           DOMAIN u.entries = DOMAIN t.entries \ keys, \A k \in DOMAIN u.entries : u.entries[k] = t.entries[k]
    PROVE  QueueOk(u, time) /\ CoveredAfter(u, {}, 0)
<1>1. PICK q, n : q = t.expiry /\ n = Len(t.expiry)
  OBVIOUS
<1>2. q \in Seq(Uses) /\ n \in Nat /\ m \in 0..n /\ \A i \in 1..n : q[i] \in Uses
  BY <1>1, LenProperties, ElementOfSeq DEF QueueOk
<1>3. PICK s : s = u.expiry
  OBVIOUS
<1>4. s \in Seq(Uses) /\ Len(s) = n - m /\ \A i \in 1..(n - m) : s[i] = q[m + i]
  <2>1. /\ SubSeq(q, m + 1, n) \in Seq(Uses) /\ Len(SubSeq(q, m + 1, n)) = IF m + 1 <= n THEN n - (m + 1) + 1 ELSE 0
        /\ \A i \in 1..(n - (m + 1) + 1) : SubSeq(q, m + 1, n)[i] = q[m + 1 + i - 1]
    <3>1. m + 1 \in Int /\ n \in Int /\ \A i \in (m + 1)..n : q[i] \in Uses
      BY <1>2
    <3> QED
      BY <3>1, SubSeqProperties
  <2>2. s = SubSeq(q, m + 1, n)
    BY <1>1, <1>3
  <2>3. (\A i \in Int : m + 1 + i - 1 = m + i) /\ n - (m + 1) + 1 = n - m
    BY <1>2
  <2>4. Len(s) = n - m
    BY <1>2, <2>1, <2>2
  <2>5. \A i \in 1..(n - m) : s[i] = q[m + 1 + i - 1] /\ i \in Int
    BY <1>2, <2>1, <2>2, <2>3
  <2>6. ASSUME NEW i \in 1..(n - m) PROVE s[i] = q[m + i]
    <3>1. m + 1 + i - 1 = m + i
      BY <1>2, <2>3
    <3> QED
      BY <2>5, <3>1
  <2> QED
    BY <2>1, <2>2, <2>4, <2>6
<1>5. QueueOk(u, time)
  <2>1. \A i \in 1..(n - m) : m + i \in 1..n /\ m + i > m
    BY <1>2
  <2>2. \A i \in 1..(n - m) : s[i].at <= time
    BY <1>1, <1>4, <2>1 DEF QueueOk
  <2>3. \A i, j \in 1..(n - m) : i < j => s[i].at <= s[j].at
    <3>1. \A i, j \in 1..(n - m) : i < j => m + i < m + j
      BY <1>2
    <3> QED
      BY ZenonT(60), <1>1, <1>4, <2>1, <3>1 DEF QueueOk
  <2> QED
    BY <1>3, <1>4, <2>2, <2>3 DEF QueueOk
<1>6. CoveredAfter(u, {}, 0)
  <2> SUFFICES ASSUME NEW k \in DOMAIN u.entries
               PROVE  \E i \in 1..Len(u.expiry) : i > 0 /\ u.expiry[i] = [at |-> u.entries[k].at, key |-> k]
    BY DEF CoveredAfter
  <2>1. PICK i \in 1..n : i > m /\ q[i] = [at |-> u.entries[k].at, key |-> k]
    BY <1>1 DEF CoveredAfter
  <2>2. PICK j \in 1..(n - m) : m + j = i /\ j > 0
    <3>1. i - m \in 1..(n - m) /\ m + (i - m) = i /\ i - m > 0
      BY <1>2, <2>1
    <3> QED
      BY <3>1
  <2>3. s[j] = q[i] /\ j \in 1..Len(u.expiry)
    BY <1>3, <1>4, <2>2
  <2> QED
    BY <1>3, <2>1, <2>2, <2>3
<1> QED
  BY <1>5, <1>6

-----------------------------------------------------------------------------
(* The operations of the table. *)

\* prune removes only flows that are idle, and all whose last use left the queue.
LEMMA PruneKeeps ==
    ASSUME NEW t, NEW time \in Nat, TableOk(t, time), NEW u, u = prune(t, time)
    PROVE  /\ TableOk(u, time) /\ DOMAIN u.entries \subseteq DOMAIN t.entries
           /\ \A k \in DOMAIN u.entries : u.entries[k] = t.entries[k]
           /\ DOMAIN u.reverse \subseteq DOMAIN t.reverse /\ (\A r \in DOMAIN u.reverse : u.reverse[r] = t.reverse[r])
           /\ \A k \in DOMAIN t.entries \ DOMAIN u.entries : time - t.entries[k].at >= REDIRECT_FLOW_IDLE_TIMEOUT
<1>1. PICK P : P = {i \in DOMAIN t.expiry : \A j \in 1 .. i : time - t.expiry[j].at >= REDIRECT_FLOW_IDLE_TIMEOUT}
  OBVIOUS
<1>2. PICK n : n = Cardinality(P)
  OBVIOUS
<1>3. PICK len : len = Len(t.expiry)
  OBVIOUS
<1>4. t.expiry \in Seq(Uses) /\ len \in Nat /\ DOMAIN t.expiry = 1..len /\ \A i \in 1..len : t.expiry[i] \in Uses
  BY <1>3, LenProperties, ElementOfSeq DEF TableOk, QueueOk
<1>5. n \in 0..len /\ P = 1..n
  <2>1. \A i \in P : 1..i \subseteq P
    <3> SUFFICES ASSUME NEW i \in P, NEW j \in 1..i PROVE j \in P
      OBVIOUS
    <3>1. i \in 1..len /\ j \in 1..len /\ 1..j \subseteq 1..i
      BY <1>1, <1>4
    <3> QED
      BY <1>1, <1>4, <3>1
  <2>2. P \in SUBSET (1..len)
    BY <1>1, <1>4
  <2> QED
    BY <1>2, <1>4, <2>1, <2>2, PrefixIsInterval
<1>6. \A i \in 1..n : i \in 1..len /\ time - t.expiry[i].at >= REDIRECT_FLOW_IDLE_TIMEOUT
  <2>1. \A i \in 1..n : i \in P /\ i \in 1..i
    BY <1>5
  <2> QED
    BY <1>1, <1>4, <2>1
<1>7. PICK keys : keys = {t.expiry[i].key : i \in {j \in 1 .. n : t.expiry[j].key \in DOMAIN t.entries
                                                       /\ t.entries[t.expiry[j].key].at <= t.expiry[j].at}}
  OBVIOUS
<1>8. PICK v : v = [t EXCEPT !.expiry = SubSeq(t.expiry, n + 1, len)]
  OBVIOUS
<1>9. u = RemoveAll(v, keys)
  BY <1>1, <1>2, <1>3, <1>7, <1>8 DEF prune
<1>10. TableShape(v) /\ v.entries = t.entries /\ v.reverse = t.reverse /\ v.expiry = SubSeq(t.expiry, n + 1, len)
  BY <1>8 DEF TableOk, TableShape
<1>11. EntriesOk(v, time) /\ MapsInverse(v)
  BY <1>10 DEF TableOk, EntriesOk, MapsInverse
<1>12. TableShape(u) /\ EntriesOk(u, time) /\ MapsInverse(u) /\ Without(u, v, keys)
  BY <1>9, <1>10, <1>11, RemoveAllKeeps
<1>13. \A k \in keys : k \in DOMAIN t.entries /\ time - t.entries[k].at >= REDIRECT_FLOW_IDLE_TIMEOUT
  <2> SUFFICES ASSUME NEW k \in keys
               PROVE  k \in DOMAIN t.entries /\ time - t.entries[k].at >= REDIRECT_FLOW_IDLE_TIMEOUT
    OBVIOUS
  <2>1. PICK i \in 1..n : k = t.expiry[i].key /\ k \in DOMAIN t.entries /\ t.entries[k].at <= t.expiry[i].at
    BY <1>7
  <2>2. t.entries[k].at \in Nat /\ t.expiry[i].at \in Nat /\ time - t.expiry[i].at >= REDIRECT_FLOW_IDLE_TIMEOUT
    BY <1>4, <1>6, <2>1 DEF TableOk, EntriesOk, Uses
  <2> QED
    BY <2>1, <2>2, DivertAssumption
<1>14. CoveredAfter(t, keys, n)
  <2> SUFFICES ASSUME NEW k \in DOMAIN t.entries \ keys
               PROVE  \E i \in 1..Len(t.expiry) : i > n /\ t.expiry[i] = [at |-> t.entries[k].at, key |-> k]
    BY DEF CoveredAfter
  <2>1. PICK i \in 1..Len(t.expiry) : t.expiry[i] = [at |-> t.entries[k].at, key |-> k]
    BY DEF TableOk, CoveredAfter
  <2>2. t.expiry[i].key = k /\ t.expiry[i].at = t.entries[k].at /\ t.entries[k].at <= t.entries[k].at
    <3>1. t.entries[k].at \in Nat
      BY DEF TableOk, EntriesOk
    <3> QED
      BY <2>1, <3>1
  <2>3. ~(i \in 1..n)
    BY <1>7, <2>2
  <2>4. i > n
    BY <1>3, <1>4, <1>5, <2>3
  <2> QED
    BY <2>1, <2>4
<1>15. QueueOk(u, time) /\ CoveredAfter(u, {}, 0)
  <2>1. u.expiry = SubSeq(t.expiry, n + 1, Len(t.expiry)) /\ n \in 0..Len(t.expiry)
    BY <1>3, <1>5, <1>10, <1>12 DEF Without
  <2>2. DOMAIN u.entries = DOMAIN t.entries \ keys /\ \A k \in DOMAIN u.entries : u.entries[k] = t.entries[k]
    BY <1>10, <1>12 DEF Without
  <2>3. QueueOk(t, time)
    BY DEF TableOk
  <2> QED
    BY <1>14, <2>1, <2>2, <2>3, ShorterQueue
<1> QED
  BY <1>10, <1>12, <1>13, <1>15 DEF TableOk, Without

\* Evict leaves room for one more flow, and takes nothing where there is room.
LEMMA EvictMakesRoom ==
    ASSUME NEW t, NEW time \in Nat, TableOk(t, time), NEW u, u = Evict(t)
    PROVE  /\ TableOk(u, time) /\ DOMAIN u.entries \subseteq DOMAIN t.entries
           /\ \A k \in DOMAIN u.entries : u.entries[k] = t.entries[k]
           /\ DOMAIN u.reverse \subseteq DOMAIN t.reverse /\ (\A r \in DOMAIN u.reverse : u.reverse[r] = t.reverse[r])
           /\ Cardinality(DOMAIN u.entries) < MAX_REDIRECT_FLOWS
           /\ Cardinality(DOMAIN t.entries) < MAX_REDIRECT_FLOWS => DOMAIN u.entries = DOMAIN t.entries
<1> DEFINE rest(n) == DOMAIN t.entries \ {t.expiry[i].key : i \in 1 .. n}
           fits == {n \in 0 .. Len(t.expiry) : Cardinality(rest(n)) < MAX_REDIRECT_FLOWS \/ n = Len(t.expiry)}
<1>1. PICK len : len = Len(t.expiry)
  OBVIOUS
<1>2. t.expiry \in Seq(Uses) /\ len \in Nat /\ DOMAIN t.expiry = 1..len
  BY <1>1, LenProperties DEF TableOk, QueueOk
<1>3. PICK n : n = CHOOSE m \in fits : \A o \in fits : m <= o
  OBVIOUS
<1>4. n \in fits /\ \A o \in fits : n <= o
  <2>1. len \in fits /\ fits \subseteq Nat
    BY <1>1, <1>2
  <2>2. \E m \in fits : \A o \in fits : m <= o
    <3> HIDE DEF fits
    <3> QED
      BY <2>1, LeastNumber
  <2> HIDE DEF fits
  <2> QED
    BY <1>3, <2>2
<1>5. PICK keys : keys = {t.expiry[i].key : i \in 1 .. n}
  OBVIOUS
<1>6. PICK v : v = [t EXCEPT !.expiry = SubSeq(t.expiry, n + 1, len)]
  OBVIOUS
<1>7. u = RemoveAll(v, keys)
  BY <1>1, <1>3, <1>5, <1>6 DEF Evict
<1>8. TableShape(v) /\ v.entries = t.entries /\ v.reverse = t.reverse /\ v.expiry = SubSeq(t.expiry, n + 1, len)
  BY <1>6 DEF TableOk, TableShape
<1>9. EntriesOk(v, time) /\ MapsInverse(v)
  BY <1>8 DEF TableOk, EntriesOk, MapsInverse
<1>10. TableShape(u) /\ EntriesOk(u, time) /\ MapsInverse(u) /\ Without(u, v, keys)
  BY <1>7, <1>8, <1>9, RemoveAllKeeps
<1>11. n \in 0..len
  BY <1>1, <1>4
<1>12. CoveredAfter(t, keys, n)
  <2> SUFFICES ASSUME NEW k \in DOMAIN t.entries \ keys
               PROVE  \E i \in 1..Len(t.expiry) : i > n /\ t.expiry[i] = [at |-> t.entries[k].at, key |-> k]
    BY DEF CoveredAfter
  <2>1. PICK i \in 1..Len(t.expiry) : t.expiry[i] = [at |-> t.entries[k].at, key |-> k]
    BY DEF TableOk, CoveredAfter
  <2>2. ~(i \in 1..n)
    BY <1>5, <2>1
  <2>3. i > n
    BY <1>1, <1>2, <1>11, <2>2
  <2> QED
    BY <2>1, <2>3
<1>13. DOMAIN u.entries = rest(n) /\ \A k \in DOMAIN u.entries : u.entries[k] = t.entries[k]
  BY <1>5, <1>8, <1>10 DEF Without
<1>14. QueueOk(u, time) /\ CoveredAfter(u, {}, 0)
  <2>1. u.expiry = SubSeq(t.expiry, n + 1, Len(t.expiry)) /\ n \in 0..Len(t.expiry)
    BY <1>1, <1>8, <1>10, <1>11 DEF Without
  <2>2. QueueOk(t, time) /\ DOMAIN u.entries = DOMAIN t.entries \ keys
    BY <1>5, <1>13 DEF TableOk
  <2> QED
    BY <1>12, <1>13, <2>1, <2>2, ShorterQueue
<1>15. Cardinality(rest(n)) < MAX_REDIRECT_FLOWS
  <2>1. CASE n = len
    <3>1. rest(n) = {}
      <4> SUFFICES ASSUME NEW k \in DOMAIN t.entries PROVE k \in {t.expiry[i].key : i \in 1 .. n}
        OBVIOUS
      <4>1. PICK i \in 1..Len(t.expiry) : t.expiry[i] = [at |-> t.entries[k].at, key |-> k]
        BY DEF TableOk, CoveredAfter
      <4> QED
        BY <1>1, <2>1, <4>1
    <3> QED
      BY <3>1, FS_EmptySet, DivertAssumption
  <2>2. CASE n # len
    BY <1>1, <1>4, <2>2
  <2> QED
    BY <2>1, <2>2
<1>16. ASSUME Cardinality(DOMAIN t.entries) < MAX_REDIRECT_FLOWS PROVE DOMAIN u.entries = DOMAIN t.entries
  <2>1. rest(0) = DOMAIN t.entries
    OBVIOUS
  <2>2. 0 \in fits
    <3> HIDE DEF rest
    <3> QED
      BY <1>1, <1>2, <1>16, <2>1
  <2>3. n = 0
    <3> HIDE DEF fits
    <3> QED
      BY <1>4, <1>11, <1>2, <2>2
  <2> QED
    BY <1>13, <2>1, <2>3
<1> HIDE DEF rest, fits
<1> QED
  BY <1>8, <1>10, <1>13, <1>14, <1>15, <1>16 DEF TableOk, Without

\* One more use at the end of the queue, the latest there is.
LEMMA QueueAppend ==
    ASSUME NEW t, NEW time \in Nat, QueueOk(t, time), NEW key \in FlowKeys,
           NEW u, u.expiry = Append(t.expiry, [at |-> time, key |-> key])
    PROVE  /\ QueueOk(u, time) /\ Len(u.expiry) = Len(t.expiry) + 1 /\ Len(t.expiry) \in Nat
           /\ \A i \in 1..Len(t.expiry) : u.expiry[i] = t.expiry[i]
           /\ u.expiry[Len(t.expiry) + 1] = [at |-> time, key |-> key]
<1>1. PICK q, n, e : q = t.expiry /\ n = Len(t.expiry) /\ e = [at |-> time, key |-> key]
  OBVIOUS
<1>2. q \in Seq(Uses) /\ n \in Nat /\ e \in Uses /\ e.at = time
  BY <1>1, LenProperties DEF QueueOk, Uses
<1>3. PICK s : s = Append(q, e)
  OBVIOUS
<1>4. s \in Seq(Uses) /\ Len(s) = n + 1 /\ (\A i \in 1..n : s[i] = q[i]) /\ s[n + 1] = e
  BY <1>1, <1>2, <1>3, AppendProperties
<1>5. \A i \in 1..(n + 1) : i \in 1..n \/ i = n + 1
  BY <1>2
<1>6. \A i \in 1..n : q[i].at <= time
  BY <1>1 DEF QueueOk
<1>7. \A i \in 1..(n + 1) : s[i].at <= time
  BY <1>2, <1>4, <1>5, <1>6
<1>8. ASSUME NEW i \in 1..(n + 1), NEW j \in 1..(n + 1), i < j PROVE s[i].at <= s[j].at
  <2>1. i \in 1..n
    BY <1>2, <1>8
  <2>2. CASE j \in 1..n
    BY <1>1, <1>4, <1>8, <2>1, <2>2 DEF QueueOk
  <2>3. CASE j = n + 1
    BY <1>2, <1>4, <1>6, <2>1, <2>3
  <2> QED
    BY <1>5, <2>2, <2>3
<1> QED
  BY <1>1, <1>2, <1>3, <1>4, <1>7, <1>8 DEF QueueOk

\* A new flow takes the reply of its client away from the one that had it.
LEMMA InsertKeeps ==
    ASSUME NEW t, NEW time \in Nat, TableOk(t, time), Cardinality(DOMAIN t.entries) <= MAX_REDIRECT_FLOWS,
           NEW key \in FlowKeys, NEW l, l # 0, NEW u, u = insert(t, key, l, time)
    PROVE  /\ TableOk(u, time) /\ Cardinality(DOMAIN u.entries) <= MAX_REDIRECT_FLOWS
           /\ reverse_key(key, l) \in DOMAIN u.reverse /\ u.reverse[reverse_key(key, l)] = key
           /\ \A r \in DOMAIN u.reverse \ {reverse_key(key, l)} : r \in DOMAIN t.reverse /\ u.reverse[r] = t.reverse[r]
           /\ \A k \in DOMAIN t.entries \ DOMAIN u.entries :
                \/ time - t.entries[k].at >= REDIRECT_FLOW_IDLE_TIMEOUT
                \/ Cardinality(DOMAIN t.entries) >= MAX_REDIRECT_FLOWS
                \/ k.client = key.client
<1>1. PICK a, b, c, d, r : /\ a = prune(t, time) /\ b = remove(a, key) /\ c = Evict(b)
                           /\ r = reverse_key(key, l) /\ d = Claim(c, r, key)
  OBVIOUS
<1>2. /\ TableOk(a, time) /\ DOMAIN a.entries \subseteq DOMAIN t.entries
      /\ \A k \in DOMAIN a.entries : a.entries[k] = t.entries[k]
      /\ DOMAIN a.reverse \subseteq DOMAIN t.reverse /\ (\A s \in DOMAIN a.reverse : a.reverse[s] = t.reverse[s])
      /\ \A k \in DOMAIN t.entries \ DOMAIN a.entries : time - t.entries[k].at >= REDIRECT_FLOW_IDLE_TIMEOUT
  BY <1>1, PruneKeeps
<1>3. TableShape(b) /\ EntriesOk(b, time) /\ MapsInverse(b) /\ Without(b, a, {key})
  BY <1>1, <1>2, RemoveIsAll DEF TableOk
<1>4. TableOk(b, time)
  BY <1>2, <1>3 DEF TableOk, QueueOk, CoveredAfter, Without
<1>5. /\ TableOk(c, time) /\ DOMAIN c.entries \subseteq DOMAIN b.entries
      /\ \A k \in DOMAIN c.entries : c.entries[k] = b.entries[k]
      /\ DOMAIN c.reverse \subseteq DOMAIN b.reverse /\ (\A s \in DOMAIN c.reverse : c.reverse[s] = b.reverse[s])
      /\ Cardinality(DOMAIN c.entries) < MAX_REDIRECT_FLOWS
      /\ Cardinality(DOMAIN b.entries) < MAX_REDIRECT_FLOWS => DOMAIN c.entries = DOMAIN b.entries
  BY <1>1, <1>4, EvictMakesRoom
<1>6. key \notin DOMAIN c.entries
  BY <1>3, <1>5 DEF Without
<1>7. PICK gone : gone = IF r \in DOMAIN c.reverse THEN {c.reverse[r]} ELSE {}
  OBVIOUS
<1>8. /\ TableShape(d) /\ d.expiry = c.expiry
      /\ d.reverse = [x \in DOMAIN c.reverse \cup {r} |-> IF x = r THEN key ELSE c.reverse[x]]
      /\ DOMAIN d.entries = DOMAIN c.entries \ gone /\ \A k \in DOMAIN d.entries : d.entries[k] = c.entries[k]
  <2>1. PICK e : e = [c EXCEPT !.reverse = [x \in DOMAIN c.reverse \cup {r} |-> IF x = r THEN key ELSE c.reverse[x]]]
    OBVIOUS
  <2>2. /\ TableShape(e) /\ e.expiry = c.expiry /\ e.entries = c.entries
        /\ e.reverse = [x \in DOMAIN c.reverse \cup {r} |-> IF x = r THEN key ELSE c.reverse[x]]
    BY <1>5, <2>1 DEF TableOk, TableShape
  <2>3. CASE r \notin DOMAIN c.reverse
    BY <1>1, <1>7, <2>1, <2>2, <2>3 DEF Claim
  <2>4. CASE r \in DOMAIN c.reverse
    <3>1. PICK k : k = c.reverse[r]
      OBVIOUS
    <3>2. k \in DOMAIN c.entries /\ r = reverse_key(k, c.entries[k].listener) /\ k # key
      BY <1>5, <1>6, <2>4, <3>1 DEF TableOk, MapsInverse
    <3>3. d = remove(e, k)
      BY <1>1, <2>1, <2>4, <3>1 DEF Claim
    <3>4. r \in DOMAIN e.reverse /\ e.reverse[r] = key
      BY <2>2
    <3>5. d = [e EXCEPT !.entries = Restrict(e.entries, DOMAIN e.entries \ {k}), !.reverse = e.reverse]
      BY <2>2, <3>2, <3>3, <3>4 DEF remove
    <3>6. TableShape(d) /\ d.expiry = e.expiry /\ d.reverse = e.reverse
          /\ d.entries = Restrict(e.entries, DOMAIN e.entries \ {k})
      BY <2>2, <3>5 DEF TableShape
    <3> QED
      BY <1>7, <2>2, <2>4, <3>1, <3>6 DEF Restrict
  <2> QED
    BY <2>3, <2>4
<1>9. u = [d EXCEPT !.entries = [k \in DOMAIN d.entries \cup {key} |->
                                   IF k = key THEN [listener |-> l, at |-> time] ELSE d.entries[k]],
                    !.expiry = Append(d.expiry, [at |-> time, key |-> key])]
  BY <1>1 DEF insert
<1>10. /\ TableShape(u) /\ u.reverse = d.reverse /\ u.expiry = Append(c.expiry, [at |-> time, key |-> key])
       /\ u.entries = [k \in DOMAIN d.entries \cup {key} |->
                         IF k = key THEN [listener |-> l, at |-> time] ELSE d.entries[k]]
  BY <1>8, <1>9 DEF TableShape
<1>11. /\ DOMAIN u.entries = (DOMAIN c.entries \ gone) \cup {key} /\ u.entries[key] = [listener |-> l, at |-> time]
       /\ \A k \in DOMAIN u.entries \ {key} : k \in DOMAIN c.entries \ gone /\ u.entries[k] = c.entries[k]
       /\ DOMAIN u.reverse = DOMAIN c.reverse \cup {r} /\ u.reverse[r] = key
       /\ \A s \in DOMAIN c.reverse \ {r} : u.reverse[s] = c.reverse[s]
  BY <1>6, <1>8, <1>10
<1>12. IsFiniteSet(DOMAIN u.entries) /\ Cardinality(DOMAIN u.entries) <= MAX_REDIRECT_FLOWS
  <2>1. IsFiniteSet(DOMAIN c.entries) /\ DOMAIN c.entries \ gone \in SUBSET DOMAIN c.entries
    BY <1>5 DEF TableOk, EntriesOk
  <2>2. /\ IsFiniteSet(DOMAIN c.entries \ gone) /\ Cardinality(DOMAIN c.entries \ gone) <= Cardinality(DOMAIN c.entries)
        /\ Cardinality(DOMAIN c.entries) \in Nat
    BY <2>1, FS_Subset, FS_CardinalityType
  <2>3. /\ Cardinality(DOMAIN c.entries \ gone) \in Nat /\ IsFiniteSet((DOMAIN c.entries \ gone) \cup {key})
        /\ Cardinality((DOMAIN c.entries \ gone) \cup {key}) = Cardinality(DOMAIN c.entries \ gone) + 1
    BY <1>6, <2>2, FS_AddElement, FS_CardinalityType
  <2> QED
    BY <1>5, <1>11, <2>2, <2>3, DivertAssumption
<1>13. EntriesOk(u, time)
  <2>1. EntriesOk(c, time)
    BY <1>5 DEF TableOk
  <2>2. \A k \in DOMAIN u.entries :
          /\ u.entries[k] = [listener |-> u.entries[k].listener, at |-> u.entries[k].at]
          /\ u.entries[k].at \in Nat /\ u.entries[k].at <= time /\ u.entries[k].listener # 0
    BY <1>11, <2>1 DEF EntriesOk
  <2> QED
    BY <1>11, <1>12, <2>1, <2>2 DEF EntriesOk
<1>14. MapsInverse(u)
  <2>1. MapsInverse(c)
    BY <1>5 DEF TableOk
  <2>2. ASSUME NEW k \in DOMAIN u.entries
        PROVE  /\ reverse_key(k, u.entries[k].listener) \in DOMAIN u.reverse
               /\ u.reverse[reverse_key(k, u.entries[k].listener)] = k
    <3>1. CASE k = key
      BY <1>1, <1>11, <3>1
    <3>2. CASE k # key
      <4>1. PICK s : s = reverse_key(k, c.entries[k].listener)
        OBVIOUS
      <4>2. u.entries[k] = c.entries[k] /\ s \in DOMAIN c.reverse /\ c.reverse[s] = k /\ k \notin gone
        BY <1>11, <2>1, <2>2, <3>2, <4>1 DEF MapsInverse
      <4>3. s # r
        BY <1>7, <4>2
      <4> QED
        BY <1>11, <4>1, <4>2, <4>3
    <3> QED
      BY <3>1, <3>2
  <2>3. ASSUME NEW s \in DOMAIN u.reverse
        PROVE  u.reverse[s] \in DOMAIN u.entries /\ s = reverse_key(u.reverse[s], u.entries[u.reverse[s]].listener)
    <3>1. CASE s = r
      BY <1>1, <1>11, <3>1
    <3>2. CASE s # r
      <4>1. PICK k : k = c.reverse[s]
        OBVIOUS
      <4>2. s \in DOMAIN c.reverse /\ u.reverse[s] = k /\ k \in DOMAIN c.entries
            /\ s = reverse_key(k, c.entries[k].listener)
        BY <1>11, <2>1, <2>3, <3>2, <4>1 DEF MapsInverse
      <4>3. k \notin gone /\ k # key
        BY <1>6, <1>7, <2>1, <3>2, <4>2 DEF MapsInverse
      <4> QED
        BY <1>11, <4>2, <4>3
    <3> QED
      BY <3>1, <3>2
  <2> QED
    BY <2>2, <2>3 DEF MapsInverse
<1>15. /\ QueueOk(u, time) /\ Len(u.expiry) = Len(c.expiry) + 1 /\ Len(c.expiry) \in Nat
       /\ \A i \in 1..Len(c.expiry) : u.expiry[i] = c.expiry[i]
       /\ u.expiry[Len(c.expiry) + 1] = [at |-> time, key |-> key]
  <2>1. QueueOk(c, time)
    BY <1>5 DEF TableOk
  <2> QED
    BY <1>10, <2>1, QueueAppend
<1>16. CoveredAfter(u, {}, 0)
  <2> SUFFICES ASSUME NEW k \in DOMAIN u.entries
               PROVE  \E i \in 1..Len(u.expiry) : i > 0 /\ u.expiry[i] = [at |-> u.entries[k].at, key |-> k]
    BY DEF CoveredAfter
  <2>1. CASE k = key
    <3>1. Len(c.expiry) + 1 \in 1..Len(u.expiry) /\ Len(c.expiry) + 1 > 0
      BY <1>15
    <3> QED
      BY <1>11, <1>15, <2>1, <3>1
  <2>2. CASE k # key
    <3>1. PICK i \in 1..Len(c.expiry) : i > 0 /\ c.expiry[i] = [at |-> c.entries[k].at, key |-> k]
      BY <1>5, <1>11, <2>2 DEF TableOk, CoveredAfter
    <3>2. i \in 1..Len(u.expiry)
      BY <1>15
    <3> QED
      BY <1>11, <1>15, <2>2, <3>1, <3>2
  <2> QED
    BY <2>1, <2>2
<1>17. \A s \in DOMAIN u.reverse \ {r} : s \in DOMAIN t.reverse /\ u.reverse[s] = t.reverse[s]
  BY <1>2, <1>3, <1>5, <1>11 DEF Without
<1>18. ASSUME NEW k \in DOMAIN t.entries \ DOMAIN u.entries
       PROVE  \/ time - t.entries[k].at >= REDIRECT_FLOW_IDLE_TIMEOUT
              \/ Cardinality(DOMAIN t.entries) >= MAX_REDIRECT_FLOWS
              \/ k.client = key.client
  <2>1. CASE k \notin DOMAIN a.entries
    BY <1>2, <2>1
  <2>2. CASE k \in DOMAIN a.entries /\ k \notin DOMAIN c.entries
    <3>1. k \in DOMAIN b.entries
      BY <1>3, <1>11, <2>2 DEF Without
    <3>2. ~(Cardinality(DOMAIN b.entries) < MAX_REDIRECT_FLOWS)
      BY <1>5, <2>2, <3>1
    <3>3. DOMAIN b.entries \in SUBSET DOMAIN t.entries
      BY <1>2, <1>3 DEF Without
    <3>4. /\ Cardinality(DOMAIN b.entries) <= Cardinality(DOMAIN t.entries)
          /\ Cardinality(DOMAIN b.entries) \in Nat /\ Cardinality(DOMAIN t.entries) \in Nat
      BY <3>3, FS_Subset, FS_CardinalityType DEF TableOk, EntriesOk
    <3> QED
      BY <3>2, <3>4, DivertAssumption
  <2>3. CASE k \in DOMAIN c.entries
    <3>1. r \in DOMAIN c.reverse /\ k = c.reverse[r]
      BY <1>7, <1>11, <2>3
    <3>2. r = reverse_key(k, c.entries[k].listener)
      BY <1>5, <3>1 DEF TableOk, MapsInverse
    <3> QED
      BY <1>1, <3>2 DEF reverse_key
  <2> QED
    BY <2>1, <2>2, <2>3
<1> QED
  BY <1>1, <1>10, <1>11, <1>12, <1>13, <1>14, <1>15, <1>16, <1>17, <1>18 DEF TableOk

\* A flow that is used stays where it is, with the time of this use, whether
\* or not the queue is compacted first.
LEMMA TouchKeeps ==
    ASSUME NEW t, NEW time \in Nat, TableOk(t, time), NEW key \in DOMAIN t.entries, NEW u, u \in touch(t, key, time)
    PROVE  TableOk(u, time) /\ DOMAIN u.entries = DOMAIN t.entries /\ u.reverse = t.reverse
<1>1. PICK v : v = [t EXCEPT !.entries = [t.entries EXCEPT ![key] = [t.entries[key] EXCEPT !.at = time]]]
  OBVIOUS
<1>2. PICK w : /\ w \in IF Len(v.expiry) >= MAX_REDIRECT_EXPIRY_ENTRIES THEN compact_expiry(v) ELSE {v}
               /\ u = [w EXCEPT !.expiry = Append(w.expiry, [at |-> time, key |-> key])]
  BY <1>1 DEF touch
<1>3. TableShape(v) /\ v.reverse = t.reverse /\ v.expiry = t.expiry
      /\ v.entries = [t.entries EXCEPT ![key] = [t.entries[key] EXCEPT !.at = time]]
  BY <1>1 DEF TableOk, TableShape
<1>4. /\ DOMAIN v.entries = DOMAIN t.entries
      /\ v.entries[key] = [listener |-> t.entries[key].listener, at |-> time]
      /\ \A k \in DOMAIN v.entries \ {key} : v.entries[k] = t.entries[k]
  <2>1. t.entries[key] = [listener |-> t.entries[key].listener, at |-> t.entries[key].at]
    BY DEF TableOk, EntriesOk
  <2>2. [t.entries[key] EXCEPT !.at = time] = [listener |-> t.entries[key].listener, at |-> time]
    BY <2>1
  <2> QED
    BY <1>3, <2>2
<1>5. EntriesOk(v, time) /\ key \in FlowKeys
  <2>1. EntriesOk(t, time)
    BY DEF TableOk
  <2>2. ASSUME NEW k \in DOMAIN v.entries
        PROVE  /\ v.entries[k] = [listener |-> v.entries[k].listener, at |-> v.entries[k].at]
               /\ v.entries[k].at \in Nat /\ v.entries[k].at <= time /\ v.entries[k].listener # 0
    <3>1. CASE k = key
      <4>1. PICK l : l = t.entries[key].listener
        OBVIOUS
      <4>2. l # 0
        BY <2>1, <4>1 DEF EntriesOk
      <4>3. v.entries[k] = [listener |-> l, at |-> time]
        BY <1>4, <3>1, <4>1
      <4> QED
        BY <4>2, <4>3
    <3>2. CASE k # key
      <4>1. v.entries[k] = t.entries[k] /\ k \in DOMAIN t.entries
        BY <1>4, <2>2, <3>2
      <4> QED
        BY <2>1, <4>1 DEF EntriesOk
    <3> QED
      BY <3>1, <3>2
  <2> QED
    BY <1>4, <2>1, <2>2 DEF EntriesOk
<1>6. MapsInverse(v)
  BY <1>3, <1>4 DEF TableOk, MapsInverse
<1>7. /\ TableShape(w) /\ w.entries = v.entries /\ w.reverse = v.reverse /\ QueueOk(w, time)
      /\ CoveredAfter(w, {key}, 0)
  <2>1. CASE w = v
    <3>1. QueueOk(v, time)
      BY <1>3 DEF TableOk, QueueOk
    <3>2. CoveredAfter(v, {key}, 0)
      BY <1>3, <1>4 DEF TableOk, CoveredAfter
    <3> QED
      BY <1>3, <2>1, <3>1, <3>2
  <2>2. CASE w \in compact_expiry(v)
    <3>1. PICK used : used = {[at |-> v.entries[k].at, key |-> k] : k \in DOMAIN v.entries}
      OBVIOUS
    <3>2. PICK s \in [1 .. Cardinality(used) -> used] :
            /\ Range(s) = used /\ \A i, j \in DOMAIN s : i < j => s[i].at <= s[j].at
            /\ w = [v EXCEPT !.expiry = s]
      BY <2>2, <3>1 DEF compact_expiry
    <3>3. TableShape(w) /\ w.entries = v.entries /\ w.reverse = v.reverse /\ w.expiry = s
      BY <1>3, <3>2 DEF TableShape
    <3>4. Cardinality(used) \in Nat
      <4>1. PICK f : f = [k \in DOMAIN v.entries |-> [at |-> v.entries[k].at, key |-> k]]
        OBVIOUS
      <4>2. f \in Surjection(DOMAIN v.entries, used)
        BY <3>1, <4>1 DEF Surjection
      <4>3. IsFiniteSet(DOMAIN v.entries)
        BY <1>5 DEF EntriesOk
      <4> QED
        BY <4>2, <4>3, FS_Surjection, FS_CardinalityType
    <3>5. used \subseteq Uses /\ \A e \in used : e.at <= time
      <4> SUFFICES ASSUME NEW k \in DOMAIN v.entries
                   PROVE  [at |-> v.entries[k].at, key |-> k] \in Uses /\ v.entries[k].at <= time
        BY <3>1
      <4> QED
        BY <1>5 DEF EntriesOk, Uses
    <3>6. s \in Seq(Uses) /\ Len(s) = Cardinality(used) /\ DOMAIN s = 1..Len(s)
      BY <3>2, <3>4, <3>5
    <3>7. QueueOk(w, time)
      BY <3>2, <3>3, <3>5, <3>6 DEF QueueOk
    <3>8. ASSUME NEW k \in DOMAIN w.entries
          PROVE  \E i \in 1..Len(w.expiry) : i > 0 /\ w.expiry[i] = [at |-> w.entries[k].at, key |-> k]
      <4>1. [at |-> v.entries[k].at, key |-> k] \in Range(s)
        BY <3>1, <3>2, <3>3, <3>8
      <4>2. PICK i \in DOMAIN s : s[i] = [at |-> v.entries[k].at, key |-> k]
        BY <4>1 DEF Range
      <4> QED
        BY <3>3, <3>4, <3>6, <4>2
    <3> QED
      BY <3>3, <3>7, <3>8 DEF CoveredAfter
  <2> QED
    BY <1>2, <2>1, <2>2
<1>8. TableShape(u) /\ u.entries = v.entries /\ u.reverse = v.reverse
      /\ u.expiry = Append(w.expiry, [at |-> time, key |-> key])
  BY <1>2, <1>7 DEF TableShape
<1>9. /\ QueueOk(u, time) /\ Len(u.expiry) = Len(w.expiry) + 1 /\ Len(w.expiry) \in Nat
      /\ \A i \in 1..Len(w.expiry) : u.expiry[i] = w.expiry[i]
      /\ u.expiry[Len(w.expiry) + 1] = [at |-> time, key |-> key]
  BY <1>5, <1>7, <1>8, QueueAppend
<1>10. CoveredAfter(u, {}, 0)
  <2> SUFFICES ASSUME NEW k \in DOMAIN u.entries
               PROVE  \E i \in 1..Len(u.expiry) : i > 0 /\ u.expiry[i] = [at |-> u.entries[k].at, key |-> k]
    BY DEF CoveredAfter
  <2>1. CASE k = key
    <3>1. Len(w.expiry) + 1 \in 1..Len(u.expiry) /\ Len(w.expiry) + 1 > 0
      BY <1>9
    <3> QED
      BY <1>4, <1>8, <1>9, <2>1, <3>1
  <2>2. CASE k # key
    <3>1. PICK i \in 1..Len(w.expiry) : i > 0 /\ w.expiry[i] = [at |-> w.entries[k].at, key |-> k]
      BY <1>7, <1>8, <2>2 DEF CoveredAfter
    <3>2. i \in 1..Len(u.expiry)
      BY <1>9
    <3> QED
      BY <1>7, <1>8, <1>9, <3>1, <3>2
  <2> QED
    BY <2>1, <2>2
<1>11. EntriesOk(u, time) /\ MapsInverse(u)
  BY <1>5, <1>6, <1>8 DEF EntriesOk, MapsInverse
<1> QED
  BY <1>3, <1>4, <1>8, <1>9, <1>10, <1>11 DEF TableOk

-----------------------------------------------------------------------------
(* One frame. *)

\* What a frame may do to the table.
FrameKeeps ==
    /\ TableOk(table', now) /\ Cardinality(DOMAIN table'.entries) <= MAX_REDIRECT_FLOWS
    /\ Contacted(table', contact') /\ ReplyComesFromContacted'
    /\ \A k \in DOMAIN table.entries \ DOMAIN table'.entries :
         \/ now - table.entries[k].at >= REDIRECT_FLOW_IDLE_TIMEOUT
         \/ Cardinality(DOMAIN table.entries) >= MAX_REDIRECT_FLOWS
         \/ seen'.did = "redirected" /\ <<seen'.p.src, seen'.p.sport>> = k.client

\* A table without some of its flows is no larger.
LEMMA PrunedFits ==
    ASSUME DivertInv, NEW t, t = prune(table, now)
    PROVE  Cardinality(DOMAIN t.entries) <= MAX_REDIRECT_FLOWS /\ Contacted(t, contact)
<1>1. now \in Nat /\ TableOk(table, now)
  BY DivertAssumption DEF DivertInv
<1>2. /\ DOMAIN t.entries \in SUBSET DOMAIN table.entries
      /\ DOMAIN t.reverse \subseteq DOMAIN table.reverse /\ \A r \in DOMAIN t.reverse : t.reverse[r] = table.reverse[r]
  BY <1>1, PruneKeeps
<1>3. /\ Cardinality(DOMAIN t.entries) <= Cardinality(DOMAIN table.entries)
      /\ Cardinality(DOMAIN t.entries) \in Nat /\ Cardinality(DOMAIN table.entries) \in Nat
  BY <1>1, <1>2, FS_Subset, FS_CardinalityType DEF TableOk, EntriesOk
<1> QED
  BY <1>2, <1>3, DivertAssumption DEF DivertInv, Contacted

\* A frame on its way out is redirected to the listener of its flow.
LEMMA OutboundKeeps ==
    ASSUME DivertInv, NEW p, FlowKey(p) \in FlowKeys, Outbound(p)
    PROVE  FrameKeeps
<1>1. PICK key, t : key = FlowKey(p) /\ t = prune(table, now)
  OBVIOUS
<1>2. PICK l : l = IF outbound_listener(t, key) # 0 THEN outbound_listener(t, key) ELSE redirect_target(p.proto, p.dport)
  OBVIOUS
<1>3. \/ table' = table /\ seen' = Passed(p) /\ contact' = contact
      \/ table' = t /\ seen' = Passed(p) /\ contact' = contact
      \/ /\ l # 0 /\ table' \in IF key \in DOMAIN t.entries THEN touch(t, key, now) ELSE {insert(t, key, l, now)}
         /\ seen' = [did |-> "redirected", p |-> p, listener |-> l]
         /\ contact' = [r \in DOMAIN contact \cup {reverse_key(key, l)} |->
                          IF r = reverse_key(key, l) THEN key.dest ELSE contact[r]]
  BY <1>1, <1>2 DEF Outbound, FlowKey
<1>4. now \in Nat /\ TableOk(table, now) /\ Cardinality(DOMAIN table.entries) <= MAX_REDIRECT_FLOWS
      /\ Contacted(table, contact)
  BY DivertAssumption DEF DivertInv
<1>5. /\ TableOk(t, now) /\ DOMAIN t.entries \subseteq DOMAIN table.entries
      /\ \A k \in DOMAIN t.entries : t.entries[k] = table.entries[k]
      /\ \A k \in DOMAIN table.entries \ DOMAIN t.entries : now - table.entries[k].at >= REDIRECT_FLOW_IDLE_TIMEOUT
  BY <1>1, <1>4, PruneKeeps
<1>6. Cardinality(DOMAIN t.entries) <= MAX_REDIRECT_FLOWS /\ Contacted(t, contact)
  BY <1>1, PrunedFits
<1>7. CASE (table' = table \/ table' = t) /\ seen' = Passed(p) /\ contact' = contact
  <2>1. seen'.did # "restored"
    BY <1>7 DEF Passed
  <2> QED
    BY <1>4, <1>5, <1>6, <1>7, <2>1 DEF FrameKeeps, ReplyComesFromContacted
<1>8. CASE /\ l # 0 /\ table' \in IF key \in DOMAIN t.entries THEN touch(t, key, now) ELSE {insert(t, key, l, now)}
           /\ seen' = [did |-> "redirected", p |-> p, listener |-> l]
           /\ contact' = [r \in DOMAIN contact \cup {reverse_key(key, l)} |->
                            IF r = reverse_key(key, l) THEN key.dest ELSE contact[r]]
  <2>1. /\ seen'.did = "redirected" /\ <<seen'.p.src, seen'.p.sport>> = key.client
        /\ seen'.did # "restored"
    BY <1>1, <1>8 DEF FlowKey
  <2>2. PICK r : r = reverse_key(key, l)
    OBVIOUS
  <2>3. DOMAIN contact' = DOMAIN contact \cup {r} /\ contact'[r] = key.dest
        /\ \A s \in DOMAIN contact \ {r} : contact'[s] = contact[s]
    BY <1>8, <2>2
  <2>4. CASE key \in DOMAIN t.entries
    <3>1. TableOk(table', now) /\ DOMAIN table'.entries = DOMAIN t.entries /\ table'.reverse = t.reverse
      BY <1>4, <1>5, <1>8, <2>4, TouchKeeps
    <3>2. l = t.entries[key].listener
      BY <1>2, <1>5, <2>4 DEF outbound_listener, TableOk, EntriesOk
    <3>3. r \in DOMAIN t.reverse /\ t.reverse[r] = key
      BY <1>5, <2>2, <2>4, <3>2 DEF TableOk, MapsInverse
    <3>4. Contacted(table', contact')
      BY <1>6, <2>3, <3>1, <3>3 DEF Contacted
    <3> QED
      BY <1>5, <1>6, <2>1, <3>1, <3>4 DEF FrameKeeps, ReplyComesFromContacted
  <2>5. CASE key \notin DOMAIN t.entries
    <3>1. table' = insert(t, key, l, now) /\ key \in FlowKeys /\ l # 0
      BY <1>1, <1>8, <2>5
    <3>2. /\ TableOk(table', now) /\ Cardinality(DOMAIN table'.entries) <= MAX_REDIRECT_FLOWS
          /\ r \in DOMAIN table'.reverse /\ table'.reverse[r] = key
          /\ \A s \in DOMAIN table'.reverse \ {r} : s \in DOMAIN t.reverse /\ table'.reverse[s] = t.reverse[s]
          /\ \A k \in DOMAIN t.entries \ DOMAIN table'.entries :
               \/ now - t.entries[k].at >= REDIRECT_FLOW_IDLE_TIMEOUT
               \/ Cardinality(DOMAIN t.entries) >= MAX_REDIRECT_FLOWS
               \/ k.client = key.client
      BY <1>4, <1>5, <1>6, <2>2, <3>1, InsertKeeps
    <3>3. Contacted(table', contact')
      BY <1>6, <2>3, <3>2 DEF Contacted
    <3>4. Cardinality(DOMAIN t.entries) >= MAX_REDIRECT_FLOWS => Cardinality(DOMAIN table.entries) >= MAX_REDIRECT_FLOWS
      <4>1. DOMAIN t.entries \in SUBSET DOMAIN table.entries
        BY <1>5
      <4>2. /\ Cardinality(DOMAIN t.entries) <= Cardinality(DOMAIN table.entries)
            /\ Cardinality(DOMAIN t.entries) \in Nat /\ Cardinality(DOMAIN table.entries) \in Nat
        BY <1>4, <4>1, FS_Subset, FS_CardinalityType DEF TableOk, EntriesOk
      <4> QED
        BY <4>2, DivertAssumption
    <3>5. ASSUME NEW k \in DOMAIN table.entries \ DOMAIN table'.entries
          PROVE  \/ now - table.entries[k].at >= REDIRECT_FLOW_IDLE_TIMEOUT
                 \/ Cardinality(DOMAIN table.entries) >= MAX_REDIRECT_FLOWS
                 \/ seen'.did = "redirected" /\ <<seen'.p.src, seen'.p.sport>> = k.client
      <4>1. CASE k \notin DOMAIN t.entries
        BY <1>5, <3>5, <4>1
      <4>2. CASE k \in DOMAIN t.entries
        <5>1. \/ now - t.entries[k].at >= REDIRECT_FLOW_IDLE_TIMEOUT
              \/ Cardinality(DOMAIN t.entries) >= MAX_REDIRECT_FLOWS
              \/ k.client = key.client
          BY <3>2, <3>5, <4>2
        <5>2. t.entries[k] = table.entries[k]
          BY <1>5, <4>2
        <5> QED
          BY <2>1, <3>4, <5>1, <5>2
      <4> QED
        BY <4>1, <4>2
    <3> QED
      BY <2>1, <3>2, <3>3, <3>5 DEF FrameKeeps, ReplyComesFromContacted
  <2> QED
    BY <2>4, <2>5
<1> QED
  BY <1>3, <1>7, <1>8

\* A reply is given the destination of the flow it belongs to.
LEMMA InboundKeeps ==
    ASSUME DivertInv, NEW p, Inbound(p)
    PROVE  FrameKeeps
<1>1. PICK r, t : r = [proto |-> p.proto, client |-> <<p.dst, p.dport>>, listener |-> p.sport] /\ t = prune(table, now)
  OBVIOUS
<1>2. PICK key : key = CHOOSE k \in inbound_flow(t, r) : TRUE
  OBVIOUS
<1>3. /\ contact' = contact
      /\ \/ (table' = table \/ table' = t) /\ seen' = Passed(p)
         \/ /\ inbound_flow(t, r) # {} /\ table' \in touch(t, key, now)
            /\ seen' = [did |-> "restored", p |-> p, r |-> r, dest |-> key.dest]
  BY <1>1, <1>2 DEF Inbound
<1>4. now \in Nat /\ TableOk(table, now) /\ Cardinality(DOMAIN table.entries) <= MAX_REDIRECT_FLOWS
      /\ Contacted(table, contact)
  BY DivertAssumption DEF DivertInv
<1>5. /\ TableOk(t, now) /\ DOMAIN t.entries \subseteq DOMAIN table.entries
      /\ \A k \in DOMAIN table.entries \ DOMAIN t.entries : now - table.entries[k].at >= REDIRECT_FLOW_IDLE_TIMEOUT
  BY <1>1, <1>4, PruneKeeps
<1>6. Cardinality(DOMAIN t.entries) <= MAX_REDIRECT_FLOWS /\ Contacted(t, contact)
  BY <1>1, PrunedFits
<1>7. CASE (table' = table \/ table' = t) /\ seen' = Passed(p)
  <2>1. seen'.did # "restored"
    BY <1>7 DEF Passed
  <2> QED
    BY <1>3, <1>4, <1>5, <1>6, <1>7, <2>1 DEF FrameKeeps, ReplyComesFromContacted
<1>8. CASE /\ inbound_flow(t, r) # {} /\ table' \in touch(t, key, now)
           /\ seen' = [did |-> "restored", p |-> p, r |-> r, dest |-> key.dest]
  <2>1. r \in DOMAIN t.reverse /\ key = t.reverse[r] /\ key \in DOMAIN t.entries
    BY <1>2, <1>8 DEF inbound_flow
  <2>2. TableOk(table', now) /\ DOMAIN table'.entries = DOMAIN t.entries /\ table'.reverse = t.reverse
    BY <1>4, <1>5, <1>8, <2>1, TouchKeeps
  <2>3. r \in DOMAIN contact /\ contact[r] = key.dest
    BY <1>6, <2>1 DEF Contacted
  <2>4. seen'.r = r /\ seen'.dest = key.dest
    BY <1>8
  <2> QED
    BY <1>3, <1>5, <1>6, <2>2, <2>3, <2>4 DEF FrameKeeps, Contacted, ReplyComesFromContacted
<1> QED
  BY <1>3, <1>7, <1>8

\* A frame is passed on, captured, redirected or answered.
LEMMA FrameArrivesKeeps ==
    ASSUME DivertInv, FrameArrives
    PROVE  FrameKeeps /\ UNCHANGED now
<1>1. PICK x \in Frames : IF kind = "pcap"
                          THEN seen' = [did |-> "captured", p |-> PC_parse_packet(x.f)] /\ UNCHANGED <<table, contact>>
                          ELSE redirect_packet(x)
  BY DEF FrameArrives
<1>0. now' = now
  BY DEF FrameArrives
<1> SUFFICES FrameKeeps
  BY <1>0
<1>2. TableOk(table, now) /\ Cardinality(DOMAIN table.entries) <= MAX_REDIRECT_FLOWS /\ Contacted(table, contact)
  BY DEF DivertInv
<1>3. PICK p : p = packet_metadata(x.f)
  OBVIOUS
<1>4. CASE seen' = [did |-> "captured", p |-> PC_parse_packet(x.f)] /\ UNCHANGED <<table, contact>>
  <2>1. seen'.did # "restored"
    BY <1>4
  <2> QED
    BY <1>2, <1>4, <2>1 DEF FrameKeeps, ReplyComesFromContacted
<1>5. CASE table' = table /\ seen' = Passed(p) /\ contact' = contact
  <2>1. seen'.did # "restored"
    BY <1>5 DEF Passed
  <2> QED
    BY <1>2, <1>5, <2>1 DEF FrameKeeps, ReplyComesFromContacted
<1>6. CASE p.proto \in {"tcp", "udp"} /\ Outbound(p)
  <2>1. FlowKey(p) \in FlowKeys
    BY <1>3, <1>6 DEF FlowKeys
  <2> QED
    BY <1>6, <2>1, OutboundKeeps
<1>7. CASE Inbound(p)
  BY <1>7, InboundKeeps
<1> QED
  BY <1>1, <1>3, <1>4, <1>5, <1>6, <1>7 DEF redirect_packet

\* Waiting makes no flow newer than the clock.
LEMMA TickKeeps ==
    ASSUME NEW t, NEW time \in Nat, NEW later \in Nat, time <= later, TableOk(t, time)
    PROVE  TableOk(t, later)
<1>1. EntriesOk(t, later)
  BY DEF TableOk, EntriesOk
<1>2. QueueOk(t, later)
  <2>1. Len(t.expiry) \in Nat /\ \A i \in 1..Len(t.expiry) : t.expiry[i].at \in Nat
    <3>1. t.expiry \in Seq(Uses) /\ Len(t.expiry) \in Nat
      BY LenProperties DEF TableOk, QueueOk
    <3>2. \A i \in 1..Len(t.expiry) : t.expiry[i] \in Uses
      BY <3>1, ElementOfSeq
    <3> QED
      BY <3>1, <3>2 DEF Uses
  <2> QED
    BY SMTT(30), <2>1 DEF TableOk, QueueOk
<1> QED
  BY <1>1, <1>2 DEF TableOk

\* The table is empty when the interceptor starts.
LEMMA DivertInit == Init => DivertInv
<1> SUFFICES ASSUME Init PROVE DivertInv
  OBVIOUS
<1>1. table.entries = Empty /\ table.reverse = Empty /\ table.expiry = <<>> /\ DOMAIN Empty = {}
  BY DEF Init, Empty
<1>2. <<>> \in Seq(Uses) /\ Len(<<>>) = 0
  BY EmptySeq
<1>3. IsFiniteSet({}) /\ Cardinality({}) = 0
  BY FS_EmptySet
<1>4. TableShape(table)
  BY DEF Init, TableShape
<1>5. EntriesOk(table, now) /\ MapsInverse(table)
  BY <1>1, <1>3 DEF EntriesOk, MapsInverse
<1>6. QueueOk(table, now) /\ CoveredAfter(table, {}, 0)
  BY <1>1, <1>2 DEF QueueOk, CoveredAfter
<1>7. Cardinality(DOMAIN table.entries) <= MAX_REDIRECT_FLOWS /\ Contacted(table, contact)
  BY <1>1, <1>3, DivertAssumption DEF Contacted
<1>8. ReplyComesFromContacted
  BY DEF Init, Nothing, ReplyComesFromContacted
<1> QED
  BY <1>4, <1>5, <1>6, <1>7, <1>8, DivertAssumption DEF DivertInv, TableOk, Init

\* Every step keeps the table sound.
LEMMA DivertStep == DivertInv /\ [Next]_vars => DivertInv'
<1> SUFFICES ASSUME DivertInv, [Next]_vars PROVE DivertInv'
  OBVIOUS
<1>1. CASE FrameArrives
  <2>1. FrameKeeps /\ now' = now
    BY <1>1, FrameArrivesKeeps
  <2>2. rx' = "idle" /\ lock' = "free" /\ packets' \in 0..MaxPackets
    BY <1>1, DivertAssumption DEF FrameArrives, DivertInv
  <2> QED
    BY <2>1, <2>2 DEF FrameKeeps, DivertInv
<1>2. CASE Tick
  <2>1. now' \in 0..MaxTime /\ now' \in Nat /\ now \in Nat /\ now <= now'
    BY <1>2, DivertAssumption DEF Tick, DivertInv
  <2>2. TableOk(table, now')
    BY <2>1, TickKeeps DEF DivertInv
  <2>3. UNCHANGED <<rx, lock, table, packets, seen, contact>>
    BY <1>2 DEF Tick
  <2> QED
    BY <2>1, <2>2, <2>3 DEF DivertInv, ReplyComesFromContacted
<1>3. CASE recv_packet \/ ReceiveFails \/ DeviceError \/ shutdown \/ shutdown_takes \/ UNCHANGED vars
  <2>1. UNCHANGED <<table, now, packets, seen, contact>>
    BY <1>3 DEF recv_packet, ReceiveFails, DeviceError, shutdown, shutdown_takes, vars
  <2>2. rx' \in {"idle", "waiting", "failed"} /\ lock' \in {"free", "rx"}
    BY <1>3 DEF recv_packet, ReceiveFails, DeviceError, shutdown, shutdown_takes, vars, DivertInv
  <2> QED
    BY <2>1, <2>2 DEF DivertInv, ReplyComesFromContacted
<1> QED
  BY <1>1, <1>2, <1>3 DEF Next

\* At every moment both maps and the queue of the flow table are well formed,
\* as DivertInv says (RedirectFlowTable).
THEOREM DivertInvariance == Spec => []DivertInv
BY DivertInit, DivertStep, PTL DEF Spec

\* For every set of frames and rules, however large the table may be: its two
\* maps are inverse of each other, it holds at most MAX_REDIRECT_FLOWS flows,
\* each of them is in the expiry queue with the time of its last use, and a
\* reply is given the address its client last sent to (RedirectFlowTable,
\* inbound_destination).
THEOREM FlowTableIsSound == Spec => []FlowTableSound
<1>1. DivertInv => FlowTableSound
  <2> SUFFICES ASSUME DivertInv PROVE FlowTableSound
    OBVIOUS
  <2>1. TableOk(table, now)
    BY DEF DivertInv
  <2>2. TypeOK /\ ReplyComesFromContacted
    BY DEF DivertInv, TypeOK
  <2>3. TablesAgree
    BY <2>1 DEF TableOk, MapsInverse, TablesAgree, reverse_key
  <2>4. DOMAIN table.expiry = 1..Len(table.expiry)
    BY <2>1, LenProperties DEF TableOk, QueueOk
  <2>5. ASSUME NEW k \in DOMAIN table.entries
        PROVE  \E e \in Range(table.expiry) : e.key = k /\ e.at = table.entries[k].at
    <3>1. PICK i \in 1..Len(table.expiry) : table.expiry[i] = [at |-> table.entries[k].at, key |-> k]
      BY <2>1 DEF TableOk, CoveredAfter
    <3>2. table.expiry[i] \in Range(table.expiry)
      BY <2>4 DEF Range
    <3> QED
      BY <3>1, <3>2
  <2>6. ExpiryCovers
    BY <2>1, <2>4, <2>5 DEF ExpiryCovers, TableOk, QueueOk
  <2> QED
    BY <2>2, <2>3, <2>6 DEF FlowTableSound
<1> QED
  BY <1>1, DivertInvariance, PTL

\* A flow leaves the table only when it was idle for the timeout, when the
\* table is full, or when its own client was redirected elsewhere: packets of
\* a flow in use keep going to the listener it was given (outbound_listener).
THEOREM ActiveFlowsAreKept == Spec => ActiveFlowsKept
<1>1. DivertInv /\ [Next]_vars =>
        [\A k \in DOMAIN table.entries :
           k \notin DOMAIN table'.entries =>
              \/ now - table.entries[k].at >= REDIRECT_FLOW_IDLE_TIMEOUT
              \/ Cardinality(DOMAIN table.entries) >= MAX_REDIRECT_FLOWS
              \/ seen'.did = "redirected" /\ <<seen'.p.src, seen'.p.sport>> = k.client]_vars
  <2> SUFFICES ASSUME DivertInv, Next, NEW k \in DOMAIN table.entries, k \notin DOMAIN table'.entries
               PROVE  \/ now - table.entries[k].at >= REDIRECT_FLOW_IDLE_TIMEOUT
                      \/ Cardinality(DOMAIN table.entries) >= MAX_REDIRECT_FLOWS
                      \/ seen'.did = "redirected" /\ <<seen'.p.src, seen'.p.sport>> = k.client
    OBVIOUS
  <2>1. CASE FrameArrives
    BY <2>1, FrameArrivesKeeps DEF FrameKeeps
  <2>2. CASE table' = table
    BY <2>2
  <2> QED
    BY <2>1, <2>2 DEF Next, recv_packet, ReceiveFails, DeviceError, shutdown, shutdown_takes, Tick
<1> QED
  BY <1>1, DivertInvariance, PTL DEF Spec, ActiveFlowsKept
=============================================================================
