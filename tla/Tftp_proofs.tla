---------------------------- MODULE Tftp_proofs ----------------------------
(***************************************************************************)
(* Proofs about the two file transfer services and the UDP listener.  TFTP *)
(* first, for every number of clients, files and tasks and for every limit *)
(* and file size; then FTP with its data connections, for every number of  *)
(* clients, commands, ports and permits; then the tasks of the UDP         *)
(* listener, for all traffic, rules and limits.                            *)
(*                                                                         *)
(* What a TFTP client is told is in three tables at once: the transfer,    *)
(* the file and the acknowledgements.  The invariant ties them together:   *)
(* an upload in the table is the only one of its file, and it has written  *)
(* exactly the blocks it has acknowledged.  The permits of FTP are counted *)
(* over its clients, and its replies numbered by the commands they answer. *)
(* The totals of the UDP listener are the cardinalities of the sets of     *)
(* datagrams they stand for.                                               *)
(***************************************************************************)
EXTENDS Tftp, Ftp, UdpListener, FiniteSetTheorems, SequenceTheorems, WellFoundedInduction, TLAPS

Transfer == Read \cup Write \cup {None}
Gap      == [key : Keys, file : Files, block : Blocks]
Stored   == [block : Blocks, from : Keys, len : {"full", "short", "torn"}]

InTable(table) == {k \in Keys : table[k] # None}
Writing(x) == x # None /\ x.kind = "write"
Reading(x) == x # None /\ x.kind = "read"

\* An upload has numbered its blocks from 1 and written those it acknowledged.
UploadOK(k, x) ==
    /\ x.next_block_expected = x.last_ack + 1
    /\ x.last_ack = x.bytes_received + (IF x.complete THEN 1 ELSE 0)
    /\ rooted => /\ x.file \in created
                 /\ Len(stored[x.file]) = x.last_ack
                 /\ \A i \in 1..Len(stored[x.file]) :
                       /\ stored[x.file][i].from = k /\ stored[x.file][i].len # "torn"
                       /\ ~x.complete => stored[x.file][i].len = "full"

Uploads == \A k \in Keys : Writing(active[k]) => UploadOK(k, active[k])

\* A file has one upload at most: create_new.
OneWriter ==
    rooted => \A j, k \in Keys :
        Writing(active[j]) /\ Writing(active[k]) /\ active[j].file = active[k].file => j = k

\* Nothing is known of a file that was not created.
Fresh ==
    /\ ~rooted => created = {}
    /\ \A f \in Files \ created : stored[f] = <<>> /\ told[f] = 0

\* The blocks of f from the first to block n are whole, n is at least what was acknowledged.
Whole(f) == {i \in 1..Len(stored[f]) : stored[f][i].len # "torn"}
Kept == \A f \in Files : \E n \in Nat : Whole(f) = 1..n /\ told[f] <= n

\* A download's blocks do not wrap around, and follow acknowledgements.
Allowed(k, f, b) == b = 1 \/ <<k, f, b - 1>> \in acked
ReadOK(k, x) ==
    /\ x.last_block_sent \in 1..(FileBlocks + 1)
    /\ ~x.complete => x.last_block_sent <= FileBlocks
    /\ Allowed(k, x.file, x.last_block_sent)
GapOK(g) == g.block \in 1..(FileBlocks + 1) /\ Allowed(g.key, g.file, g.block)
Downloads ==
    /\ \A k \in Keys : Reading(active[k]) => ReadOK(k, active[k])
    /\ \A t \in Tasks : gap[t] # None => GapOK(gap[t])

\* Only a download can be put back, and the others keep to the limit.
Limited ==
    /\ \A k \in late : Reading(active[k])
    /\ IsFiniteSet(InTable(active))
    /\ Cardinality(InTable(active) \ late) <= MaxActive

TInv == TftpTypeOK /\ Uploads /\ OneWriter /\ Fresh /\ UploadInOrder /\ Kept /\ Downloads /\ Limited

-----------------------------------------------------------------------------
(* The table *)

\* A record is of one kind.
LEMMA Kinds ==
    /\ \A x \in Read : Reading(x) /\ ~Writing(x) /\ x # None
    /\ \A x \in Write : Writing(x) /\ ~Reading(x) /\ x # None
    /\ ~Reading(None) /\ ~Writing(None)
BY TftpAssumption DEF Read, Write, Reading, Writing

\* Block numbers below the modulus do not wrap.
LEMMA NoWrap ==
    ASSUME NEW b \in Nat, b + 1 < BlockModulus
    PROVE  wrapping_add(b) = b + 1 /\ b + 1 \in Blocks /\ b \in Blocks
BY TftpAssumption DEF wrapping_add, Blocks

\* Pruning only removes.
LEMMA PruneFacts ==
    ASSUME TftpTypeOK
    PROVE  /\ prune_tftp_transfers \in [Keys -> Transfer]
           /\ \A k \in Keys : prune_tftp_transfers[k] = IF k \in stale THEN None ELSE active[k]
BY DEF TftpTypeOK, prune_tftp_transfers, Transfer

\* The table after a handler.
LEMMA PutFacts ==
    ASSUME TftpTypeOK, NEW k \in Keys, NEW x \in Transfer, Put(k, x)
    PROVE  /\ active' \in [Keys -> Transfer] /\ active'[k] = x /\ stale' = {}
           /\ \A j \in Keys \ {k} : active'[j] = IF j \in stale THEN None ELSE active[j]
           /\ late' = late \ (stale \cup {k}) /\ late' \subseteq InTable(active')
<1>1. /\ active' \in [Keys -> Transfer] /\ active'[k] = x /\ stale' = {}
      /\ \A j \in Keys \ {k} : active'[j] = IF j \in stale THEN None ELSE active[j]
      /\ late' = late \ (stale \cup {k})
  BY PruneFacts DEF Put
<1>2. late \subseteq {j \in Keys : active[j] # None}
  BY DEF TftpTypeOK
<1> QED
  BY <1>1, <1>2 DEF InTable

\* The table after a handler that keeps it.
LEMMA KeepFacts ==
    ASSUME TftpTypeOK, KeepTable
    PROVE  /\ active' \in [Keys -> Transfer] /\ stale' = {}
           /\ \A j \in Keys : active'[j] = IF j \in stale THEN None ELSE active[j]
           /\ late' = late \ stale /\ late' \subseteq InTable(active')
<1>1. /\ active' \in [Keys -> Transfer] /\ stale' = {}
      /\ \A j \in Keys : active'[j] = IF j \in stale THEN None ELSE active[j]
      /\ late' = late \ stale
  BY PruneFacts DEF KeepTable
<1>2. late \subseteq {j \in Keys : active[j] # None}
  BY DEF TftpTypeOK
<1> QED
  BY <1>1, <1>2 DEF InTable

\* Fewer transfers keep to the limit.
LEMMA LimitFewer ==
    ASSUME Limited, NEW T, NEW L, T \subseteq InTable(active), T \ L \subseteq InTable(active) \ late
    PROVE  IsFiniteSet(T) /\ Cardinality(T \ L) <= MaxActive
<1>1. IsFiniteSet(T) /\ IsFiniteSet(InTable(active) \ late)
  BY FS_Subset DEF Limited
<1>2. IsFiniteSet(T \ L) /\ Cardinality(T \ L) <= Cardinality(InTable(active) \ late)
  BY <1>1, FS_Subset
<1>3. Cardinality(T \ L) \in Nat /\ Cardinality(InTable(active) \ late) \in Nat
  BY <1>1, <1>2, FS_CardinalityType
<1> QED
  BY <1>1, <1>2, <1>3, TftpAssumption DEF Limited

\* One transfer more than a table below its limit.
LEMMA LimitOneMore ==
    ASSUME NEW T, IsFiniteSet(T), Cardinality(T) < MaxActive, NEW k, NEW L
    PROVE  IsFiniteSet(T \cup {k}) /\ Cardinality((T \cup {k}) \ L) <= MaxActive
<1>1. /\ IsFiniteSet(T \cup {k}) /\ Cardinality(T \cup {k}) <= Cardinality(T) + 1
      /\ Cardinality(T) \in Nat /\ Cardinality(T \cup {k}) \in Nat
  BY FS_AddElement, FS_CardinalityType
<1>2. IsFiniteSet((T \cup {k}) \ L) /\ Cardinality((T \cup {k}) \ L) <= Cardinality(T \cup {k})
  BY <1>1, FS_Subset
<1>3. Cardinality((T \cup {k}) \ L) \in Nat
  BY <1>2, FS_CardinalityType
<1> QED
  BY <1>1, <1>2, <1>3, TftpAssumption

\* A handler that keeps the table keeps the limit.
LEMMA KeepLimited == ASSUME TInv, KeepTable PROVE Limited'
<1>1. /\ TftpTypeOK /\ Limited /\ late' = late \ stale
      /\ \A j \in Keys : active'[j] = IF j \in stale THEN None ELSE active[j]
  BY KeepFacts DEF TInv
<1>2. InTable(active') \subseteq InTable(active) /\ InTable(active') \ late' \subseteq InTable(active) \ late
  BY <1>1 DEF InTable
<1>3. \A k \in late' : Reading(active'[k])
  BY <1>1 DEF Limited, TftpTypeOK
<1>4. IsFiniteSet(InTable(active')) /\ Cardinality(InTable(active') \ late') <= MaxActive
  BY <1>1, <1>2, LimitFewer
<1> QED
  BY <1>3, <1>4 DEF Limited

\* A handler that ends the transfer of k, replaces an upload, or adds one
\* below the limit keeps the limit.
LEMMA PutLimited ==
    ASSUME TInv, NEW k \in Keys, NEW x \in Transfer, Put(k, x),
           \/ x = None
           \/ Writing(prune_tftp_transfers[k])
           \/ prune_tftp_transfers[k] = None /\ ~tftp_transfer_limit_reached(prune_tftp_transfers, k)
    PROVE  Limited'
<1>1. /\ TftpTypeOK /\ Limited /\ active'[k] = x /\ late' = late \ (stale \cup {k})
      /\ \A j \in Keys \ {k} : active'[j] = IF j \in stale THEN None ELSE active[j]
      /\ late \subseteq Keys /\ \A j \in late : Reading(active[j])
  BY PutFacts DEF TInv, TftpTypeOK, Limited
<1>2. \A j \in late' : Reading(active'[j])
  BY <1>1
<1>3. IsFiniteSet(InTable(active')) /\ Cardinality(InTable(active') \ late') <= MaxActive
  <2>1. CASE x = None
    <3>1. InTable(active') \subseteq InTable(active) /\ InTable(active') \ late' \subseteq InTable(active) \ late
      BY <1>1, <2>1 DEF InTable
    <3> QED
      BY <1>1, <3>1, LimitFewer
  <2>2. CASE Writing(prune_tftp_transfers[k])
    <3>1. active[k] # None /\ k \notin late
      BY <1>1, <2>2, PruneFacts DEF Writing, Reading
    <3>2. InTable(active') \subseteq InTable(active) /\ InTable(active') \ late' \subseteq InTable(active) \ late
      BY <1>1, <3>1 DEF InTable
    <3> QED
      BY <1>1, <3>2, LimitFewer
  <2>3. CASE prune_tftp_transfers[k] = None /\ ~tftp_transfer_limit_reached(prune_tftp_transfers, k)
    <3> DEFINE T == InTable(prune_tftp_transfers)
    <3>1. T \subseteq InTable(active) /\ InTable(active') \subseteq T \cup {k}
      BY <1>1, PruneFacts DEF InTable
    <3>2. IsFiniteSet(T) /\ Cardinality(T) \in Nat
      BY <1>1, <3>1, FS_Subset, FS_CardinalityType DEF Limited
    <3>3. Cardinality(T) < MaxActive
      BY <2>3, <3>2, TftpAssumption DEF tftp_transfer_limit_reached, Size, InTable
    <3> HIDE DEF T
    <3>4. IsFiniteSet(T \cup {k}) /\ Cardinality((T \cup {k}) \ late') <= MaxActive
      BY <3>2, <3>3, LimitOneMore
    <3>5. IsFiniteSet(InTable(active'))
      BY <3>1, <3>4, FS_Subset
    <3>6. /\ IsFiniteSet((T \cup {k}) \ late') /\ InTable(active') \ late' \subseteq (T \cup {k}) \ late'
      BY <3>1, <3>4, FS_Subset
    <3>7. /\ Cardinality(InTable(active') \ late') <= Cardinality((T \cup {k}) \ late')
          /\ Cardinality(InTable(active') \ late') \in Nat /\ Cardinality((T \cup {k}) \ late') \in Nat
      BY <3>6, FS_Subset, FS_CardinalityType
    <3> QED
      BY <3>4, <3>5, <3>7, TftpAssumption
  <2> QED
    BY <2>1, <2>2, <2>3
<1> QED
  BY <1>2, <1>3 DEF Limited

-----------------------------------------------------------------------------
(* Uploads *)

UploadInv == Uploads /\ OneWriter /\ Fresh /\ UploadInOrder /\ Kept

\* The table changes, but no upload begins or goes on.
Ends == \A j \in Keys : active'[j] = active[j] \/ ~Writing(active'[j])

\* What a step that leaves the disk alone keeps.
LEMMA UploadsQuiet ==
    ASSUME UploadInv, Ends, UNCHANGED <<rooted, stored, created>>
    PROVE  Uploads' /\ OneWriter' /\ UploadInOrder' /\ (told' = told => UploadInv')
<1>1. Uploads'
  BY SMTT(30) DEF UploadInv, Ends, Uploads, UploadOK
<1>2. OneWriter'
  BY DEF UploadInv, Ends, OneWriter
<1>3. UploadInOrder'
  BY DEF UploadInv, UploadInOrder
<1>4. ASSUME told' = told PROVE Fresh' /\ Kept'
  BY <1>4 DEF UploadInv, Fresh, Kept, Whole
<1> QED
  BY <1>1, <1>2, <1>3, <1>4 DEF UploadInv

\* An upload's file and what it was told.
LEMMA UploadFacts ==
    ASSUME TInv, NEW k \in Keys, Writing(active[k])
    PROVE  /\ active[k] \in Write /\ active[k].file \in Files
           /\ active[k].last_ack \in Nat /\ active[k].last_ack <= MaxUpload + 1
           /\ active[k].next_block_expected = active[k].last_ack + 1
           /\ ~active[k].complete => active[k].last_ack = active[k].bytes_received
           /\ rooted => Whole(active[k].file) = 1..active[k].last_ack
<1>1. active[k] \in Write /\ UploadOK(k, active[k])
  BY Kinds DEF TInv, TftpTypeOK, Uploads
<1>2. /\ active[k].file \in Files /\ active[k].bytes_received \in 0..MaxUpload /\ active[k].complete \in BOOLEAN
      /\ active[k].last_ack \in Blocks
  BY <1>1 DEF Write
<1>3. active[k].last_ack \in Nat /\ active[k].last_ack <= MaxUpload + 1
  BY <1>1, <1>2, TftpAssumption DEF UploadOK
<1>4. ASSUME rooted PROVE Whole(active[k].file) = 1..active[k].last_ack
  BY <1>1, <1>4 DEF UploadOK, Whole
<1> QED
  BY <1>1, <1>2, <1>3, <1>4 DEF UploadOK

\* An acknowledgement of what an upload has written, again.
LEMMA UploadsTold ==
    ASSUME TInv, Ends, UNCHANGED <<rooted, stored, created>>,
           NEW k \in Keys, Writing(active[k]), Tells(active[k].file, active[k].last_ack)
    PROVE  UploadInv' /\ told' \in [Files -> Blocks]
<1>1. UploadInv /\ told \in [Files -> Blocks]
  BY DEF TInv, UploadInv, TftpTypeOK
<1>2. Uploads' /\ OneWriter' /\ UploadInOrder' /\ (told' = told => UploadInv')
  BY <1>1, UploadsQuiet
<1>3. CASE ~rooted
  BY <1>1, <1>2, <1>3 DEF Tells
<1>4. CASE rooted
  <2> DEFINE x == active[k]
  <2>1. /\ x.file \in Files /\ x.last_ack \in Nat /\ Whole(x.file) = 1..x.last_ack /\ x.last_ack \in Blocks
        /\ x.file \in created
    BY <1>1, <1>4, UploadFacts DEF Write, UploadInv, Uploads, UploadOK
  <2>2. told' = [told EXCEPT ![x.file] = IF x.last_ack > told[x.file] THEN x.last_ack ELSE told[x.file]]
    BY <1>4 DEF Tells
  <2> HIDE DEF x
  <2>3. /\ told' \in [Files -> Blocks] /\ \A f \in Files \ {x.file} : told'[f] = told[f]
        /\ told'[x.file] \in {told[x.file], x.last_ack}
    BY <1>1, <2>1, <2>2
  <2>4. Fresh'
    BY <1>1, <2>1, <2>3 DEF UploadInv, Fresh
  <2>5. Kept'
    <3> SUFFICES ASSUME NEW f \in Files PROVE \E n \in Nat : Whole(f)' = 1..n /\ told'[f] <= n
      BY DEF Kept
    <3>1. Whole(f)' = Whole(f)
      BY DEF Whole
    <3>2. PICK n \in Nat : Whole(f) = 1..n /\ told[f] <= n
      BY <1>1 DEF UploadInv, Kept
    <3>3. CASE told'[f] = told[f]
      BY <3>1, <3>2, <3>3
    <3>4. CASE told'[f] # told[f]
      BY <2>1, <2>3, <3>1, <3>4
    <3> QED
      BY <3>3, <3>4
  <2> QED
    BY <1>2, <2>3, <2>4, <2>5 DEF UploadInv
<1> QED
  BY <1>3, <1>4

\* A new upload: its file was not there.
LEMMA UploadBegins ==
    ASSUME TInv, NEW k \in Keys, NEW f \in Files, Put(k, NewWrite(f)), Tells(f, 0), open_upload_file(f),
           created' = IF rooted THEN created \cup {f} ELSE created, UNCHANGED <<rooted, stored>>
    PROVE  UploadInv' /\ told' = told /\ NewWrite(f) \in Write
<1> DEFINE x == NewWrite(f)
<1>1. /\ UploadInv /\ TftpTypeOK /\ told \in [Files -> Blocks]
  BY DEF TInv, UploadInv, TftpTypeOK
<1>2. /\ x \in Write /\ x.file = f /\ x.next_block_expected = 1 /\ x.bytes_received = 0 /\ x.last_ack = 0
      /\ ~x.complete /\ x \in Transfer /\ Writing(x)
  <2>1. /\ x.file = f /\ x.next_block_expected = 1 /\ x.bytes_received = 0 /\ x.last_ack = 0 /\ ~x.complete
    BY DEF NewWrite
  <2>2. 0 \in Blocks /\ 1 \in Blocks /\ 0 \in 0..MaxUpload
    BY TftpAssumption DEF Blocks
  <2>3. x \in Write
    BY <2>2 DEF NewWrite, Write
  <2> QED
    BY <2>1, <2>3, Kinds DEF Transfer
<1> HIDE DEF x
<1>3. told' = told
  <2>1. told[f] \in Nat
    BY <1>1, TftpAssumption DEF Blocks
  <2> QED
    BY <1>1, <2>1 DEF Tells
<1>4. /\ active'[k] = x /\ \A j \in Keys \ {k} : active'[j] = active[j] \/ ~Writing(active'[j])
  BY <1>1, <1>2, PutFacts, Kinds DEF x
<1>5. rooted => f \notin created /\ stored[f] = <<>>
  BY <1>1 DEF open_upload_file, UploadInv, Fresh
<1>6. Uploads'
  <2>1. UploadOK(k, active[k])'
    BY <1>2, <1>4, <1>5 DEF UploadOK
  <2>2. ASSUME NEW j \in Keys \ {k}, Writing(active'[j]) PROVE UploadOK(j, active[j])'
    <3>1. active'[j] = active[j] /\ UploadOK(j, active[j])
      BY <1>1, <1>4, <2>2 DEF UploadInv, Uploads
    <3>2. created \subseteq created'
      OBVIOUS
    <3> QED
      BY <3>1, <3>2 DEF UploadOK
  <2> QED
    BY <2>1, <2>2 DEF Uploads
<1>7. OneWriter'
  <2>1. ASSUME rooted, NEW j \in Keys \ {k}, Writing(active'[j]) PROVE active'[j].file # f
    BY <1>1, <1>4, <1>5, <2>1 DEF UploadInv, Uploads, UploadOK
  <2> QED
    BY <1>1, <1>2, <1>4, <2>1 DEF UploadInv, OneWriter
<1>8. Fresh' /\ Kept' /\ UploadInOrder'
  BY <1>1, <1>3 DEF UploadInv, Fresh, Kept, Whole, UploadInOrder
<1> QED
  BY <1>2, <1>3, <1>6, <1>7, <1>8 DEF UploadInv, x

\* Appending a block to a file.
LEMMA AppendBlock ==
    ASSUME NEW q \in Seq(Stored), NEW e \in Stored
    PROVE  /\ Append(q, e) \in Seq(Stored) /\ Len(Append(q, e)) = Len(q) + 1 /\ Len(q) \in Nat
           /\ \A i \in 1..Len(q) : Append(q, e)[i] = q[i]
           /\ Append(q, e)[Len(q) + 1] = e
           /\ DOMAIN Append(q, e) = 1..(Len(q) + 1) /\ DOMAIN q = 1..Len(q)
OBVIOUS

\* The file of an upload that goes on gets its next block, whole or torn.
LEMMA BlockWritten ==
    ASSUME TInv, rooted, NEW k \in Keys, Writing(active[k]), ~active[k].complete,
           NEW what \in {"full", "short", "torn"},
           Writes(active[k], k, active[k].next_block_expected, what)
    PROVE  /\ stored' \in [Files -> Seq(Stored)] /\ UploadInOrder'
           /\ \A f \in Files \ {active[k].file} : stored'[f] = stored[f]
           /\ Len(stored'[active[k].file]) = active[k].last_ack + 1
           /\ \A i \in 1..active[k].last_ack :
                 stored'[active[k].file][i].from = k /\ stored'[active[k].file][i].len = "full"
           /\ stored'[active[k].file][active[k].last_ack + 1].from = k
           /\ stored'[active[k].file][active[k].last_ack + 1].len = what
<1> DEFINE x == active[k]
           e == [block |-> x.next_block_expected, from |-> k, len |-> what]
           q == stored[x.file]
<1>1. /\ x \in Write /\ x.file \in Files /\ x.last_ack \in Nat /\ x.last_ack <= MaxUpload + 1
      /\ x.next_block_expected = x.last_ack + 1
  BY UploadFacts
<1>2. /\ Len(q) = x.last_ack /\ \A i \in 1..Len(q) : q[i].from = k /\ q[i].len = "full"
  BY DEF TInv, Uploads, UploadOK
<1>3. /\ stored \in [Files -> Seq(Stored)] /\ UploadInOrder
  BY DEF TInv, TftpTypeOK, Stored
<1>4. e \in Stored
  BY <1>1, TftpAssumption DEF Stored, Blocks
<1>5. stored' = [stored EXCEPT ![x.file] = Append(q, e)]
  BY DEF Writes
<1>6. e.block = x.last_ack + 1 /\ e.from = k /\ e.len = what
  BY <1>1
<1>q. q \in Seq(Stored) /\ q = stored[x.file]
  BY <1>1, <1>3
<1> HIDE DEF x, e, q
<1>7. /\ Append(q, e) \in Seq(Stored) /\ Len(Append(q, e)) = x.last_ack + 1
      /\ \A i \in 1..x.last_ack : Append(q, e)[i] = q[i]
      /\ Append(q, e)[x.last_ack + 1] = e
      /\ DOMAIN Append(q, e) = 1..(x.last_ack + 1) /\ DOMAIN q = 1..x.last_ack
  BY <1>2, <1>4, <1>q, AppendBlock
<1>8. /\ stored' \in [Files -> Seq(Stored)] /\ stored'[x.file] = Append(q, e)
      /\ \A f \in Files \ {x.file} : stored'[f] = stored[f]
  BY <1>1, <1>3, <1>5, <1>7
<1>9. \A i \in 1..(x.last_ack + 1) : i \in 1..x.last_ack \/ i = x.last_ack + 1
  BY <1>1
<1>10. \A i \in 1..x.last_ack : q[i].block = i
  BY <1>1, <1>3, <1>7, <1>q DEF UploadInOrder
<1>11. UploadInOrder'
  <2> SUFFICES ASSUME NEW f \in Files, NEW i \in DOMAIN stored'[f]
               PROVE  /\ stored'[f][i].block = i
                      /\ stored'[f][i].from = stored'[f][1].from
                      /\ stored'[f][i].len # "full" => i = Len(stored'[f])
    BY DEF UploadInOrder
  <2>1. CASE f # x.file
    BY <1>3, <1>8, <2>1 DEF UploadInOrder
  <2>2. CASE f = x.file
    <3>1. i \in 1..(x.last_ack + 1) /\ 1 \in 1..(x.last_ack + 1)
      BY <1>1, <1>7, <1>8, <2>2
    <3>2. \A j \in 1..(x.last_ack + 1) : stored'[f][j].from = k
      BY ZenonT(60), <1>2, <1>6, <1>7, <1>8, <1>9, <2>2
    <3>3. CASE i \in 1..x.last_ack
      BY ZenonT(60), <1>2, <1>7, <1>8, <1>10, <2>2, <3>1, <3>2, <3>3
    <3>4. CASE i = x.last_ack + 1
      BY <1>6, <1>7, <1>8, <2>2, <3>1, <3>2, <3>4
    <3> QED
      BY <1>9, <3>1, <3>3, <3>4
  <2> QED
    BY <2>1, <2>2
<1>12. /\ Len(stored'[x.file]) = x.last_ack + 1
       /\ \A i \in 1..x.last_ack : stored'[x.file][i].from = k /\ stored'[x.file][i].len = "full"
       /\ stored'[x.file][x.last_ack + 1].from = k /\ stored'[x.file][x.last_ack + 1].len = what
  BY <1>2, <1>6, <1>7, <1>8
<1> QED
  BY <1>8, <1>11, <1>12 DEF x

\* The block is acknowledged once it is written.
LEMMA UploadGoesOn ==
    ASSUME TInv, NEW k \in Keys, Writing(active[k]), NEW b \in Blocks, NEW len \in {0, 1},
           Expected(active[k], b), Fits(active[k], len), Store(active[k], k, b, len), UNCHANGED <<rooted, created>>
    PROVE  /\ UploadInv' /\ Accepted(active[k], b, len) \in Write
           /\ stored' \in [Files -> Seq(Stored)] /\ told' \in [Files -> Blocks]
<1> DEFINE x == active[k]
           y == Accepted(x, b, len)
<1>1. /\ x \in Write /\ x.file \in Files /\ x.last_ack \in Nat /\ x.last_ack <= MaxUpload + 1
      /\ x.next_block_expected = x.last_ack + 1 /\ x.last_ack = x.bytes_received
      /\ rooted => Whole(x.file) = 1..x.last_ack
  BY UploadFacts DEF Expected
<1>2. b = x.last_ack + 1 /\ ~x.complete /\ wrapping_add(b) = b + 1 /\ b + 1 \in Blocks
  <2>1. b = x.last_ack + 1 /\ ~x.complete
    BY <1>1 DEF Expected
  <2>2. b \in Nat /\ b + 1 < BlockModulus
    BY <1>1, <2>1, TftpAssumption
  <2> QED
    BY <2>1, <2>2, NoWrap
<1>3. /\ x.bytes_received \in 0..MaxUpload /\ x.bytes_received + len \in 0..MaxUpload
  BY <1>1, TftpAssumption DEF Write, Fits
<1>4. /\ y = [x EXCEPT !.next_block_expected = b + 1, !.bytes_received = x.bytes_received + len,
                       !.last_ack = b, !.complete = (len = 0)]
  BY <1>2 DEF Accepted
<1>5. /\ y \in Write /\ y.file = x.file /\ y.next_block_expected = b + 1 /\ y.last_ack = b
      /\ y.bytes_received = x.bytes_received + len /\ y.complete = (len = 0)
  BY <1>1, <1>2, <1>3, <1>4 DEF Write
<1>y. /\ (len = 0 => y.complete) /\ (len # 0 => ~y.complete)
      /\ y.last_ack = y.bytes_received + (IF y.complete THEN 1 ELSE 0)
  <2> HIDE DEF y
  <2>1. (len = 0 => y.complete) /\ (len # 0 => ~y.complete)
    BY <1>5, Zenon
  <2>2. y.last_ack = y.bytes_received + (IF len = 0 THEN 1 ELSE 0)
    BY <1>1, <1>2, <1>3, <1>5
  <2>3. (IF y.complete THEN 1 ELSE 0) = (IF len = 0 THEN 1 ELSE 0)
    BY <2>1, Zenon
  <2> QED
    BY <2>1, <2>2, <2>3, Zenon
<1>6. TInv /\ TftpTypeOK /\ UploadInv /\ stored \in [Files -> Seq(Stored)] /\ told \in [Files -> Blocks] /\ y \in Transfer
      /\ Writing(y)
  BY <1>5, Kinds DEF TInv, UploadInv, TftpTypeOK, Stored, Transfer
<1>7. /\ active'[k] = y /\ \A j \in Keys \ {k} : active'[j] = active[j] \/ ~Writing(active'[j])
  <2>1. Put(k, y)
    BY DEF Store
  <2> HIDE DEF y
  <2> QED
    BY <1>6, <2>1, PutFacts, Kinds
<1>8. OneWriter'
  BY <1>5, <1>6, <1>7 DEF UploadInv, OneWriter
<1>9. CASE ~rooted
  <2>1. stored' = stored /\ told' = told
    BY <1>6, <1>9 DEF Store, Writes, Tells
  <2>2. UploadOK(k, active[k])'
    <3> HIDE DEF y
    <3>1. y.next_block_expected = y.last_ack + 1
      BY <1>5
    <3> QED
      BY <1>y, <1>7, <1>9, <3>1, Zenon DEF UploadOK
  <2>3. Uploads'
    <3> HIDE DEF y
    <3>1. \A j \in Keys \ {k} : Writing(active'[j]) => UploadOK(j, active[j])' /\ active'[j] = active[j]
      BY <1>6, <1>7, <1>9, <2>1 DEF UploadInv, Uploads, UploadOK
    <3> QED
      BY <2>2, <3>1 DEF Uploads
  <2> QED
    BY ZenonT(60), <1>5, <1>6, <1>8, <2>1, <2>3 DEF UploadInv, Fresh, Kept, Whole, UploadInOrder
<1>10. CASE rooted
  <2> DEFINE what == IF len = 1 THEN "full" ELSE "short"
             n == x.last_ack
  <2>1. /\ stored' \in [Files -> Seq(Stored)] /\ UploadInOrder'
        /\ \A f \in Files \ {x.file} : stored'[f] = stored[f]
        /\ Len(stored'[x.file]) = n + 1
        /\ \A i \in 1..n : stored'[x.file][i].from = k /\ stored'[x.file][i].len = "full"
        /\ stored'[x.file][n + 1].from = k /\ stored'[x.file][n + 1].len = what
    <3>1. Writes(x, k, x.next_block_expected, what)
      BY <1>1, <1>2 DEF Store
    <3>2. what \in {"full", "short", "torn"} /\ Writing(x)
      OBVIOUS
    <3> HIDE DEF what
    <3> QED
      BY <1>2, <1>6, <1>10, <3>1, <3>2, BlockWritten
  <2>2. \A i \in 1..(n + 1) : i \in 1..n \/ i = n + 1
    BY <1>1
  <2>3. x.file \in created /\ \A j \in Keys \ {k} : Writing(active[j]) => active[j].file # x.file
    BY <1>6, <1>10 DEF UploadInv, Uploads, UploadOK, OneWriter
  <2>4. Uploads'
    <3>w. what # "torn" /\ (len # 0 => what = "full")
      OBVIOUS
    <3> HIDE DEF y, what
    <3>1. UploadOK(k, active[k])'
      <4>1. /\ active'[k].next_block_expected = active'[k].last_ack + 1
            /\ active'[k].last_ack = active'[k].bytes_received + (IF active'[k].complete THEN 1 ELSE 0)
        <5>1. y.next_block_expected = y.last_ack + 1
          BY <1>5
        <5> QED
          BY <1>y, <1>7, <5>1, Zenon
      <4>2. /\ active'[k].file \in created' /\ Len(stored'[active'[k].file]) = active'[k].last_ack
        BY <1>2, <1>5, <1>7, <2>1, <2>3
      <4>3. \A i \in 1..Len(stored'[active'[k].file]) :
              /\ stored'[active'[k].file][i].from = k /\ stored'[active'[k].file][i].len # "torn"
              /\ ~active'[k].complete => stored'[active'[k].file][i].len = "full"
        BY ZenonT(60), <1>2, <1>5, <1>y, <1>7, <2>1, <2>2, <3>w
      <4> QED
        BY <4>1, <4>2, <4>3 DEF UploadOK
    <3>2. ASSUME NEW j \in Keys \ {k}, Writing(active'[j]) PROVE UploadOK(j, active[j])' /\ active'[j] = active[j]
      <4>1. active'[j] = active[j] /\ Writing(active[j]) /\ UploadOK(j, active[j])
        BY <1>6, <1>7, <3>2 DEF UploadInv, Uploads
      <4>2. active[j].file \in Files \ {x.file}
        BY <2>3, <4>1, UploadFacts DEF TInv
      <4> QED
        BY <2>1, <4>1, <4>2 DEF UploadOK
    <3> QED
      BY <3>1, <3>2 DEF Uploads
  <2>5. told' = [told EXCEPT ![x.file] = IF b > told[x.file] THEN b ELSE told[x.file]]
    BY <1>10 DEF Store, Tells
  <2>6. /\ told' \in [Files -> Blocks] /\ \A f \in Files \ {x.file} : told'[f] = told[f]
        /\ told'[x.file] \in {told[x.file], b}
    BY <1>1, <1>6, <2>5
  <2>7. Fresh'
    BY <1>6, <1>10, <2>1, <2>3, <2>6 DEF UploadInv, Fresh
  <2>8. Kept'
    <3> SUFFICES ASSUME NEW f \in Files PROVE \E m \in Nat : Whole(f)' = 1..m /\ told'[f] <= m
      BY DEF Kept
    <3>1. PICK m \in Nat : Whole(f) = 1..m /\ told[f] <= m
      BY <1>6 DEF UploadInv, Kept
    <3>2. CASE f # x.file
      BY ZenonT(60), <2>1, <2>6, <3>1, <3>2 DEF Whole
    <3>3. CASE f = x.file
      <4>1. Whole(f)' = 1..(n + 1)
        BY <2>1, <2>2, <3>3 DEF Whole
      <4>2. m = n
        BY <1>1, <1>10, <3>1, <3>3
      <4>3. told[f] \in Nat /\ n + 1 \in Nat
        BY SMTT(30), <1>1, <1>6, TftpAssumption DEF Blocks
      <4>4. told'[f] \in {told[f], n + 1}
        BY <1>2, <2>6, <3>3
      <4>5. told'[f] <= n + 1
        BY <1>1, <3>1, <4>2, <4>3, <4>4
      <4> QED
        BY <4>1, <4>3, <4>5
    <3> QED
      BY <3>2, <3>3
  <2> QED
    BY SMTT(30), <1>5, <1>8, <2>1, <2>4, <2>6, <2>7, <2>8 DEF UploadInv
<1> QED
  BY <1>9, <1>10

\* The block cannot be written: the upload ends, part of the block may be there.
LEMMA UploadBreaks ==
    ASSUME TInv, NEW k \in Keys, Writing(active[k]), NEW b \in Blocks, NEW len \in {0, 1},
           Expected(active[k], b), StoreFails(active[k], k, b, len), UNCHANGED <<rooted, created>>
    PROVE  UploadInv' /\ stored' \in [Files -> Seq(Stored)] /\ told' = told
<1> DEFINE x == active[k]
           n == x.last_ack
<1>1. /\ x.file \in Files /\ n \in Nat /\ x.next_block_expected = n + 1 /\ b = n + 1 /\ ~x.complete
      /\ Whole(x.file) = 1..n /\ rooted
  BY UploadFacts DEF Expected, StoreFails
<1>2. TftpTypeOK /\ UploadInv /\ stored \in [Files -> Seq(Stored)]
  BY DEF TInv, UploadInv, TftpTypeOK, Stored
<1>3. Put(k, None) /\ told' = told /\ None \in Transfer
  BY DEF StoreFails, Transfer
<1>4. Ends /\ ~Writing(active'[k])
  BY <1>2, <1>3, PutFacts, Kinds DEF Ends
<1>5. CASE stored' = stored
  BY <1>2, <1>3, <1>4, <1>5, UploadsQuiet
<1>6. CASE Writes(x, k, b, "torn")
  <2>1. /\ stored' \in [Files -> Seq(Stored)] /\ UploadInOrder'
        /\ \A f \in Files \ {x.file} : stored'[f] = stored[f]
        /\ Len(stored'[x.file]) = n + 1
        /\ \A i \in 1..n : stored'[x.file][i].from = k /\ stored'[x.file][i].len = "full"
        /\ stored'[x.file][n + 1].from = k /\ stored'[x.file][n + 1].len = "torn"
    BY SMTT(30), <1>1, <1>6, BlockWritten
  <2>2. \A i \in 1..(n + 1) : i \in 1..n \/ i = n + 1
    BY <1>1
  <2>3. x.file \in created /\ \A j \in Keys \ {k} : Writing(active[j]) => active[j].file # x.file
    BY <1>1, <1>2 DEF UploadInv, Uploads, UploadOK, OneWriter
  <2>4. Uploads'
    <3>1. ASSUME NEW j \in Keys, Writing(active'[j]) PROVE UploadOK(j, active[j])' /\ active'[j] = active[j]
      <4>1. j # k /\ active'[j] = active[j] /\ Writing(active[j]) /\ UploadOK(j, active[j])
        BY <1>2, <1>4, <3>1 DEF UploadInv, Uploads, Ends
      <4>2. active[j].file \in Files \ {x.file}
        BY <2>3, <4>1, UploadFacts DEF TInv
      <4> QED
        BY SMTT(30), <2>1, <4>1, <4>2 DEF UploadOK
    <3> QED
      BY SMTT(30), <3>1 DEF Uploads
  <2>5. OneWriter'
    BY <1>2, <1>4 DEF UploadInv, OneWriter, Ends
  <2>6. Fresh'
    BY <1>1, <1>2, <1>3, <2>1, <2>3 DEF UploadInv, Fresh
  <2>7. Kept'
    <3> SUFFICES ASSUME NEW f \in Files PROVE \E m \in Nat : Whole(f)' = 1..m /\ told'[f] <= m
      BY DEF Kept
    <3>1. PICK m \in Nat : Whole(f) = 1..m /\ told[f] <= m
      BY <1>2 DEF UploadInv, Kept
    <3>2. CASE f # x.file
      BY ZenonT(60), <1>3, <2>1, <3>1, <3>2 DEF Whole
    <3>3. CASE f = x.file
      <4>1. Whole(f)' = 1..n
        BY SMTT(30), <1>1, <2>1, <2>2, <3>3 DEF Whole
      <4> QED
        BY <1>1, <1>3, <3>1, <3>3, <4>1
    <3> QED
      BY <3>2, <3>3
  <2> QED
    BY <1>3, <2>1, <2>4, <2>5, <2>6, <2>7 DEF UploadInv
<1> QED
  BY <1>5, <1>6 DEF StoreFails

-----------------------------------------------------------------------------
(* Downloads *)

\* A step that sends no block keeps the downloads.
LEMMA DownloadsKept ==
    ASSUME Downloads, acked \subseteq acked', UNCHANGED gap,
           \A k \in Keys : active'[k] = active[k] \/ ~Reading(active'[k])
    PROVE  Downloads'
BY DEF Downloads, ReadOK, GapOK, Allowed

\* A block read from the file is sent.
LEMMA SentBlock ==
    ASSUME NEW k \in Keys, NEW f \in Files, NEW b \in 1..(FileBlocks + 1), Allowed(k, f, b), NEW x \in NewReads(f, b)
    PROVE  x \in Read /\ ReadOK(k, x) /\ x.file = f /\ x.last_block_sent = b
<1>1. PICK c \in MayBeShort(b) :
        x = [kind |-> "read", file |-> f, last_block_sent |-> b, complete |-> c]
  BY DEF NewReads
<1>2. c \in BOOLEAN /\ (b > FileBlocks => c) /\ b \in Blocks
  BY TftpAssumption DEF MayBeShort, Blocks
<1>3. x \in Read
  BY <1>1, <1>2 DEF Read
<1>4. x.file = f /\ x.last_block_sent = b /\ x.complete = c
  BY <1>1
<1>5. ~c => b <= FileBlocks
  BY <1>2, TftpAssumption
<1> QED
  BY <1>3, <1>4, <1>5 DEF ReadOK

-----------------------------------------------------------------------------
(* The handlers *)

\* The parts of the invariant that a step leaves when it touches only the table
\* and the history.
LEMMA Assemble ==
    ASSUME active' \in [Keys -> Transfer], stale' \subseteq InTable(active'), rooted' \in BOOLEAN,
           stored' \in [Files -> Seq(Stored)], created' \subseteq Files, gap' \in [Tasks -> Gap \cup {None}],
           acked' \subseteq Keys \X Files \X Blocks, told' \in [Files -> Blocks], late' \subseteq InTable(active'),
           UploadInv', Downloads', Limited'
    PROVE  TInv'
BY DEF TInv, TftpTypeOK, UploadInv, Transfer, Gap, Stored, InTable

\* A handler that keeps the table.
LEMMA KeepStep ==
    ASSUME TInv, KeepTable, UNCHANGED <<rooted, stored, created, gap, acked>>,
           told' = told \/ (\E k \in Keys : Writing(active[k]) /\ Tells(active[k].file, active[k].last_ack))
    PROVE  TInv'
<1>1. TftpTypeOK /\ UploadInv /\ Downloads /\ told \in [Files -> Blocks]
  BY DEF TInv, UploadInv, TftpTypeOK
<1>2. /\ active' \in [Keys -> Transfer] /\ stale' = {} /\ late' \subseteq InTable(active')
      /\ \A j \in Keys : active'[j] = active[j] \/ (~Writing(active'[j]) /\ ~Reading(active'[j]))
  BY <1>1, KeepFacts, Kinds
<1>3. Ends
  BY <1>2 DEF Ends
<1>4. UploadInv' /\ told' \in [Files -> Blocks]
  BY <1>1, <1>3, UploadsQuiet, UploadsTold
<1>5. Downloads'
  BY <1>1, <1>2, DownloadsKept
<1>6. Limited'
  BY KeepLimited
<1> QED
  BY <1>1, <1>2, <1>4, <1>5, <1>6, Assemble DEF TftpTypeOK, Gap, Stored

\* A handler that ends the transfer of k.
LEMMA EndStep ==
    ASSUME TInv, NEW k \in Keys, Put(k, None), UNCHANGED <<rooted, stored, created, told, gap>>,
           acked \subseteq acked', acked' \subseteq Keys \X Files \X Blocks
    PROVE  TInv'
<1>1. TftpTypeOK /\ UploadInv /\ Downloads /\ None \in Transfer
  BY DEF TInv, UploadInv, Transfer
<1>2. /\ active' \in [Keys -> Transfer] /\ stale' = {} /\ late' \subseteq InTable(active')
      /\ \A j \in Keys : active'[j] = active[j] \/ (~Writing(active'[j]) /\ ~Reading(active'[j]))
  BY <1>1, PutFacts, Kinds
<1>3. UploadInv'
  BY <1>1, <1>2, UploadsQuiet DEF Ends
<1>4. Downloads'
  BY <1>1, <1>2, DownloadsKept
<1>5. Limited'
  BY <1>1, PutLimited
<1> QED
  BY <1>1, <1>2, <1>3, <1>4, <1>5, Assemble DEF TftpTypeOK, Gap, Stored

LEMMA IgnoredStep == ASSUME TInv, Ignored PROVE TInv'
BY KeepStep DEF Ignored, diskVars, histVars

LEMMA ErrorStep == ASSUME TInv, NEW k \in Keys, error(k) PROVE TInv'
BY EndStep DEF error, diskVars, histVars, TInv, TftpTypeOK

LEMMA ExpireStep == ASSUME TInv, NEW k \in Keys, Expire(k) PROVE TInv'
<1> USE DEF Expire, diskVars, histVars
<1>1. TftpTypeOK /\ UploadInv /\ Downloads /\ Limited
  BY DEF TInv, UploadInv
<1>2. UploadInv' /\ Downloads'
  BY <1>1, UploadsQuiet, DownloadsKept DEF Ends
<1>3. Limited'
  BY <1>1 DEF Limited, InTable
<1> QED
  BY <1>1, <1>2, <1>3, Assemble DEF TftpTypeOK, Transfer, Gap, Stored, InTable

LEMMA ReadStep == ASSUME TInv, NEW k \in Keys, NEW f \in Files, read_request(k, f) PROVE TInv'
<1> USE DEF diskVars, histVars
<1>1. CASE KeepTable
  BY <1>1, KeepStep DEF read_request
<1>2. CASE ~KeepTable
  <2>1. PICK x \in NewReads(f, 1) : Put(k, x)
    BY <1>2 DEF read_request
  <2>2. /\ prune_tftp_transfers[k] = None /\ ~tftp_transfer_limit_reached(prune_tftp_transfers, k)
        /\ UNCHANGED <<rooted, stored, created, gap, acked, told>>
    BY <1>2 DEF read_request, DuplicateRead
  <2>3. x \in Read /\ ReadOK(k, x) /\ x \in Transfer
    <3>1. 1 \in 1..(FileBlocks + 1) /\ Allowed(k, f, 1)
      BY TftpAssumption DEF Allowed
    <3> QED
      BY <3>1, SentBlock DEF Transfer
  <2>4. TftpTypeOK /\ UploadInv /\ Downloads
    BY DEF TInv, UploadInv
  <2>5. /\ active' \in [Keys -> Transfer] /\ stale' = {} /\ late' \subseteq InTable(active') /\ active'[k] = x
        /\ \A j \in Keys \ {k} : active'[j] = active[j] \/ (~Writing(active'[j]) /\ ~Reading(active'[j]))
    BY <2>1, <2>3, <2>4, PutFacts, Kinds
  <2>6. UploadInv'
    BY <2>2, <2>3, <2>4, <2>5, UploadsQuiet, Kinds DEF Ends
  <2>7. Downloads'
    BY <2>2, <2>3, <2>4, <2>5 DEF Downloads, ReadOK, GapOK, Allowed
  <2>8. Limited'
    BY <2>1, <2>2, <2>3, PutLimited
  <2> QED
    BY <2>2, <2>4, <2>5, <2>6, <2>7, <2>8, Assemble DEF TftpTypeOK, Gap, Stored
<1> QED
  BY <1>1, <1>2

LEMMA AckStep == ASSUME TInv, NEW t \in Tasks, NEW k \in Keys, NEW b \in Blocks, ack(t, k, b) PROVE TInv'
<1> USE DEF diskVars
<1> DEFINE x == prune_tftp_transfers[k]
<1>1. TftpTypeOK /\ UploadInv /\ Downloads
  BY DEF TInv, UploadInv
<1>2. x = active[k] /\ x # None /\ x.kind = "read" /\ Reading(x) /\ UNCHANGED <<rooted, stored, created, told>>
  BY <1>1, PruneFacts DEF ack, Reading
<1>3. x \in Read /\ ReadOK(k, x) /\ x.file \in Files
  BY <1>1, <1>2, Kinds DEF TftpTypeOK, Downloads, Read, Write
<1>4. ASSUME acked' = acked \cup {<<k, x.file, b>>} PROVE acked \subseteq acked' /\ acked' \subseteq Keys \X Files \X Blocks
  BY <1>1, <1>3, <1>4 DEF TftpTypeOK
<1>5. CASE b = x.last_block_sent /\ x.complete
  BY <1>2, <1>4, <1>5, EndStep DEF ack
<1>6. CASE b = x.last_block_sent /\ ~x.complete
  <2>1. /\ KeepTable /\ acked' = acked \cup {<<k, x.file, b>>}
        /\ gap' = [gap EXCEPT ![t] = [key |-> k, file |-> x.file, block |-> wrapping_add(b)]]
    BY <1>6, TftpAssumption DEF ack
  <2>2. b \in 1..FileBlocks /\ wrapping_add(b) = b + 1 /\ b + 1 \in Blocks
    <3>1. b \in 1..FileBlocks
      BY <1>3, <1>6, TftpAssumption DEF ReadOK
    <3>2. b \in Nat /\ b + 1 < BlockModulus
      BY <3>1, TftpAssumption
    <3> QED
      BY <3>1, <3>2, NoWrap
  <2> DEFINE g == [key |-> k, file |-> x.file, block |-> b + 1]
  <2>3. g \in Gap /\ g.key = k /\ g.file = x.file /\ g.block = b + 1 /\ gap' = [gap EXCEPT ![t] = g]
    BY <1>3, <2>1, <2>2 DEF Gap
  <2> HIDE DEF g, x
  <2>4. gap \in [Tasks -> Gap \cup {None}]
    BY <1>1 DEF TftpTypeOK, Gap
  <2>5. gap' \in [Tasks -> Gap \cup {None}] /\ gap'[t] = g /\ \A s \in Tasks \ {t} : gap'[s] = gap[s]
    BY <2>3, <2>4
  <2>6. /\ active' \in [Keys -> Transfer] /\ stale' = {} /\ late' \subseteq InTable(active')
        /\ \A j \in Keys : active'[j] = active[j] \/ (~Writing(active'[j]) /\ ~Reading(active'[j]))
    BY <1>1, <2>1, KeepFacts, Kinds
  <2>7. UploadInv' /\ Limited'
    BY <1>1, <1>2, <2>1, <2>6, UploadsQuiet, KeepLimited DEF Ends
  <2>8. (b + 1) - 1 = b /\ b + 1 \in 1..(FileBlocks + 1)
    BY <2>2, TftpAssumption
  <2>9. \A s \in Tasks \ {t} : gap'[s] # None => GapOK(gap[s])'
    BY <1>1, <1>4, <2>1, <2>5 DEF Downloads, GapOK, Allowed
  <2>10. GapOK(gap[t])'
    BY <2>1, <2>3, <2>5, <2>8 DEF GapOK, Allowed
  <2>11. \A j \in Keys : Reading(active'[j]) => ReadOK(j, active[j])'
    BY <1>1, <1>4, <2>1, <2>6 DEF Downloads, ReadOK, Allowed
  <2>12. Downloads'
    BY <2>9, <2>10, <2>11 DEF Downloads
  <2> QED
    BY <1>1, <1>2, <1>4, <2>1, <2>5, <2>6, <2>7, <2>12, Assemble DEF TftpTypeOK, Stored
<1>7. CASE b # x.last_block_sent
  BY <1>2, <1>7, KeepStep DEF ack
<1> QED
  BY <1>5, <1>6, <1>7

LEMMA SendStep == ASSUME TInv, NEW t \in Tasks, send_next(t) PROVE TInv'
<1> USE DEF diskVars, histVars
<1> DEFINE g == gap[t]
<1>1. TftpTypeOK /\ UploadInv /\ Downloads /\ Limited /\ gap \in [Tasks -> Gap \cup {None}]
  BY DEF TInv, UploadInv, TftpTypeOK, Gap
<1>2. /\ g # None /\ gap' = [gap EXCEPT ![t] = None] /\ stale' = stale \ {g.key}
      /\ UNCHANGED <<rooted, stored, created, acked, told>>
  BY DEF send_next
<1>3. g \in Gap /\ GapOK(g) /\ g.key \in Keys /\ g.file \in Files /\ g.block \in 1..(FileBlocks + 1)
  BY <1>1, <1>2 DEF Downloads, Gap, GapOK
<1>4. PICK x \in Transfer :
        /\ active' = [active EXCEPT ![g.key] = x]
        /\ \/ x = None /\ late' = late \ {g.key}
           \/ x \in Read /\ ReadOK(g.key, x) /\ late' = IF active[g.key] = None THEN late \cup {g.key} ELSE late
  BY <1>3, SentBlock DEF send_next, Transfer, GapOK
<1> HIDE DEF g
<1>5. /\ active' \in [Keys -> Transfer] /\ active'[g.key] = x /\ \A j \in Keys \ {g.key} : active'[j] = active[j]
  BY <1>1, <1>3, <1>4 DEF TftpTypeOK, Transfer
<1>6. ~Writing(x) /\ (x # None => Reading(x))
  BY <1>4, Kinds
<1>7. UploadInv'
  BY <1>1, <1>2, <1>5, <1>6, UploadsQuiet DEF Ends
<1>8. Downloads'
  <2>1. \A s \in Tasks : gap'[s] # None => gap'[s] = gap[s]
    BY <1>1, <1>2
  <2>2. \A s \in Tasks : gap'[s] # None => GapOK(gap[s])'
    BY <1>1, <1>2, <2>1 DEF Downloads, GapOK, Allowed
  <2>3. \A k \in Keys : Reading(active'[k]) => ReadOK(k, active[k])'
    BY <1>1, <1>2, <1>4, <1>5, Kinds DEF Downloads, ReadOK, Allowed
  <2> QED
    BY <2>2, <2>3 DEF Downloads
<1>9. /\ stale' \subseteq InTable(active') /\ late' \subseteq InTable(active')
      /\ \A k \in late' : Reading(active'[k])
  BY <1>1, <1>2, <1>3, <1>4, <1>5, <1>6, Kinds DEF TftpTypeOK, Limited, InTable
<1>10. IsFiniteSet(InTable(active')) /\ Cardinality(InTable(active') \ late') <= MaxActive
  <2>1. CASE x = None \/ active[g.key] # None
    <3>1. InTable(active') \subseteq InTable(active) /\ InTable(active') \ late' \subseteq InTable(active) \ late
      BY <1>3, <1>4, <1>5, <2>1 DEF InTable
    <3> QED
      BY <1>1, <3>1, LimitFewer
  <2>2. CASE x # None /\ active[g.key] = None
    <3>1. InTable(active') = InTable(active) \cup {g.key} /\ InTable(active') \ late' = InTable(active) \ late
      BY <1>3, <1>4, <1>5, <2>2 DEF InTable
    <3>2. IsFiniteSet(InTable(active) \cup {g.key})
      BY <1>1, FS_AddElement DEF Limited
    <3> QED
      BY <1>1, <3>1, <3>2 DEF Limited
  <2> QED
    BY <2>1, <2>2
<1>11. gap' \in [Tasks -> Gap \cup {None}]
  BY <1>1, <1>2
<1> QED
  BY <1>1, <1>2, <1>5, <1>7, <1>8, <1>9, <1>10, <1>11, Assemble DEF TftpTypeOK, Stored, Limited

LEMMA WriteStep == ASSUME TInv, NEW k \in Keys, NEW f \in Files, write_request(k, f) PROVE TInv'
<1>1. TftpTypeOK /\ UploadInv /\ Downloads
  BY DEF TInv, UploadInv
<1>2. CASE KeepTable /\ UNCHANGED <<created, told>>
  BY <1>2, KeepStep DEF write_request
<1>3. CASE /\ DuplicateWrite(prune_tftp_transfers, k, f) /\ KeepTable /\ Tells(f, prune_tftp_transfers[k].last_ack)
           /\ UNCHANGED created
  <2>1. Writing(active[k]) /\ active[k].file = f /\ Tells(active[k].file, active[k].last_ack)
    BY <1>1, <1>3, PruneFacts DEF DuplicateWrite, Writing
  <2> QED
    BY <1>3, <2>1, KeepStep DEF write_request
<1>4. CASE /\ prune_tftp_transfers[k] = None /\ ~tftp_transfer_limit_reached(prune_tftp_transfers, k)
           /\ open_upload_file(f) /\ created' = (IF rooted THEN created \cup {f} ELSE created)
           /\ Put(k, NewWrite(f)) /\ Tells(f, 0)
  <2> DEFINE x == NewWrite(f)
  <2>1. UNCHANGED <<rooted, stored, gap, acked>>
    BY DEF write_request
  <2>2. UploadInv' /\ told' = told /\ x \in Write
    BY <1>4, <2>1, UploadBegins
  <2>3. Put(k, x) /\ x \in Transfer
    BY <1>4, <2>2 DEF Transfer
  <2> HIDE DEF x
  <2>4. /\ active' \in [Keys -> Transfer] /\ stale' = {} /\ late' \subseteq InTable(active') /\ active'[k] = x
        /\ \A j \in Keys \ {k} : active'[j] = active[j] \/ ~Reading(active'[j])
    BY <1>1, <2>3, PutFacts, Kinds
  <2>5. Downloads'
    BY <1>1, <2>1, <2>2, <2>4, DownloadsKept, Kinds
  <2>6. Limited'
    BY <1>4, <2>3, PutLimited
  <2>7. created' \subseteq Files
    BY <1>1, <1>4 DEF TftpTypeOK
  <2> QED
    BY <1>1, <2>1, <2>2, <2>4, <2>5, <2>6, <2>7, Assemble DEF TftpTypeOK, Gap, Stored
<1> QED
  BY <1>2, <1>3, <1>4 DEF write_request

LEMMA DataStep ==
    ASSUME TInv, NEW k \in Keys, NEW b \in Blocks, NEW len \in {0, 1}, data(k, b, len)
    PROVE  TInv'
<1> DEFINE x == active[k]
<1>1. TftpTypeOK /\ UploadInv /\ Downloads /\ UNCHANGED <<rooted, created, gap, acked>>
  BY DEF TInv, UploadInv, data
<1>2. prune_tftp_transfers[k] = x /\ Writing(x)
  BY <1>1, PruneFacts DEF data, Writing
<1>3. CASE KeepTable /\ Tells(x.file, x.last_ack) /\ UNCHANGED stored
  BY <1>1, <1>2, <1>3, KeepStep
<1>4. CASE Put(k, None) /\ UNCHANGED <<stored, told>>
  BY <1>1, <1>4, EndStep DEF TftpTypeOK
<1>5. CASE Expected(x, b) /\ Fits(x, len) /\ Store(x, k, b, len)
  <2> DEFINE y == Accepted(x, b, len)
  <2>1. UploadInv' /\ y \in Write /\ stored' \in [Files -> Seq(Stored)] /\ told' \in [Files -> Blocks]
    BY <1>1, <1>2, <1>5, UploadGoesOn
  <2>2. Put(k, y) /\ y \in Transfer
    BY <1>5, <2>1 DEF Store, Transfer
  <2> HIDE DEF y
  <2>3. /\ active' \in [Keys -> Transfer] /\ stale' = {} /\ late' \subseteq InTable(active') /\ active'[k] = y
        /\ \A j \in Keys \ {k} : active'[j] = active[j] \/ ~Reading(active'[j])
    BY <1>1, <2>2, PutFacts, Kinds
  <2>4. Downloads'
    BY <1>1, <2>1, <2>3, DownloadsKept, Kinds
  <2>5. Limited'
    BY <1>2, <2>2, PutLimited
  <2> QED
    BY <1>1, <2>1, <2>3, <2>4, <2>5, Assemble DEF TftpTypeOK, Gap
<1>6. CASE Expected(x, b) /\ StoreFails(x, k, b, len)
  <2>1. UploadInv' /\ stored' \in [Files -> Seq(Stored)] /\ told' = told
    BY <1>1, <1>2, <1>6, UploadBreaks
  <2>2. Put(k, None) /\ None \in Transfer
    BY <1>6 DEF StoreFails, Transfer
  <2>3. /\ active' \in [Keys -> Transfer] /\ stale' = {} /\ late' \subseteq InTable(active')
        /\ \A j \in Keys : active'[j] = active[j] \/ ~Reading(active'[j])
    BY <1>1, <2>2, PutFacts, Kinds
  <2>4. Downloads'
    BY <1>1, <2>3, DownloadsKept
  <2>5. Limited'
    BY <2>2, PutLimited
  <2> QED
    BY <1>1, <2>1, <2>3, <2>4, <2>5, Assemble DEF TftpTypeOK, Gap
<1> QED
  BY <1>2, <1>3, <1>4, <1>5, <1>6 DEF data

-----------------------------------------------------------------------------
(* The theorem *)

LEMMA TftpInitInv == TftpInit => TInv
<1> SUFFICES ASSUME TftpInit PROVE TInv
  OBVIOUS
<1>1. /\ \A k \in Keys : active[k] = None
      /\ \A f \in Files : stored[f] = <<>> /\ told[f] = 0
      /\ \A t \in Tasks : gap[t] = None
  BY DEF TftpInit
<1>2. TftpTypeOK
  BY TftpAssumption DEF TftpInit, TftpTypeOK, Blocks
<1>3. Uploads /\ OneWriter /\ Fresh /\ UploadInOrder /\ Downloads
  BY <1>1, Kinds DEF TftpInit, Uploads, OneWriter, Fresh, UploadInOrder, Downloads
<1>4. Kept
  <2>1. \A f \in Files : Whole(f) = {}
    BY <1>1 DEF Whole
  <2>2. 1..0 = {} /\ 0 \in Nat
    OBVIOUS
  <2>3. \A f \in Files : Whole(f) = 1..0 /\ told[f] <= 0
    BY <1>1, <2>1, <2>2
  <2> QED
    BY <2>2, <2>3 DEF Kept
<1>5. Limited
  <2>1. InTable(active) = {} /\ late = {}
    BY <1>1 DEF InTable, TftpInit
  <2> QED
    BY <2>1, FS_EmptySet, TftpAssumption DEF Limited
<1> QED
  BY <1>2, <1>3, <1>4, <1>5 DEF TInv

\* What a TFTP client is told is what happened: an upload is stored in order
\* and once, an acknowledged block is stored, a block follows the
\* acknowledgement of its predecessor, and new transfers stop at the limit
\* (udp_tftp.rs, whatever order datagrams and tasks come in).
THEOREM TransfersAreFaithful == TftpSpec => []TransfersFaithful
<1>1. TInv /\ TftpNext => TInv'
  BY IgnoredStep, ExpireStep, ErrorStep, ReadStep, WriteStep, AckStep, DataStep, SendStep DEF TftpNext
<1>2. TInv /\ UNCHANGED tftpVars => TInv'
  <2> SUFFICES ASSUME TInv, UNCHANGED tftpVars PROVE TInv'
    OBVIOUS
  <2> USE DEF tftpVars, tableVars, diskVars, histVars
  <2>1. TftpTypeOK /\ UploadInv /\ Downloads /\ Limited
    BY DEF TInv, UploadInv
  <2>2. UploadInv' /\ Downloads'
    BY <2>1, UploadsQuiet, DownloadsKept DEF Ends
  <2>3. TftpTypeOK' /\ Limited'
    BY <2>1 DEF TftpTypeOK, Limited, InTable
  <2> QED
    BY <2>2, <2>3 DEF TInv, UploadInv
<1>3. TInv => TransfersFaithful
  <2> SUFFICES ASSUME TInv PROVE TransfersFaithful
    OBVIOUS
  <2>1. AckedIsStored
    <3> SUFFICES ASSUME NEW f \in Files
                 PROVE  told[f] <= Cardinality({i \in DOMAIN stored[f] : stored[f][i].len # "torn"})
      BY DEF AckedIsStored
    <3>1. PICK n \in Nat : Whole(f) = 1..n /\ told[f] <= n
      BY DEF TInv, Kept
    <3>2. Cardinality(1..n) = n
      BY <3>1, FS_Interval
    <3>3. DOMAIN stored[f] = 1..Len(stored[f])
      BY DEF TInv, TftpTypeOK
    <3> QED
      BY <3>1, <3>2, <3>3 DEF Whole
  <2>2. LockStep
    BY DEF TInv, Downloads, ReadOK, GapOK, Reading, Allowed, LockStep
  <2>3. TransferLimit
    BY DEF TInv, Limited, InTable, TransferLimit
  <2> QED
    BY <2>1, <2>2, <2>3 DEF TInv, TransfersFaithful
<1> QED
  BY TftpInitInv, <1>1, <1>2, <1>3, PTL DEF TftpSpec

-----------------------------------------------------------------------------
(* The FTP service.  The permits are counted over the clients; the replies *)
(* are numbered by the commands they answer.                               *)

Replies == [code : Nat, of : Nat]
DataState == [listener : PassivePorts \cup {0}, permit : BOOLEAN, active : BOOLEAN]

FtpTypes ==
    /\ conn \in [Clients -> {"open", "closed"}]
    /\ queue \in [Clients -> Seq(Commands)] /\ asked \in [Clients -> Seq(Commands)]
    /\ resp \in [Clients -> Seq(Replies)] /\ written \in [Clients -> Seq(Replies)]
    /\ passive \in [Clients -> DataState]
    /\ busy \in [Clients -> {"none", "passive", "active"}]
    /\ permits \in Nat

\* s holds the final replies to the commands 1 .. n and to no other, and at
\* most the 150 of the next one.
Answered(s, n) ==
    /\ \A m \in 1 .. n : \E p \in 1 .. Len(s) : Final(s[p]) /\ s[p].of = m
    /\ \A p \in 1 .. Len(s) : Final(s[p]) => s[p].of <= n
Announced(s, n) == \A p \in 1 .. Len(s) : ~Final(s[p]) => s[p].of <= n

\* The commands of c that have been answered in full.
Taken(c) == Len(asked[c]) - Len(queue[c])
Handled(c) == IF busy[c] = "none" THEN Taken(c) ELSE Taken(c) - 1

\* QUIT was answered: what else came with it is forgotten.
Quitting(c) == /\ queue[c] = <<>> /\ busy[c] = "none" /\ resp[c] # <<>>
               /\ resp[c][Len(resp[c])].code = 221

Numbered == \A c \in Clients :
    /\ Handled(c) \in Nat
    /\ busy[c] # "none" => conn[c] = "open"
    /\ conn[c] = "open" /\ ~Quitting(c) =>
          Answered(written[c] \o resp[c], Handled(c)) /\ Announced(written[c] \o resp[c], Taken(c))

Sockets == {c \in Clients : passive[c].permit}
Transfers == {c \in Clients : busy[c] # "none"}

FtpInv == FtpTypes /\ DataSocketExact /\ PermitsExact /\ AnswersInOrder /\ Numbered

-----------------------------------------------------------------------------
(* Replies in order *)

\* t is s with x put in behind position k.
PutIn(t, s, k, x) ==
    /\ Len(t) = Len(s) + 1 /\ t[k + 1] = x
    /\ \A i \in 1 .. k : t[i] = s[i]
    /\ \A i \in k + 1 .. Len(s) : t[i + 1] = s[i]

LEMMA AppendedLast ==
    ASSUME NEW w \in Seq(Replies), NEW r \in Seq(Replies), NEW x \in Replies
    PROVE  /\ w \o r \in Seq(Replies) /\ Append(r, x) \in Seq(Replies) /\ w \o Append(r, x) \in Seq(Replies)
           /\ PutIn(w \o Append(r, x), w \o r, Len(w \o r), x)
  BY DEF PutIn

LEMMA PutBetween ==
    ASSUME NEW w \in Seq(Replies), NEW r \in Seq(Replies), NEW x \in Replies
    PROVE  /\ w \o r \in Seq(Replies) /\ Append(w, x) \in Seq(Replies) /\ Append(w, x) \o r \in Seq(Replies)
           /\ Len(w) \in 0 .. Len(w \o r)
           /\ PutIn(Append(w, x) \o r, w \o r, Len(w), x)
  BY DEF PutIn

LEMMA Numbers ==
    ASSUME NEW s \in Seq(Replies)
    PROVE  /\ Len(s) \in Nat /\ DOMAIN s = 1 .. Len(s)
           /\ \A i \in 1 .. Len(s) : s[i] \in Replies /\ s[i].of \in Nat
<1>1. /\ Len(s) \in Nat /\ DOMAIN s = 1 .. Len(s) /\ \A i \in 1 .. Len(s) : s[i] \in Replies
  BY LenProperties
<1> QED
  BY <1>1 DEF Replies

LEMMA AnnouncedMore ==
    ASSUME NEW s \in Seq(Replies), NEW n \in Nat, Announced(s, n) PROVE Announced(s, n + 1)
<1>1. \A p \in 1 .. Len(s) : s[p].of \in Nat
  BY Numbers
<1> QED
  BY <1>1 DEF Announced

\* The final reply to the next command.
LEMMA NextFinal ==
    ASSUME NEW s \in Seq(Replies), NEW t \in Seq(Replies), NEW x \in Replies, NEW n \in Nat,
           PutIn(t, s, Len(s), x), Final(x), x.of = n + 1, InOrder(s), Answered(s, n), Announced(s, n + 1)
    PROVE  InOrder(t) /\ Answered(t, n + 1) /\ Announced(t, n + 1)
<1>1. /\ Len(s) \in Nat /\ Len(t) = Len(s) + 1 /\ t[Len(s) + 1] = x /\ (\A i \in 1 .. Len(s) : t[i] = s[i])
      /\ DOMAIN s = 1 .. Len(s) /\ DOMAIN t = 1 .. Len(s) + 1
      /\ \A i \in 1 .. Len(s) : s[i].of \in Nat
  BY Numbers DEF PutIn
<1>2. Answered(t, n + 1)
  <2>1. \A p \in 1 .. Len(t) : Final(t[p]) => t[p].of <= n + 1
    BY SMTT(30), <1>1 DEF Answered
  <2>2. ASSUME NEW m \in 1 .. n + 1 PROVE \E p \in 1 .. Len(t) : Final(t[p]) /\ t[p].of = m
    <3>1. CASE m = n + 1
      BY <1>1, <3>1
    <3>2. CASE m \in 1 .. n
      BY SMTT(30), <1>1, <3>2 DEF Answered
    <3> QED
      BY <3>1, <3>2
  <2> QED
    BY <2>1, <2>2 DEF Answered
<1>3. Announced(t, n + 1)
  BY <1>1 DEF Announced
<1>4. ASSUME NEW q \in DOMAIN t, Final(t[q])
      PROVE  /\ t[q].of >= 1
             /\ \A p \in 1 .. q - 1 : Final(t[p]) => t[p].of < t[q].of
             /\ \A m \in 1 .. t[q].of - 1 : \E p \in 1 .. q - 1 : Final(t[p]) /\ t[p].of = m
  <2>1. CASE q \in 1 .. Len(s)
    <3>1. t[q] = s[q] /\ Final(s[q]) /\ q \in DOMAIN s
      BY <1>1, <1>4, <2>1
    <3>2. \A p \in 1 .. q - 1 : t[p] = s[p]
      BY <1>1, <2>1
    <3>3. /\ s[q].of >= 1
          /\ \A p \in 1 .. q - 1 : Final(s[p]) => s[p].of < s[q].of
          /\ \A m \in 1 .. s[q].of - 1 : \E p \in 1 .. q - 1 : Final(s[p]) /\ s[p].of = m
      BY <3>1 DEF InOrder
    <3>4. \A m \in 1 .. t[q].of - 1 : \E p \in 1 .. q - 1 : Final(t[p]) /\ t[p].of = m
      <4> SUFFICES ASSUME NEW m \in 1 .. t[q].of - 1 PROVE \E p \in 1 .. q - 1 : Final(t[p]) /\ t[p].of = m
        OBVIOUS
      <4>1. PICK p \in 1 .. q - 1 : Final(s[p]) /\ s[p].of = m
        BY <3>1, <3>3
      <4> QED
        BY <3>2, <4>1
    <3> QED
      BY <3>1, <3>2, <3>3, <3>4
  <2>2. CASE q = Len(s) + 1
    <3>1. t[q] = x /\ t[q].of = n + 1 /\ \A p \in 1 .. q - 1 : t[p] = s[p] /\ p \in 1 .. Len(s)
      BY <1>1, <2>2
    <3>2. \A p \in 1 .. q - 1 : Final(t[p]) => t[p].of < t[q].of
      BY <1>1, <3>1 DEF Answered
    <3>3. \A m \in 1 .. n : \E p \in 1 .. q - 1 : Final(t[p]) /\ t[p].of = m
      BY SMTT(30), <1>1, <2>2, <3>1 DEF Answered
    <3> QED
      BY <3>1, <3>2, <3>3
  <2> QED
    BY <1>1, <1>4, <2>1, <2>2
<1>5. ASSUME NEW p \in DOMAIN t, NEW q \in DOMAIN t, ~Final(t[p]), Final(t[q]), t[q].of = t[p].of
      PROVE  p < q
  <2>1. p \in 1 .. Len(s) /\ t[p] = s[p]
    BY <1>1, <1>5
  <2>2. CASE q \in 1 .. Len(s)
    BY <1>1, <1>5, <2>1, <2>2 DEF InOrder
  <2>3. CASE q = Len(s) + 1
    BY <1>1, <2>1, <2>3
  <2> QED
    BY <1>1, <2>2, <2>3
<1>6. InOrder(t)
  BY <1>4, <1>5 DEF InOrder
<1> QED
  BY <1>2, <1>3, <1>6

\* The 150 of the next command, wherever it is put.
LEMMA NextNote ==
    ASSUME NEW s \in Seq(Replies), NEW t \in Seq(Replies), NEW x \in Replies, NEW n \in Nat, NEW k \in 0 .. Len(s),
           PutIn(t, s, k, x), ~Final(x), x.of = n + 1, InOrder(s), Answered(s, n), Announced(s, n + 1)
    PROVE  InOrder(t) /\ Answered(t, n) /\ Announced(t, n + 1)
<1> DEFINE Old(i) == IF i <= k THEN i ELSE i - 1
           New(i) == IF i <= k THEN i ELSE i + 1
<1>1. /\ Len(s) \in Nat /\ Len(t) = Len(s) + 1 /\ t[k + 1] = x /\ k \in Nat
      /\ DOMAIN s = 1 .. Len(s) /\ DOMAIN t = 1 .. Len(s) + 1
      /\ \A i \in 1 .. Len(s) : s[i].of \in Nat
  BY Numbers DEF PutIn
<1>2. \A i \in 1 .. Len(s) : New(i) \in 1 .. Len(t) /\ t[New(i)] = s[i]
  BY <1>1 DEF PutIn
<1>3. \A i \in 1 .. Len(t) : i # k + 1 => Old(i) \in 1 .. Len(s) /\ t[i] = s[Old(i)] /\ New(Old(i)) = i
  <2> SUFFICES ASSUME NEW i \in 1 .. Len(t), i # k + 1
               PROVE  Old(i) \in 1 .. Len(s) /\ t[i] = s[Old(i)] /\ New(Old(i)) = i
    OBVIOUS
  <2>1. CASE i <= k
    BY <1>1, <2>1 DEF PutIn
  <2>2. CASE i > k
    <3>1. i - 1 \in k + 1 .. Len(s) /\ (i - 1) + 1 = i
      BY <1>1, <2>2
    <3>2. t[(i - 1) + 1] = s[i - 1]
      BY <3>1 DEF PutIn
    <3> QED
      BY <1>1, <2>2, <3>1, <3>2
  <2> QED
    BY <1>1, <2>1, <2>2
<1>4. \A i, j \in 1 .. Len(t) : i # k + 1 /\ j # k + 1 /\ i < j => Old(i) < Old(j)
  BY <1>1
<1>5. \A i, j \in 1 .. Len(s) : i < j => New(i) < New(j)
  BY <1>1
<1>6. \A i \in 1 .. Len(t) : Final(t[i]) => i # k + 1
  BY <1>1
<1> HIDE DEF Old, New
<1>7. Answered(t, n)
  <2>1. \A p \in 1 .. Len(t) : Final(t[p]) => t[p].of <= n
    BY <1>3, <1>6 DEF Answered
  <2>2. \A m \in 1 .. n : \E p \in 1 .. Len(t) : Final(t[p]) /\ t[p].of = m
    <3> SUFFICES ASSUME NEW m \in 1 .. n PROVE \E p \in 1 .. Len(t) : Final(t[p]) /\ t[p].of = m
      OBVIOUS
    <3>1. PICK p \in 1 .. Len(s) : Final(s[p]) /\ s[p].of = m
      BY DEF Answered
    <3> QED
      BY <1>2, <3>1
  <2> QED
    BY <2>1, <2>2 DEF Answered
<1>8. Announced(t, n + 1)
  <2> SUFFICES ASSUME NEW p \in 1 .. Len(t), ~Final(t[p]) PROVE t[p].of <= n + 1
    BY DEF Announced
  <2>1. CASE p = k + 1
    BY <1>1, <2>1
  <2>2. CASE p # k + 1
    <3>1. Old(p) \in 1 .. Len(s) /\ t[p] = s[Old(p)]
      BY <1>3, <2>2
    <3> QED
      BY <2>2, <3>1 DEF Announced
  <2> QED
    BY <2>1, <2>2
<1>9. ASSUME NEW q \in DOMAIN t, Final(t[q])
      PROVE  /\ t[q].of >= 1
             /\ \A p \in 1 .. q - 1 : Final(t[p]) => t[p].of < t[q].of
             /\ \A m \in 1 .. t[q].of - 1 : \E p \in 1 .. q - 1 : Final(t[p]) /\ t[p].of = m
  <2>1. /\ q \in 1 .. Len(t) /\ q # k + 1 /\ Old(q) \in 1 .. Len(s) /\ t[q] = s[Old(q)] /\ Final(s[Old(q)])
        /\ New(Old(q)) = q
    BY <1>1, <1>3, <1>6, <1>9
  <2>2. /\ s[Old(q)].of >= 1
        /\ \A p \in 1 .. Old(q) - 1 : Final(s[p]) => s[p].of < s[Old(q)].of
        /\ \A m \in 1 .. s[Old(q)].of - 1 : \E p \in 1 .. Old(q) - 1 : Final(s[p]) /\ s[p].of = m
    BY <1>1, <2>1 DEF InOrder
  <2>3. ASSUME NEW p \in 1 .. q - 1, Final(t[p]) PROVE t[p].of < t[q].of
    <3>1. p \in 1 .. Len(t) /\ p < q /\ p # k + 1
      BY <1>1, <1>6, <2>1, <2>3
    <3>2. Old(p) \in 1 .. Len(s) /\ Old(p) < Old(q) /\ t[p] = s[Old(p)]
      BY <1>3, <1>4, <2>1, <3>1
    <3>3. Old(p) \in 1 .. Old(q) - 1
      BY <1>1, <2>1, <3>2
    <3> QED
      BY <2>1, <2>2, <2>3, <3>2, <3>3
  <2>4. ASSUME NEW m \in 1 .. t[q].of - 1 PROVE \E p \in 1 .. q - 1 : Final(t[p]) /\ t[p].of = m
    <3>1. PICK p \in 1 .. Old(q) - 1 : Final(s[p]) /\ s[p].of = m
      BY <2>1, <2>2
    <3>2. p \in 1 .. Len(s) /\ p < Old(q)
      BY SMTT(30), <1>1, <2>1
    <3>3. New(p) \in 1 .. Len(t) /\ New(p) < q /\ t[New(p)] = s[p]
      BY <1>2, <1>5, <2>1, <3>2
    <3>4. New(p) \in 1 .. q - 1
      BY <1>1, <2>1, <3>3
    <3> QED
      BY <3>1, <3>3, <3>4
  <2> QED
    BY <2>1, <2>2, <2>3, <2>4
<1>10. ASSUME NEW p \in DOMAIN t, NEW q \in DOMAIN t, ~Final(t[p]), Final(t[q]), t[q].of = t[p].of
       PROVE  p < q
  <2>1. q \in 1 .. Len(t) /\ q # k + 1 /\ Old(q) \in 1 .. Len(s) /\ t[q] = s[Old(q)] /\ New(Old(q)) = q
    BY <1>1, <1>3, <1>6, <1>10
  <2>2. p # k + 1
    <3>1. t[q].of <= n
      BY <1>1, <1>7, <1>10, <2>1 DEF Answered
    <3> QED
      BY <1>1, <1>10, <2>1, <3>1
  <2>3. p \in 1 .. Len(t) /\ Old(p) \in 1 .. Len(s) /\ t[p] = s[Old(p)] /\ New(Old(p)) = p
    BY <1>1, <1>3, <2>2
  <2>4. Old(p) < Old(q)
    BY SMTT(30), <1>1, <1>10, <2>1, <2>3 DEF InOrder
  <2> QED
    BY <1>5, <2>1, <2>3, <2>4
<1>11. InOrder(t)
  BY <1>9, <1>10 DEF InOrder
<1> QED
  BY <1>7, <1>8, <1>11

\* What was written is in order when that and what is collected are.
LEMMA WrittenPart ==
    ASSUME NEW w \in Seq(Replies), NEW r \in Seq(Replies), InOrder(w \o r) PROVE InOrder(w)
<1>1. /\ Len(w) \in Nat /\ Len(r) \in Nat /\ DOMAIN w = 1 .. Len(w) /\ DOMAIN (w \o r) = 1 .. Len(w) + Len(r)
      /\ \A i \in 1 .. Len(w) : (w \o r)[i] = w[i]
  BY ConcatProperties, LenProperties
<1> DEFINE s == w \o r
<1> HIDE DEF s
<1>2. /\ DOMAIN s = 1 .. Len(w) + Len(r) /\ \A i \in 1 .. Len(w) : s[i] = w[i]
      /\ InOrder(s)
  BY <1>1 DEF s
<1>3. ASSUME NEW q \in DOMAIN w, Final(w[q])
      PROVE  /\ w[q].of >= 1
             /\ \A p \in 1 .. q - 1 : Final(w[p]) => w[p].of < w[q].of
             /\ \A m \in 1 .. w[q].of - 1 : \E p \in 1 .. q - 1 : Final(w[p]) /\ w[p].of = m
  <2>1. s[q] = w[q] /\ (\A p \in 1 .. q - 1 : s[p] = w[p]) /\ Final(s[q]) /\ q \in DOMAIN s
    BY <1>1, <1>2, <1>3
  <2> QED
    BY SMTT(30), <1>2, <2>1 DEF InOrder
<1>4. ASSUME NEW p \in DOMAIN w, NEW q \in DOMAIN w, ~Final(w[p]), Final(w[q]), w[q].of = w[p].of
      PROVE  p < q
  <2>1. s[q] = w[q] /\ s[p] = w[p] /\ q \in DOMAIN s /\ p \in DOMAIN s
    BY <1>1, <1>2
  <2> QED
    BY <1>2, <1>4, <2>1 DEF InOrder
<1> QED
  BY <1>3, <1>4 DEF InOrder

-----------------------------------------------------------------------------
(* Permits *)

LEMMA ClientSets == \A X \in SUBSET Clients : IsFiniteSet(X) /\ Cardinality(X) \in Nat
  BY FtpAssumption, FS_Subset, FS_CardinalityType

\* One client more or less.
LEMMA CountOne ==
    ASSUME NEW X \in SUBSET Clients, NEW Y \in SUBSET Clients, NEW c \in Clients,
           \A b \in Clients \ {c} : b \in Y <=> b \in X
    PROVE  /\ c \in X /\ c \in Y => Cardinality(Y) = Cardinality(X)
           /\ c \notin X /\ c \notin Y => Cardinality(Y) = Cardinality(X)
           /\ c \notin X /\ c \in Y => Cardinality(Y) = Cardinality(X) + 1
           /\ c \in X /\ c \notin Y => Cardinality(X) = Cardinality(Y) + 1
<1>1. /\ c \in X /\ c \in Y => Y = X
      /\ c \notin X /\ c \notin Y => Y = X
      /\ c \notin X /\ c \in Y => Y = X \cup {c}
      /\ c \in X /\ c \notin Y => X = Y \cup {c}
  OBVIOUS
<1> QED
  BY <1>1, ClientSets, FS_AddElement

Busy(c) == IF busy[c] = "none" THEN 0 ELSE 1
Held(c) == IF passive[c].permit THEN 1 ELSE 0

\* A step of client c that gives back what it does not keep.
LEMMA PermitStep ==
    ASSUME FtpInv, FtpTypes', NEW c \in Clients,
           \A b \in Clients \ {c} : passive'[b] = passive[b] /\ busy'[b] = busy[b],
           permits' + Held(c)' + Busy(c)' = permits + Held(c) + Busy(c)
    PROVE  PermitsExact'
<1>1. /\ Sockets \in SUBSET Clients /\ Sockets' \in SUBSET Clients
      /\ Transfers \in SUBSET Clients /\ Transfers' \in SUBSET Clients
  BY DEF Sockets, Transfers
<1>2. (c \in Sockets <=> Held(c) = 1) /\ (c \notin Sockets <=> Held(c) = 0)
  BY DEF Sockets, Held
<1>3. (c \in Sockets' <=> Held(c)' = 1) /\ (c \notin Sockets' <=> Held(c)' = 0)
  BY DEF Sockets, Held
<1>4. (c \in Transfers <=> Busy(c) = 1) /\ (c \notin Transfers <=> Busy(c) = 0)
  BY DEF Transfers, Busy
<1>5. (c \in Transfers' <=> Busy(c)' = 1) /\ (c \notin Transfers' <=> Busy(c)' = 0)
  BY DEF Transfers, Busy
<1>6. \A b \in Clients \ {c} : (b \in Sockets' <=> b \in Sockets) /\ (b \in Transfers' <=> b \in Transfers)
  BY DEF Sockets, Transfers
<1>7. /\ Cardinality(Sockets) \in Nat /\ Cardinality(Sockets') \in Nat
      /\ Cardinality(Transfers) \in Nat /\ Cardinality(Transfers') \in Nat
  BY <1>1, ClientSets
<1>8. Cardinality(Sockets') + Held(c) = Cardinality(Sockets) + Held(c)'
  <2>1. /\ c \in Sockets /\ c \in Sockets' => Cardinality(Sockets') = Cardinality(Sockets)
        /\ c \notin Sockets /\ c \notin Sockets' => Cardinality(Sockets') = Cardinality(Sockets)
        /\ c \notin Sockets /\ c \in Sockets' => Cardinality(Sockets') = Cardinality(Sockets) + 1
        /\ c \in Sockets /\ c \notin Sockets' => Cardinality(Sockets) = Cardinality(Sockets') + 1
    BY <1>1, <1>6, CountOne
  <2> QED
    BY <1>2, <1>3, <1>7, <2>1
<1>9. Cardinality(Transfers') + Busy(c) = Cardinality(Transfers) + Busy(c)'
  <2>1. /\ c \in Transfers /\ c \in Transfers' => Cardinality(Transfers') = Cardinality(Transfers)
        /\ c \notin Transfers /\ c \notin Transfers' => Cardinality(Transfers') = Cardinality(Transfers)
        /\ c \notin Transfers /\ c \in Transfers' => Cardinality(Transfers') = Cardinality(Transfers) + 1
        /\ c \in Transfers /\ c \notin Transfers' => Cardinality(Transfers) = Cardinality(Transfers') + 1
    BY <1>1, <1>6, CountOne
  <2> QED
    BY <1>4, <1>5, <1>7, <2>1
<1>10. permits + Cardinality(Sockets) + Cardinality(Transfers) = MAX_FTP_PASSIVE_TRANSFERS
  BY DEF FtpInv, PermitsExact, Sockets, Transfers
<1>11. Held(c) \in Nat /\ Held(c)' \in Nat /\ Busy(c) \in Nat /\ Busy(c)' \in Nat
  BY DEF Held, Busy
<1>12. permits \in Nat /\ permits' \in Nat
  BY DEF FtpInv, FtpTypes
<1>13. permits' + Cardinality(Sockets') + Cardinality(Transfers') = MAX_FTP_PASSIVE_TRANSFERS
  BY SMTT(30), <1>7, <1>8, <1>9, <1>10, <1>11, <1>12
<1> QED
  BY <1>13 DEF PermitsExact, Sockets, Transfers

\* The socket of client c after a step of it.
LEMMA SocketStep ==
    ASSUME FtpInv, NEW c \in Clients, FtpTypes',
           \A b \in Clients \ {c} : passive'[b] = passive[b],
           passive'[c].permit <=> passive'[c].listener # 0,
           ~(passive'[c].permit /\ passive'[c].active),
           \/ passive'[c].listener \in {0, passive[c].listener}
           \/ \A b \in Clients \ {c} : passive[b].listener # passive'[c].listener
    PROVE  DataSocketExact'
  BY DEF FtpInv, DataSocketExact

\* A step of client c; what it makes of the replies is left to show.
LEMMA ClientStep ==
    ASSUME FtpInv, FtpTypes', NEW c \in Clients, DataSocketExact', PermitsExact',
           \A b \in Clients \ {c} :
               /\ conn'[b] = conn[b] /\ queue'[b] = queue[b] /\ asked'[b] = asked[b] /\ busy'[b] = busy[b]
               /\ resp'[b] = resp[b] /\ written'[b] = written[b],
           InOrder(written'[c] \o resp'[c]), Handled(c)' \in Nat,
           busy'[c] # "none" => conn'[c] = "open",
           conn'[c] = "open" /\ ~Quitting(c)' =>
               Answered(written'[c] \o resp'[c], Handled(c)') /\ Announced(written'[c] \o resp'[c], Taken(c)')
    PROVE  FtpInv'
<1>1. AnswersInOrder'
  BY DEF FtpInv, AnswersInOrder
<1>2. \A b \in Clients \ {c} : (Handled(b)' = Handled(b)) /\ (Taken(b)' = Taken(b)) /\ (Quitting(b)' <=> Quitting(b))
  BY ZenonT(60) DEF Handled, Taken, Quitting
<1>3. Numbered'
  <2> SUFFICES ASSUME NEW b \in Clients
               PROVE  /\ Handled(b)' \in Nat
                      /\ busy'[b] # "none" => conn'[b] = "open"
                      /\ conn'[b] = "open" /\ ~Quitting(b)' =>
                            /\ Answered(written'[b] \o resp'[b], Handled(b)')
                            /\ Announced(written'[b] \o resp'[b], Taken(b)')
    BY DEF Numbered
  <2>1. CASE b = c
    BY <2>1
  <2>2. CASE b # c
    BY <1>2, <2>2 DEF FtpInv, Numbered
  <2> QED
    BY <2>1, <2>2
<1> QED
  BY <1>1, <1>3 DEF FtpInv

-----------------------------------------------------------------------------
(* Commands *)

Quit == [verb |-> "QUIT", arg |-> "none"]

LEMMA SessionCodes == ASSUME NEW k, k.verb \in {"USER", "PASS", "PWD", "TYPE"} PROVE session_verbs(k) \in Nat \ {150}
  BY DEF session_verbs, no_args, type_response, ftp_command_has_args

LEMMA ServiceCodes ==
    ASSUME NEW k, k.verb \in {"SYST", "HOST", "ACCT", "REIN", "SMNT", "FEAT", "OPTS"}
    PROVE  service_verbs(k) \in Nat \ {150}
  BY DEF service_verbs, no_args, required_arg, ftp_command_has_args

LEMMA ParameterCodes ==
    ASSUME NEW k, k.verb \in {"SIZE", "REST", "ALLO", "MODE", "STRU", "MDTM"}
    PROVE  transfer_parameter_verbs(k) \in Nat \ {150}
  BY DEF transfer_parameter_verbs, required_arg, required_safe_path_arg, size_response_from_metadata, has_path_traversal

LEMMA DirectoryCodes == ASSUME NEW k PROVE directory_verbs(k) \in Nat \ {150}
  BY DEF directory_verbs, no_args, required_safe_path_arg, has_path_traversal, ftp_command_has_args

\* No command that has one reply is answered with 150.
LEMMA HandleCodes == ASSUME NEW k PROVE FtpHandle(k) \in Nat \ {150}
  BY SessionCodes, ServiceCodes, ParameterCodes, DirectoryCodes DEF FtpHandle

LEMMA QuitCode == FtpHandle(Quit) = 221 /\ Quit.verb = "QUIT"
<1>1. Quit.verb = "QUIT" /\ Quit.arg = "none"
  BY DEF Quit
<1>2. FtpHandle(Quit) = directory_verbs(Quit)
  BY <1>1 DEF FtpHandle
<1>3. directory_verbs(Quit) = no_args(Quit, 221)
  BY <1>1 DEF directory_verbs
<1> QED
  BY <1>1, <1>2, <1>3 DEF no_args, ftp_command_has_args

LEMMA TransferCodes ==
    ASSUME NEW k, k.verb \in {"LIST", "NLST", "RETR", "STOR", "APPE"} PROVE prepare_data_transfer(k) \in Nat
  BY DEF prepare_data_transfer, required_safe_path_arg, prepare_retr_transfer, list_entries, has_path_traversal

LEMMA DataStates ==
    /\ NoData \in DataState /\ ~NoData.permit /\ NoData.listener = 0 /\ ~NoData.active
    /\ \A d \in DataState : Released(d) = IF d.permit THEN 1 ELSE 0
  BY DEF NoData, DataState, Released

\* The queue and the numbers before and after the next command is taken.
LEMMA NextCommand ==
    ASSUME FtpInv, NEW c \in Clients, queue[c] # <<>>, Idle(c)
    PROVE  /\ Taken(c) \in Nat /\ Handled(c) = Taken(c) /\ ~Quitting(c) /\ Len(asked[c]) \in Nat
           /\ Tail(queue[c]) \in Seq(Commands) /\ Len(asked[c]) - Len(Tail(queue[c])) = Taken(c) + 1
           /\ Len(asked[c]) - Len(queue[c]) + 1 = Taken(c) + 1
           /\ Answered(written[c] \o resp[c], Taken(c)) /\ Announced(written[c] \o resp[c], Taken(c))
           /\ InOrder(written[c] \o resp[c]) /\ written[c] \in Seq(Replies) /\ resp[c] \in Seq(Replies)
           /\ conn[c] = "open" /\ busy[c] = "none"
<1>1. /\ conn[c] = "open" /\ busy[c] = "none" /\ queue[c] \in Seq(Commands) /\ asked[c] \in Seq(Commands)
      /\ written[c] \in Seq(Replies) /\ resp[c] \in Seq(Replies)
  BY DEF FtpInv, FtpTypes, Idle
<1>2. ~Quitting(c) /\ Handled(c) = Taken(c)
  BY <1>1 DEF Quitting, Handled
<1>3. /\ Tail(queue[c]) \in Seq(Commands) /\ Len(Tail(queue[c])) = Len(queue[c]) - 1
      /\ Len(queue[c]) \in Nat /\ Len(asked[c]) \in Nat
  BY <1>1, HeadTailProperties, LenProperties
<1>4. Handled(c) \in Nat /\ Answered(written[c] \o resp[c], Handled(c)) /\ Announced(written[c] \o resp[c], Taken(c))
  BY <1>1, <1>2 DEF FtpInv, Numbered
<1>5. Taken(c) = Len(asked[c]) - Len(queue[c]) /\ Taken(c) \in Nat
  BY <1>2, <1>4 DEF Taken
<1>6. /\ Len(asked[c]) - Len(Tail(queue[c])) = Taken(c) + 1
      /\ Len(asked[c]) - Len(queue[c]) + 1 = Taken(c) + 1
  <2> DEFINE a == Len(asked[c])
             l == Len(queue[c])
             m == Len(Tail(queue[c]))
  <2>1. a \in Nat /\ l \in Nat /\ m = l - 1 /\ Taken(c) = a - l
    BY <1>3, <1>5
  <2> HIDE DEF a, l, m
  <2>2. a - m = Taken(c) + 1 /\ a - l + 1 = Taken(c) + 1
    BY <2>1
  <2> QED
    BY <2>2 DEF a, l, m
<1>7. InOrder(written[c] \o resp[c])
  BY DEF FtpInv, AnswersInOrder
<1> QED
  BY <1>1, <1>2, <1>3, <1>4, <1>5, <1>6, <1>7

\* A command that is answered at once.
RepliesWith(c, code, q) ==
    /\ queue[c] # <<>> /\ Idle(c)
    /\ queue' = [queue EXCEPT ![c] = q]
    /\ resp' = [resp EXCEPT ![c] = Append(@, Reply(code, Taken(c) + 1))]
    /\ UNCHANGED <<conn, busy, written, asked>>

LEMMA ReplyStep ==
    ASSUME FtpInv, NEW c \in Clients, NEW q, NEW code \in Nat, code # 150, RepliesWith(c, code, q),
           q = Tail(queue[c]) \/ (q = <<>> /\ code = 221),
           passive' \in [Clients -> DataState], DataSocketExact',
           \A b \in Clients \ {c} : passive'[b] = passive[b],
           permits' \in Nat, permits' + Held(c)' = permits + Held(c)
    PROVE  FtpInv'
<1> DEFINE n == Taken(c)
           x == Reply(code, n + 1)
           s == written[c] \o resp[c]
           t == written[c] \o Append(resp[c], x)
<1>1. /\ n \in Nat /\ Handled(c) = n /\ Len(asked[c]) \in Nat
      /\ Tail(queue[c]) \in Seq(Commands) /\ Len(asked[c]) - Len(Tail(queue[c])) = n + 1
      /\ Answered(s, n) /\ Announced(s, n) /\ InOrder(s)
      /\ written[c] \in Seq(Replies) /\ resp[c] \in Seq(Replies)
      /\ conn[c] = "open" /\ busy[c] = "none"
  <2>1. queue[c] # <<>> /\ Idle(c)
    BY DEF RepliesWith
  <2> QED
    BY ONLY FtpInv, <2>1, c \in Clients, NextCommand
<1>2. x \in Replies /\ x.code = code /\ x.of = n + 1 /\ Final(x)
  BY <1>1 DEF Reply, Replies, Final
<1> HIDE DEF n, x
<1>3. /\ s \in Seq(Replies) /\ Append(resp[c], x) \in Seq(Replies) /\ t \in Seq(Replies) /\ PutIn(t, s, Len(s), x)
  BY ONLY <1>1, <1>2, AppendedLast
<1>4. /\ resp'[c] = Append(resp[c], x) /\ queue'[c] = q
      /\ \A b \in Clients \ {c} : resp'[b] = resp[b] /\ queue'[b] = queue[b]
  BY DEF FtpInv, FtpTypes, RepliesWith, x, n
<1>5. q \in Seq(Commands) /\ Len(asked[c]) - Len(q) \in Nat
  <2>1. CASE q = Tail(queue[c])
    <3>1. q \in Seq(Commands) /\ Len(asked[c]) - Len(q) = n + 1
      BY <1>1, <2>1
    <3> QED
      BY <1>1, <3>1
  <2>2. CASE q = <<>>
    <3>1. q \in Seq(Commands) /\ Len(q) = 0
      BY <2>2, EmptySeq
    <3> QED
      BY <1>1, <3>1
  <2> QED
    BY <2>1, <2>2
<1>6. FtpTypes'
  <2>1. resp' \in [Clients -> Seq(Replies)]
    <3>1. resp' = [resp EXCEPT ![c] = Append(resp[c], x)]
      BY DEF RepliesWith, x, n
    <3>2. resp \in [Clients -> Seq(Replies)]
      BY DEF FtpInv, FtpTypes
    <3> QED
      BY ONLY <1>3, <3>1, <3>2
  <2>2. queue' \in [Clients -> Seq(Commands)]
    <3>1. queue' = [queue EXCEPT ![c] = q]
      BY DEF RepliesWith
    <3>2. queue \in [Clients -> Seq(Commands)]
      BY DEF FtpInv, FtpTypes
    <3> QED
      BY ONLY <1>5, <3>1, <3>2
  <2> QED
    BY <2>1, <2>2 DEF FtpInv, FtpTypes, RepliesWith
<1>7. PermitsExact'
  <2>1. Busy(c)' = Busy(c) /\ Busy(c) \in Nat
    BY DEF Busy, RepliesWith
  <2>2. Held(c) \in Nat /\ Held(c)' \in Nat /\ permits \in Nat
    BY DEF Held, FtpInv, FtpTypes
  <2>3. \A b \in Clients \ {c} : passive'[b] = passive[b] /\ busy'[b] = busy[b]
    BY DEF RepliesWith
  <2> QED
    BY <1>6, <2>1, <2>2, <2>3, PermitStep
<1> HIDE DEF s, t
<1>8. Announced(s, n + 1)
  BY <1>1, <1>3, AnnouncedMore
<1>9. InOrder(t) /\ Answered(t, n + 1) /\ Announced(t, n + 1)
  BY <1>1, <1>2, <1>3, <1>8, NextFinal
<1>10. /\ Taken(c)' = Len(asked[c]) - Len(q) /\ Handled(c)' = Taken(c)' /\ Taken(c)' \in Nat
       /\ busy'[c] = "none" /\ conn'[c] = "open"
  BY <1>1, <1>4, <1>5 DEF Taken, Handled, RepliesWith
<1>11. written'[c] \o resp'[c] = t
  BY <1>4 DEF t, RepliesWith
<1>12. Quitting(c)' \/ Taken(c)' = n + 1
  <2>1. CASE q = Tail(queue[c])
    BY <1>1, <1>10, <2>1
  <2>2. CASE q = <<>> /\ code = 221
    <3>1. resp'[c] # <<>> /\ resp'[c][Len(resp'[c])] = x
      <4>1. resp[c] \in Seq(Replies) /\ x \in Replies
        BY <1>1, <1>2
      <4>2. /\ Append(resp[c], x) # <<>> /\ Len(Append(resp[c], x)) = Len(resp[c]) + 1
            /\ Append(resp[c], x)[Len(resp[c]) + 1] = x
        BY ONLY <4>1, AppendProperties
      <4> QED
        BY <1>4, <4>2
    <3> QED
      BY <1>2, <1>4, <1>10, <2>2, <3>1 DEF Quitting
  <2> QED
    BY <2>1, <2>2
<1>13. \A b \in Clients \ {c} :
          /\ conn'[b] = conn[b] /\ queue'[b] = queue[b] /\ asked'[b] = asked[b] /\ busy'[b] = busy[b]
          /\ resp'[b] = resp[b] /\ written'[b] = written[b]
  BY <1>4 DEF RepliesWith
<1>14. /\ InOrder(written'[c] \o resp'[c])
       /\ ~Quitting(c)' => /\ Answered(written'[c] \o resp'[c], Handled(c)')
                           /\ Announced(written'[c] \o resp'[c], Taken(c)')
  BY <1>9, <1>10, <1>11, <1>12
<1> QED
  BY <1>6, <1>7, <1>10, <1>13, <1>14, ClientStep

LEMMA OpenStep ==
    ASSUME FtpInv, NEW c \in Clients, queue[c] # <<>>, Idle(c), queue' = [queue EXCEPT ![c] = Tail(@)],
           open_ftp_passive_data_socket(c, Taken(c) + 1), UNCHANGED asked
    PROVE  FtpInv'
<1> DEFINE left == permits + Released(passive[c])
           cleared == [passive EXCEPT ![c] = Cleared(@)]
<1>1. /\ passive \in [Clients -> DataState] /\ permits \in Nat /\ cleared \in [Clients -> DataState]
      /\ cleared[c] = NoData /\ (\A b \in Clients \ {c} : cleared[b] = passive[b])
  BY DataStates DEF FtpInv, FtpTypes, Cleared
<1>2. left = permits + Held(c) /\ left \in Nat
  BY <1>1, DataStates DEF Held
<1>3. queue' = [queue EXCEPT ![c] = Tail(queue[c])] /\ UNCHANGED <<conn, busy, written, asked>>
  BY DEF open_ftp_passive_data_socket
<1> HIDE DEF left, cleared
<1>4. CASE /\ passive' = cleared /\ permits' = left
           /\ resp' = [resp EXCEPT ![c] = Append(@, Reply(425, Taken(c) + 1))]
  <2>1. Held(c)' = 0
    BY <1>1, <1>4, DataStates DEF Held
  <2>2. DataSocketExact'
    BY <1>1, <1>4, DataStates DEF FtpInv, DataSocketExact
  <2>3. PICK code : code \in Nat /\ code # 150 /\ RepliesWith(c, code, Tail(queue[c]))
    <3>1. RepliesWith(c, 425, Tail(queue[c]))
      BY <1>3, <1>4 DEF RepliesWith
    <3>2. 425 \in Nat /\ 425 # 150
      OBVIOUS
    <3> WITNESS 425
    <3> QED
      BY <3>1, <3>2
  <2>4. passive' \in [Clients -> DataState] /\ \A b \in Clients \ {c} : passive'[b] = passive[b]
    BY <1>1, <1>4
  <2>5. permits' \in Nat /\ permits' + Held(c)' = permits + Held(c)
    BY <1>2, <1>4, <2>1
  <2> QED
    BY ONLY FtpInv, c \in Clients, <2>2, <2>3, <2>4, <2>5, ReplyStep
<1>5. ASSUME left # 0, NEW p \in Bindable(cleared),
             passive' = [passive EXCEPT ![c] = [listener |-> p, permit |-> TRUE, active |-> FALSE]], permits' = left - 1,
             resp' = [resp EXCEPT ![c] = Append(@, Reply(227, Taken(c) + 1))]
      PROVE  FtpInv'
  <2>1. p \in PassivePorts /\ p # 0 /\ (\A b \in Clients \ {c} : passive[b].listener # p)
    BY <1>1, FtpAssumption DEF Bindable
  <2>2. /\ passive'[c] \in DataState /\ passive'[c].permit /\ ~passive'[c].active /\ passive'[c].listener = p
        /\ passive' \in [Clients -> DataState] /\ \A b \in Clients \ {c} : passive'[b] = passive[b]
    BY <1>1, <1>5, <2>1 DEF DataState
  <2>3. Held(c)' = 1
    BY <2>2 DEF Held
  <2>4. DataSocketExact'
    BY <2>1, <2>2 DEF FtpInv, DataSocketExact
  <2>5. permits' \in Nat /\ permits' + Held(c)' = permits + Held(c)
    BY <1>2, <1>5, <2>3
  <2>6. PICK code : code \in Nat /\ code # 150 /\ RepliesWith(c, code, Tail(queue[c]))
    <3>1. RepliesWith(c, 227, Tail(queue[c]))
      BY <1>3, <1>5 DEF RepliesWith
    <3>2. 227 \in Nat /\ 227 # 150
      OBVIOUS
    <3> WITNESS 227
    <3> QED
      BY <3>1, <3>2
  <2> QED
    BY ONLY FtpInv, c \in Clients, <2>2, <2>4, <2>5, <2>6, ReplyStep
<1> QED
  BY ZenonT(60), <1>4, <1>5 DEF open_ftp_passive_data_socket, left, cleared

LEMMA AddressStep ==
    ASSUME FtpInv, NEW c \in Clients, queue[c] # <<>>, Idle(c), queue' = [queue EXCEPT ![c] = Tail(@)], NEW k,
           set_active_address(c, k, Taken(c) + 1), UNCHANGED asked
    PROVE  FtpInv'
<1> DEFINE ok == parse_ftp_data_addr(k) /\ validate_active_target(k)
           d == IF ok THEN [Cleared(passive[c]) EXCEPT !.active = TRUE] ELSE [passive[c] EXCEPT !.active = FALSE]
<1>1. passive \in [Clients -> DataState] /\ permits \in Nat /\ passive[c] \in DataState
  BY DEF FtpInv, FtpTypes
<1>2. /\ passive' = [passive EXCEPT ![c] = d] /\ permits' = (IF ok THEN permits + Released(passive[c]) ELSE permits)
      /\ resp' = [resp EXCEPT ![c] = Append(@, Reply(IF ok THEN 200 ELSE 501, Taken(c) + 1))]
      /\ queue' = [queue EXCEPT ![c] = Tail(queue[c])] /\ UNCHANGED <<conn, busy, written, asked>>
  BY DEF set_active_address
<1>3. CASE ok
  <2>1. d = [NoData EXCEPT !.active = TRUE]
    BY <1>3 DEF Cleared
  <2>2. d \in DataState /\ d.listener = 0 /\ ~d.permit /\ d.active
    BY <2>1 DEF NoData, DataState
  <2> HIDE DEF d
  <2>3. passive' \in [Clients -> DataState] /\ passive'[c] = d /\ \A b \in Clients \ {c} : passive'[b] = passive[b]
    BY <1>1, <1>2, <2>2
  <2>4. Held(c)' = 0 /\ permits' = permits + Held(c) /\ permits' \in Nat
    BY <1>1, <1>2, <1>3, <2>2, <2>3, DataStates DEF Held
  <2>5. DataSocketExact'
    BY <2>2, <2>3 DEF FtpInv, DataSocketExact
  <2>6. PICK code : code \in Nat /\ code # 150 /\ RepliesWith(c, code, Tail(queue[c]))
    <3>1. RepliesWith(c, 200, Tail(queue[c]))
      BY <1>2, <1>3 DEF RepliesWith
    <3>2. 200 \in Nat /\ 200 # 150
      OBVIOUS
    <3> WITNESS 200
    <3> QED
      BY <3>1, <3>2
  <2>7. permits' + Held(c)' = permits + Held(c)
    BY <1>1, <2>4 DEF Held
  <2> QED
    BY ONLY FtpInv, c \in Clients, <2>3, <2>4, <2>5, <2>6, <2>7, ReplyStep
<1>4. CASE ~ok
  <2>1. d = [passive[c] EXCEPT !.active = FALSE]
    BY <1>4
  <2>2. d \in DataState /\ d.listener = passive[c].listener /\ (d.permit <=> passive[c].permit) /\ ~d.active
    BY <1>1, <2>1 DEF DataState
  <2> HIDE DEF d
  <2>3. passive' \in [Clients -> DataState] /\ passive'[c] = d /\ \A b \in Clients \ {c} : passive'[b] = passive[b]
    BY <1>1, <1>2, <2>2
  <2>4. Held(c)' = Held(c) /\ permits' = permits /\ permits' \in Nat
    BY <1>1, <1>2, <1>4, <2>2, <2>3 DEF Held
  <2>5. DataSocketExact'
    BY <2>2, <2>3 DEF FtpInv, DataSocketExact
  <2>6. PICK code : code \in Nat /\ code # 150 /\ RepliesWith(c, code, Tail(queue[c]))
    <3>1. RepliesWith(c, 501, Tail(queue[c]))
      BY <1>2, <1>4 DEF RepliesWith
    <3>2. 501 \in Nat /\ 501 # 150
      OBVIOUS
    <3> WITNESS 501
    <3> QED
      BY <3>1, <3>2
  <2>7. permits' + Held(c)' = permits + Held(c)
    BY <1>1, <2>4 DEF Held
  <2> QED
    BY ONLY FtpInv, c \in Clients, <2>3, <2>4, <2>5, <2>6, <2>7, ReplyStep
<1> QED
  BY <1>3, <1>4

\* The data socket is closed.
LEMMA ClearStep ==
    ASSUME FtpInv, NEW c \in Clients, passive' = [passive EXCEPT ![c] = NoData]
    PROVE  /\ passive' \in [Clients -> DataState] /\ (\A b \in Clients \ {c} : passive'[b] = passive[b])
           /\ DataSocketExact' /\ Held(c)' = 0
<1>1. passive \in [Clients -> DataState]
  BY DEF FtpInv, FtpTypes
<1>2. passive' \in [Clients -> DataState] /\ passive'[c] = NoData /\ \A b \in Clients \ {c} : passive'[b] = passive[b]
  BY <1>1, DataStates
<1>3. DataSocketExact'
  BY <1>2, DataStates DEF FtpInv, DataSocketExact
<1> QED
  BY <1>2, <1>3, DataStates DEF Held

LEMMA Permits ==
    ASSUME FtpInv, NEW c \in Clients
    PROVE  /\ permits \in Nat /\ Held(c) \in Nat /\ Busy(c) \in Nat /\ Released(passive[c]) = Held(c)
           /\ passive[c] \in DataState /\ (Held(c) = 0 <=> passive[c].listener = 0)
<1>1. permits \in Nat /\ passive[c] \in DataState
  BY DEF FtpInv, FtpTypes
<1>2. passive[c].permit <=> passive[c].listener # 0
  BY DEF FtpInv, DataSocketExact
<1>3. Released(passive[c]) = IF passive[c].permit THEN 1 ELSE 0
  BY <1>1, DataStates
<1> QED
  BY <1>1, <1>2, <1>3 DEF Held, Busy

\* A command without a data connection; ABOR and QUIT close the data socket.
LEMMA SimpleStep ==
    ASSUME FtpInv, NEW c \in Clients, queue[c] # <<>>, Idle(c), NEW k, NEW clear \in BOOLEAN,
           queue' = [queue EXCEPT ![c] = IF k = Quit THEN <<>> ELSE Tail(@)],
           passive' = IF clear THEN [passive EXCEPT ![c] = NoData] ELSE passive,
           permits' = IF clear THEN permits + Released(passive[c]) ELSE permits,
           resp' = [resp EXCEPT ![c] = Append(@, Reply(IF k.verb = "PASV" THEN 501 ELSE FtpHandle(k), Taken(c) + 1))],
           UNCHANGED <<conn, busy, written, asked>>
    PROVE  FtpInv'
<1>1. PICK code : code = IF k.verb = "PASV" THEN 501 ELSE FtpHandle(k)
  OBVIOUS
<1>2. PICK q : q = IF k = Quit THEN <<>> ELSE Tail(queue[c])
  OBVIOUS
<1>3. code \in Nat /\ code # 150
  BY <1>1, HandleCodes
<1>4. q = Tail(queue[c]) \/ (q = <<>> /\ code = 221)
  <2>1. CASE k = Quit
    BY <1>1, <1>2, <2>1, QuitCode
  <2>2. CASE k # Quit
    BY <1>2, <2>2
  <2> QED
    BY <2>1, <2>2
<1>5. RepliesWith(c, code, q)
  BY <1>1, <1>2 DEF RepliesWith
<1>6. /\ passive' \in [Clients -> DataState] /\ (\A b \in Clients \ {c} : passive'[b] = passive[b])
      /\ DataSocketExact' /\ permits' \in Nat /\ permits' + Held(c)' = permits + Held(c)
  <2>1. CASE clear
    <3>1. passive' = [passive EXCEPT ![c] = NoData] /\ permits' = permits + Held(c)
      BY <2>1, Permits
    <3>2. /\ passive' \in [Clients -> DataState] /\ (\A b \in Clients \ {c} : passive'[b] = passive[b])
          /\ DataSocketExact' /\ Held(c)' = 0
      BY <3>1, ClearStep
    <3>3. permits \in Nat /\ Held(c) \in Nat
      BY Permits
    <3> QED
      BY <3>1, <3>2, <3>3
  <2>2. CASE ~clear
    <3>1. passive' = passive /\ permits' = permits
      BY <2>2
    <3>2. Held(c)' = Held(c) /\ DataSocketExact'
      BY <3>1 DEF Held, FtpInv, DataSocketExact
    <3> QED
      BY <3>1, <3>2 DEF FtpInv, FtpTypes
  <2> QED
    BY <2>1, <2>2
<1> QED
  BY ONLY FtpInv, c \in Clients, <1>3, <1>4, <1>5, <1>6, ReplyStep

\* A transfer that is refused.
LEMMA RefuseStep ==
    ASSUME FtpInv, NEW c \in Clients, queue[c] # <<>>, Idle(c), NEW n, n \in Nat, n # 150,
           queue' = [queue EXCEPT ![c] = Tail(@)], passive' = [passive EXCEPT ![c] = NoData],
           permits' = permits + Released(passive[c]),
           resp' = [resp EXCEPT ![c] = Append(@, Reply(n, Taken(c) + 1))],
           UNCHANGED <<conn, busy, written, asked>>
    PROVE  FtpInv'
<1>1. PICK q : q = Tail(queue[c])
  OBVIOUS
<1>2. RepliesWith(c, n, q)
  BY <1>1 DEF RepliesWith
<1>3. /\ passive' \in [Clients -> DataState] /\ (\A b \in Clients \ {c} : passive'[b] = passive[b])
      /\ DataSocketExact' /\ permits' \in Nat /\ permits' + Held(c)' = permits + Held(c)
  <2>1. /\ passive' \in [Clients -> DataState] /\ (\A b \in Clients \ {c} : passive'[b] = passive[b])
        /\ DataSocketExact' /\ Held(c)' = 0
    BY ClearStep
  <2>2. permits \in Nat /\ Held(c) \in Nat /\ Released(passive[c]) = Held(c)
    BY Permits
  <2> QED
    BY <2>1, <2>2
<1> QED
  BY ONLY FtpInv, c \in Clients, n \in Nat, n # 150, <1>1, <1>2, <1>3, ReplyStep

\* A transfer begins, with or without the 150 written.
LEMMA BeginsStep ==
    ASSUME FtpInv, NEW c \in Clients, queue[c] # <<>>, Idle(c), queue' = [queue EXCEPT ![c] = Tail(@)],
           NEW kind \in {"passive", "active"}, busy' = [busy EXCEPT ![c] = kind],
           passive' = [passive EXCEPT ![c] = NoData], permits' \in Nat, permits' + 1 = permits + Held(c),
           \/ UNCHANGED written
           \/ written' = [written EXCEPT ![c] = Append(@, Reply(150, Taken(c) + 1))],
           UNCHANGED <<conn, resp, asked>>
    PROVE  FtpInv'
<1> DEFINE n == Taken(c)
           x == Reply(150, n + 1)
           s == written[c] \o resp[c]
           t == written'[c] \o resp'[c]
<1>1. /\ n \in Nat /\ Handled(c) = n /\ Len(asked[c]) \in Nat
      /\ Tail(queue[c]) \in Seq(Commands) /\ Len(asked[c]) - Len(Tail(queue[c])) = n + 1
      /\ Answered(s, n) /\ Announced(s, n) /\ InOrder(s)
      /\ written[c] \in Seq(Replies) /\ resp[c] \in Seq(Replies)
      /\ conn[c] = "open" /\ busy[c] = "none"
  BY ONLY FtpInv, c \in Clients, queue[c] # <<>>, Idle(c), NextCommand
<1>2. x \in Replies /\ x.of = n + 1 /\ ~Final(x)
  BY <1>1 DEF Reply, Replies, Final
<1> HIDE DEF n, x
<1>3. /\ queue \in [Clients -> Seq(Commands)] /\ busy \in [Clients -> {"none", "passive", "active"}]
      /\ written \in [Clients -> Seq(Replies)]
  BY DEF FtpInv, FtpTypes
<1>4. written' = [written EXCEPT ![c] = Append(written[c], x)] \/ written' = written
  BY DEF x, n
<1>5. /\ s \in Seq(Replies) /\ Append(written[c], x) \in Seq(Replies) /\ Append(written[c], x) \o resp[c] \in Seq(Replies)
      /\ Len(written[c]) \in 0 .. Len(s) /\ PutIn(Append(written[c], x) \o resp[c], s, Len(written[c]), x)
  BY ONLY <1>1, <1>2, PutBetween
<1>6. /\ queue' \in [Clients -> Seq(Commands)] /\ queue'[c] = Tail(queue[c])
      /\ \A b \in Clients \ {c} : queue'[b] = queue[b]
  BY <1>1, <1>3
<1>7. /\ busy' \in [Clients -> {"none", "passive", "active"}] /\ busy'[c] # "none"
      /\ \A b \in Clients \ {c} : busy'[b] = busy[b]
  BY <1>3
<1>8. written' \in [Clients -> Seq(Replies)] /\ \A b \in Clients \ {c} : written'[b] = written[b]
  BY ZenonT(60), <1>3, <1>4, <1>5
<1>9. FtpTypes'
  BY <1>6, <1>7, <1>8, ClearStep DEF FtpInv, FtpTypes
<1>10. PermitsExact'
  <2>1. Busy(c) = 0 /\ Busy(c)' = 1
    BY <1>1, <1>7 DEF Busy
  <2>2. permits' + Held(c)' + Busy(c)' = permits + Held(c) + Busy(c)
    <3>1. Held(c)' = 0
      BY ClearStep
    <3>2. permits \in Nat /\ Held(c) \in Nat
      BY Permits
    <3> QED
      BY <2>1, <3>1, <3>2
  <2> QED
    BY <1>7, <1>9, <2>2, ClearStep, PermitStep
<1>11. InOrder(t) /\ Answered(t, n) /\ Announced(t, n + 1)
  <2>1. Announced(s, n + 1)
    BY ONLY <1>1, <1>5, AnnouncedMore
  <2>2. CASE written' = written
    <3>1. t = s
      BY <2>2
    <3> QED
      BY <1>1, <2>1, <3>1
  <2>3. CASE written' = [written EXCEPT ![c] = Append(written[c], x)]
    <3>1. t = Append(written[c], x) \o resp[c]
      BY <1>3, <2>3
    <3> HIDE DEF t, s
    <3>2. PICK k : k = Len(written[c])
      OBVIOUS
    <3>3. t \in Seq(Replies) /\ PutIn(t, s, k, x) /\ k \in 0 .. Len(s) /\ s \in Seq(Replies)
      BY <1>5, <3>1, <3>2
    <3> QED
      BY ONLY <1>1, <1>2, <2>1, <3>3, NextNote
  <2> QED
    BY <1>4, <2>2, <2>3
<1>12. Taken(c)' = n + 1 /\ Handled(c)' = n
  <2>1. Taken(c)' = n + 1
    BY <1>1, <1>6 DEF Taken
  <2> QED
    BY <1>1, <1>7, <2>1 DEF Handled
<1> HIDE DEF t, s
<1>13. /\ InOrder(written'[c] \o resp'[c]) /\ Handled(c)' \in Nat /\ conn'[c] = "open"
       /\ Answered(written'[c] \o resp'[c], Handled(c)') /\ Announced(written'[c] \o resp'[c], Taken(c)')
  BY <1>1, <1>11, <1>12 DEF t
<1>14. \A b \in Clients \ {c} :
          /\ conn'[b] = conn[b] /\ queue'[b] = queue[b] /\ asked'[b] = asked[b] /\ busy'[b] = busy[b]
          /\ resp'[b] = resp[b] /\ written'[b] = written[b]
  BY <1>6, <1>7, <1>8
<1> QED
  BY <1>9, <1>10, <1>13, <1>14, ClearStep, ClientStep

\* The write of 150 fails.
LEMMA BrokenStep ==
    ASSUME FtpInv, NEW c \in Clients, queue[c] # <<>>, Idle(c), queue' = [queue EXCEPT ![c] = Tail(@)],
           conn' = [conn EXCEPT ![c] = "closed"], passive' = [passive EXCEPT ![c] = NoData],
           permits' = permits + Released(passive[c]), UNCHANGED <<busy, resp, written, asked>>
    PROVE  FtpInv'
<1>1. /\ Taken(c) \in Nat /\ Tail(queue[c]) \in Seq(Commands)
      /\ Len(asked[c]) - Len(Tail(queue[c])) = Taken(c) + 1 /\ busy[c] = "none"
      /\ InOrder(written[c] \o resp[c])
  BY NextCommand
<1>2. /\ passive' \in [Clients -> DataState] /\ (\A b \in Clients \ {c} : passive'[b] = passive[b])
      /\ DataSocketExact' /\ Held(c)' = 0
  BY ClearStep
<1>3. permits \in Nat /\ Held(c) \in Nat /\ permits' = permits + Held(c)
  BY Permits
<1>4. /\ queue' \in [Clients -> Seq(Commands)] /\ queue'[c] = Tail(queue[c])
      /\ \A b \in Clients \ {c} : queue'[b] = queue[b]
  BY <1>1 DEF FtpInv, FtpTypes
<1>5. /\ conn' \in [Clients -> {"open", "closed"}] /\ conn'[c] = "closed"
      /\ \A b \in Clients \ {c} : conn'[b] = conn[b]
  BY DEF FtpInv, FtpTypes
<1>6. FtpTypes'
  BY <1>2, <1>3, <1>4, <1>5 DEF FtpInv, FtpTypes
<1>7. PermitsExact'
  <2>1. Busy(c) = 0 /\ Busy(c)' = 0
    BY <1>1 DEF Busy
  <2>2. permits' + Held(c)' + Busy(c)' = permits + Held(c) + Busy(c)
    BY <1>2, <1>3, <2>1
  <2> QED
    BY <1>2, <1>6, <2>2, PermitStep
<1>8. Handled(c)' \in Nat
  <2>1. Taken(c)' = Taken(c) + 1
    BY <1>1, <1>4 DEF Taken
  <2> QED
    BY <1>1, <2>1 DEF Handled
<1>9. \A b \in Clients \ {c} :
          /\ conn'[b] = conn[b] /\ queue'[b] = queue[b] /\ asked'[b] = asked[b] /\ busy'[b] = busy[b]
          /\ resp'[b] = resp[b] /\ written'[b] = written[b]
  BY <1>4, <1>5
<1> QED
  BY <1>1, <1>2, <1>5, <1>6, <1>7, <1>8, <1>9, ClientStep

\* A data command: its 150 is written, or the write fails.
StartsTransfer(c, k) == /\ k.verb \in {"LIST", "NLST", "RETR", "STOR", "APPE"}
                        /\ \E ok \in BOOLEAN : start_transfer(c, k, Taken(c) + 1, ok)

LEMMA TransferStep ==
    ASSUME FtpInv, NEW c \in Clients, queue[c] # <<>>, Idle(c), queue' = [queue EXCEPT ![c] = Tail(@)],
           NEW k, StartsTransfer(c, k), UNCHANGED asked
    PROVE  FtpInv'
<1>0. PICK ok \in BOOLEAN : start_transfer(c, k, Taken(c) + 1, ok)
  BY DEF StartsTransfer
<1> DEFINE i == Taken(c) + 1
           d == passive[c]
           left == permits + Released(d)
           Refuse(n) == /\ resp' = [resp EXCEPT ![c] = Append(@, Reply(n, i))]
                        /\ permits' = left /\ UNCHANGED <<conn, busy, written>>
<1>1. PICK code : code = prepare_data_transfer(k)
  OBVIOUS
<1>2. code \in Nat
  BY <1>1, TransferCodes DEF StartsTransfer
<1>3. passive' = [passive EXCEPT ![c] = NoData]
  BY <1>0 DEF start_transfer
<1>4. \/ code # 150 /\ Refuse(code)
      \/ /\ d.listener # 0 /\ written' = [written EXCEPT ![c] = Append(@, Reply(150, i))]
         /\ busy' = [busy EXCEPT ![c] = "passive"] /\ UNCHANGED <<conn, resp, permits>>
      \/ /\ conn' = [conn EXCEPT ![c] = "closed"] /\ permits' = left /\ UNCHANGED <<busy, resp, written>>
      \/ Refuse(425)
      \/ /\ d.listener = 0 /\ permits # 0 /\ permits' = permits - 1 /\ busy' = [busy EXCEPT ![c] = "active"]
         /\ UNCHANGED <<conn, resp, written>>
  BY <1>0, <1>1 DEF start_transfer
<1>5. permits \in Nat /\ Held(c) \in Nat /\ (Held(c) = 0 <=> d.listener = 0) /\ Held(c) \in {0, 1}
  BY Permits DEF Held
<1>6. ASSUME NEW n, n \in Nat, n # 150, Refuse(n) PROVE FtpInv'
  BY <1>3, <1>6, RefuseStep
<1>7. CASE /\ d.listener # 0 /\ written' = [written EXCEPT ![c] = Append(@, Reply(150, i))]
           /\ busy' = [busy EXCEPT ![c] = "passive"] /\ UNCHANGED <<conn, resp, permits>>
  <2>1. permits' \in Nat /\ permits' + 1 = permits + Held(c)
    BY <1>5, <1>7
  <2>2. PICK kind \in {"passive", "active"} : busy' = [busy EXCEPT ![c] = kind]
    BY <1>7
  <2> QED
    BY <1>3, <1>7, <2>1, <2>2, BeginsStep
<1>8. CASE conn' = [conn EXCEPT ![c] = "closed"] /\ permits' = left /\ UNCHANGED <<busy, resp, written>>
  BY <1>3, <1>8, BrokenStep
<1>9. CASE /\ d.listener = 0 /\ permits # 0 /\ permits' = permits - 1 /\ busy' = [busy EXCEPT ![c] = "active"]
           /\ UNCHANGED <<conn, resp, written>>
  <2>1. permits' \in Nat /\ permits' + 1 = permits + Held(c)
    BY <1>5, <1>9
  <2>2. PICK kind \in {"passive", "active"} : busy' = [busy EXCEPT ![c] = kind]
    BY <1>9
  <2> QED
    BY <1>3, <1>9, <2>1, <2>2, BeginsStep
<1>10. CASE Refuse(425)
  <2>1. PICK n : n = 425
    OBVIOUS
  <2>2. n \in Nat /\ n # 150 /\ Refuse(n)
    BY <1>10, <2>1
  <2> HIDE DEF Refuse
  <2> QED
    BY <1>6, <2>2
<1> HIDE DEF Refuse
<1>11. CASE code # 150 /\ Refuse(code)
  BY <1>2, <1>6, <1>11
<1> QED
  BY <1>4, <1>7, <1>8, <1>9, <1>10, <1>11

LEMMA CommandStep ==
    ASSUME FtpInv, NEW c \in Clients, HandleCommand(c) PROVE FtpInv'
<1>1. PICK k : k = Head(queue[c])
  OBVIOUS
<1>2. /\ Idle(c) /\ queue[c] # <<>> /\ UNCHANGED asked
      /\ queue' = [queue EXCEPT ![c] = IF k = Quit THEN <<>> ELSE Tail(@)]
  BY <1>1 DEF HandleCommand, Quit
<1>3. Len(asked[c]) - Len(queue[c]) + 1 = Taken(c) + 1
  BY <1>2, NextCommand
<1>4. k.verb # "QUIT" => k # Quit
  BY QuitCode
<1>5. \/ k.verb = "PASV" /\ open_ftp_passive_data_socket(c, Taken(c) + 1)
      \/ k.verb = "PORT" /\ set_active_address(c, k, Taken(c) + 1)
      \/ /\ k.verb \in {"LIST", "NLST", "RETR", "STOR", "APPE"}
         /\ \E ok \in BOOLEAN : start_transfer(c, k, Taken(c) + 1, ok)
      \/ /\ passive' = IF k.verb \in {"ABOR", "QUIT"} THEN [passive EXCEPT ![c] = NoData] ELSE passive
         /\ permits' = IF k.verb \in {"ABOR", "QUIT"} THEN permits + Released(passive[c]) ELSE permits
         /\ resp' = [resp EXCEPT ![c] =
                       Append(@, Reply(IF k.verb = "PASV" THEN 501 ELSE FtpHandle(k), Taken(c) + 1))]
         /\ UNCHANGED <<conn, busy, written>>
  BY ZenonT(60), <1>1, <1>3 DEF HandleCommand
<1>6. CASE k.verb = "PASV" /\ open_ftp_passive_data_socket(c, Taken(c) + 1)
  <2>1. queue' = [queue EXCEPT ![c] = Tail(@)]
    BY <1>2, <1>4, <1>6
  <2> QED
    BY <1>2, <1>6, <2>1, OpenStep
<1>7. CASE k.verb = "PORT" /\ set_active_address(c, k, Taken(c) + 1)
  <2>1. queue' = [queue EXCEPT ![c] = Tail(@)]
    BY <1>2, <1>4, <1>7
  <2> QED
    BY <1>2, <1>7, <2>1, AddressStep
<1>8. CASE /\ k.verb \in {"LIST", "NLST", "RETR", "STOR", "APPE"}
           /\ \E ok \in BOOLEAN : start_transfer(c, k, Taken(c) + 1, ok)
  <2>1. queue' = [queue EXCEPT ![c] = Tail(@)]
    BY <1>2, <1>4, <1>8
  <2>2. Idle(c) /\ queue[c] # <<>> /\ UNCHANGED asked
    BY <1>2
  <2>3. StartsTransfer(c, k)
    BY <1>8 DEF StartsTransfer
  <2> QED
    BY ONLY FtpInv, c \in Clients, <2>1, <2>2, <2>3, TransferStep
<1>9. CASE /\ passive' = IF k.verb \in {"ABOR", "QUIT"} THEN [passive EXCEPT ![c] = NoData] ELSE passive
           /\ permits' = IF k.verb \in {"ABOR", "QUIT"} THEN permits + Released(passive[c]) ELSE permits
           /\ resp' = [resp EXCEPT ![c] =
                         Append(@, Reply(IF k.verb = "PASV" THEN 501 ELSE FtpHandle(k), Taken(c) + 1))]
           /\ UNCHANGED <<conn, busy, written>>
  <2>1. CASE k.verb \in {"ABOR", "QUIT"}
    <3>1. PICK clear \in BOOLEAN : clear
      OBVIOUS
    <3> QED
      BY <1>2, <1>9, <2>1, <3>1, SimpleStep
  <2>2. CASE k.verb \notin {"ABOR", "QUIT"}
    <3>1. PICK clear \in BOOLEAN : ~clear
      OBVIOUS
    <3> QED
      BY <1>2, <1>9, <2>2, <3>1, SimpleStep
  <2> QED
    BY <2>1, <2>2
<1> QED
  BY <1>5, <1>6, <1>7, <1>8, <1>9

-----------------------------------------------------------------------------
(* The other steps *)

\* Quitting is over with the write, so what is read next finds all answered.
LEMMA CommandsRead ==
    ASSUME FtpInv, NEW c \in Clients, ServerReads(c) PROVE FtpInv'
<1>0. PICK m \in 1 .. MaxBatch : \E b \in [1 .. m -> Commands] :
         queue' = [queue EXCEPT ![c] = b] /\ asked' = [asked EXCEPT ![c] = @ \o b]
  BY DEF ServerReads
<1>1. PICK b \in [1 .. m -> Commands] : queue' = [queue EXCEPT ![c] = b] /\ asked' = [asked EXCEPT ![c] = @ \o b]
  BY <1>0
<1>2. /\ queue[c] = <<>> /\ resp[c] = <<>> /\ busy[c] = "none" /\ conn[c] = "open"
      /\ UNCHANGED <<conn, resp, passive, busy, permits, written>>
  BY DEF ServerReads, Idle
<1>3. b \in Seq(Commands) /\ Len(b) = m /\ m \in Nat
  BY FtpAssumption
<1>4. asked[c] \in Seq(Commands) /\ asked[c] \o b \in Seq(Commands) /\ Len(asked[c] \o b) = Len(asked[c]) + m
      /\ Len(asked[c]) \in Nat
  <2>1. asked[c] \in Seq(Commands)
    BY DEF FtpInv, FtpTypes
  <2> QED
    BY ONLY <1>3, <2>1, ConcatProperties, LenProperties
<1>5. queue \in [Clients -> Seq(Commands)] /\ asked \in [Clients -> Seq(Commands)]
  BY DEF FtpInv, FtpTypes
<1>6. /\ queue' \in [Clients -> Seq(Commands)] /\ asked' \in [Clients -> Seq(Commands)]
      /\ queue'[c] = b /\ asked'[c] = asked[c] \o b
      /\ \A a \in Clients \ {c} : queue'[a] = queue[a] /\ asked'[a] = asked[a]
  BY <1>1, <1>3, <1>4, <1>5
<1>7. FtpTypes' /\ DataSocketExact'
  BY <1>2, <1>6 DEF FtpInv, FtpTypes, DataSocketExact
<1>8. PermitsExact'
  BY <1>2 DEF FtpInv, PermitsExact
<1>9. Taken(c)' = Taken(c) /\ Handled(c)' = Handled(c) /\ ~Quitting(c)
  <2>1. Len(queue[c]) = 0
    BY <1>2, EmptySeq
  <2>2. Taken(c) = Len(asked[c]) /\ Taken(c)' = Len(asked[c])
    BY <1>3, <1>4, <1>6, <2>1 DEF Taken
  <2> QED
    BY <1>2, <2>2 DEF Handled, Quitting
<1>10. /\ InOrder(written[c] \o resp[c]) /\ Handled(c) \in Nat
       /\ Answered(written[c] \o resp[c], Handled(c)) /\ Announced(written[c] \o resp[c], Taken(c))
  BY <1>2, <1>9 DEF FtpInv, AnswersInOrder, Numbered
<1>11. \A a \in Clients \ {c} :
          /\ conn'[a] = conn[a] /\ queue'[a] = queue[a] /\ asked'[a] = asked[a] /\ busy'[a] = busy[a]
          /\ resp'[a] = resp[a] /\ written'[a] = written[a]
  BY <1>2, <1>6
<1>12. /\ InOrder(written'[c] \o resp'[c]) /\ Handled(c)' \in Nat /\ conn'[c] = "open"
       /\ Answered(written'[c] \o resp'[c], Handled(c)') /\ Announced(written'[c] \o resp'[c], Taken(c)')
  BY <1>2, <1>9, <1>10
<1> QED
  BY <1>7, <1>8, <1>11, <1>12, ClientStep

\* finish_ftp_passive_transfer and finish_ftp_active_transfer.
LEMMA FinalAppended ==
    ASSUME NEW w \in Seq(Replies), NEW r \in Seq(Replies), NEW n \in Nat, NEW x \in Replies,
           x.of = n + 1, Final(x), InOrder(w \o r), Answered(w \o r, n), Announced(w \o r, n + 1)
    PROVE  /\ Append(r, x) \in Seq(Replies) /\ InOrder(w \o Append(r, x))
           /\ Answered(w \o Append(r, x), n + 1) /\ Announced(w \o Append(r, x), n + 1)
<1>1. PICK s : s = w \o r
  OBVIOUS
<1>2. PICK t : t = w \o Append(r, x)
  OBVIOUS
<1>3. s \in Seq(Replies) /\ t \in Seq(Replies) /\ PutIn(t, s, Len(s), x) /\ Append(r, x) \in Seq(Replies)
  BY <1>1, <1>2, AppendedLast
<1>4. InOrder(s) /\ Answered(s, n) /\ Announced(s, n + 1)
  BY <1>1
<1>5. InOrder(t) /\ Answered(t, n + 1) /\ Announced(t, n + 1)
  BY ONLY n \in Nat, x \in Replies, x.of = n + 1, Final(x), <1>3, <1>4, NextFinal
<1> QED
  BY <1>2, <1>3, <1>5

LEMMA NoteThenFinal ==
    ASSUME NEW w \in Seq(Replies), NEW r \in Seq(Replies), NEW n \in Nat,
           NEW y \in Replies, y.of = n + 1, ~Final(y), NEW x \in Replies, x.of = n + 1, Final(x),
           InOrder(w \o r), Answered(w \o r, n), Announced(w \o r, n + 1)
    PROVE  /\ Append(Append(r, y), x) \in Seq(Replies) /\ InOrder(w \o Append(Append(r, y), x))
           /\ Answered(w \o Append(Append(r, y), x), n + 1) /\ Announced(w \o Append(Append(r, y), x), n + 1)
<1>1. PICK s : s = w \o r
  OBVIOUS
<1>2. PICK q : q = Append(r, y)
  OBVIOUS
<1>3. PICK u : u = w \o q
  OBVIOUS
<1>4. s \in Seq(Replies) /\ u \in Seq(Replies) /\ PutIn(u, s, Len(s), y) /\ q \in Seq(Replies)
  BY <1>1, <1>2, <1>3, AppendedLast
<1>5. InOrder(s) /\ Answered(s, n) /\ Announced(s, n + 1)
  BY <1>1
<1>6. Len(s) \in 0 .. Len(s)
  BY <1>4, LenProperties
<1>7. InOrder(u) /\ Answered(u, n) /\ Announced(u, n + 1)
  BY ONLY n \in Nat, y \in Replies, y.of = n + 1, ~Final(y), <1>4, <1>5, <1>6, NextNote
<1>8. /\ Append(q, x) \in Seq(Replies) /\ InOrder(w \o Append(q, x))
      /\ Answered(w \o Append(q, x), n + 1) /\ Announced(w \o Append(q, x), n + 1)
  <2>1. InOrder(w \o q) /\ Answered(w \o q, n) /\ Announced(w \o q, n + 1)
    BY <1>3, <1>7
  <2> QED
    BY ONLY w \in Seq(Replies), n \in Nat, x \in Replies, x.of = n + 1, Final(x), <1>4, <2>1, FinalAppended
<1> QED
  BY <1>2, <1>8

LEMMA FinishStep ==
    ASSUME FtpInv, NEW c \in Clients, NEW code \in {226, 425, 426}, FinishTransfer(c, code) PROVE FtpInv'
<1> DEFINE n == Handled(c)
           x == Reply(code, n + 1)
           y == Reply(150, n + 1)
           s == written[c] \o resp[c]
           t == written'[c] \o resp'[c]
<1>1. /\ busy[c] # "none" /\ busy[c] \in {"passive", "active"} /\ permits \in Nat
      /\ written[c] \in Seq(Replies) /\ resp[c] \in Seq(Replies)
  BY DEF FinishTransfer, FtpInv, FtpTypes
<1>2. n \in Nat /\ Taken(c) = n + 1 /\ conn[c] = "open" /\ ~Quitting(c)
  <2>1. n \in Nat /\ conn[c] = "open"
    BY <1>1 DEF FtpInv, Numbered
  <2>2. n = Taken(c) - 1
    BY <1>1 DEF Handled
  <2>3. Taken(c) \in Int
    BY DEF Taken, FtpInv, FtpTypes
  <2> QED
    BY <1>1, <2>1, <2>2, <2>3 DEF Quitting
<1>3. Answered(s, n) /\ Announced(s, n + 1) /\ InOrder(s)
  BY <1>2 DEF FtpInv, Numbered, AnswersInOrder
<1>4. /\ resp' = [resp EXCEPT ![c] = @ \o TransferReplies(busy[c], code, n + 1)]
      /\ busy' = [busy EXCEPT ![c] = "none"] /\ permits' = permits + 1
      /\ UNCHANGED <<conn, queue, passive, asked, written>>
  BY ZenonT(60), <1>2 DEF FinishTransfer, Taken
<1>5. x \in Replies /\ x.of = n + 1 /\ Final(x) /\ y \in Replies /\ y.of = n + 1 /\ ~Final(y)
  BY <1>2 DEF Reply, Replies, Final
<1> HIDE DEF n
<1>6. resp[c] \o TransferReplies(busy[c], code, n + 1) =
         IF busy[c] = "active" THEN Append(Append(resp[c], y), x) ELSE Append(resp[c], x)
  <2>1. CASE busy[c] = "active"
    <3>1. TransferReplies(busy[c], code, n + 1) = <<y, x>>
      BY <2>1 DEF TransferReplies
    <3> HIDE DEF x, y
    <3>2. Append(resp[c], y) = resp[c] \o <<y>>
      BY ONLY <1>1, <1>5, AppendIsConcat
    <3>3. Append(Append(resp[c], y), x) \in Seq(Replies) /\ Append(resp[c], y) \in Seq(Replies)
      BY ONLY <1>1, <1>5, AppendProperties
    <3>4. <<y, x>> \in Seq(Replies) /\ Len(<<y, x>>) = 2 /\ <<y, x>>[1] = y /\ <<y, x>>[2] = x
      BY ONLY <1>5
    <3>5. resp[c] \o <<y, x>> \in Seq(Replies) /\ Len(resp[c] \o <<y, x>>) = Len(resp[c]) + 2
          /\ (\A i \in 1 .. Len(resp[c]) : (resp[c] \o <<y, x>>)[i] = resp[c][i])
          /\ (resp[c] \o <<y, x>>)[Len(resp[c]) + 1] = y /\ (resp[c] \o <<y, x>>)[Len(resp[c]) + 2] = x
      BY ONLY <1>1, <3>4, ConcatProperties, LenProperties
    <3>6. /\ Len(Append(Append(resp[c], y), x)) = Len(resp[c]) + 2
          /\ (\A i \in 1 .. Len(resp[c]) : Append(Append(resp[c], y), x)[i] = resp[c][i])
          /\ Append(Append(resp[c], y), x)[Len(resp[c]) + 1] = y /\ Append(Append(resp[c], y), x)[Len(resp[c]) + 2] = x
      BY ONLY <1>1, <1>5
    <3>7. Append(Append(resp[c], y), x) = resp[c] \o <<y, x>>
      <4> DEFINE f == Append(Append(resp[c], y), x)
                 g == resp[c] \o <<y, x>>
      <4>1. /\ f \in Seq(Replies) /\ g \in Seq(Replies) /\ Len(f) = Len(g) /\ Len(f) = Len(resp[c]) + 2
            /\ Len(resp[c]) \in Nat /\ (\A i \in 1 .. Len(resp[c]) : f[i] = g[i])
            /\ f[Len(resp[c]) + 1] = g[Len(resp[c]) + 1] /\ f[Len(resp[c]) + 2] = g[Len(resp[c]) + 2]
        BY <1>1, <3>3, <3>5, <3>6, LenProperties
      <4> HIDE DEF f, g
      <4>2. ASSUME NEW i \in 1 .. Len(f) PROVE f[i] = g[i]
        <5>1. PICK k \in Nat : k = Len(resp[c])
          BY ONLY <4>1
        <5>2. i \in 1 .. k \/ i = k + 1 \/ i = k + 2
          BY ONLY <4>1, <5>1, i \in 1 .. Len(f)
        <5> QED
          BY ONLY <4>1, <5>1, <5>2
      <4>3. f = g
        BY ONLY ZenonT(60), <4>1, <4>2, SeqEqual
      <4> QED
        BY <4>3 DEF f, g
    <3> QED
      BY <2>1, <3>1, <3>7
  <2>2. CASE busy[c] # "active"
    <3>1. TransferReplies(busy[c], code, n + 1) = <<x>>
      BY <2>2 DEF TransferReplies
    <3> HIDE DEF x, y
    <3>2. Append(resp[c], x) = resp[c] \o <<x>>
      BY ONLY <1>1, <1>5, AppendIsConcat
    <3> QED
      BY ZenonT(60), <2>2, <3>1, <3>2
  <2> QED
    BY ZenonT(60), <2>1, <2>2
<1> HIDE DEF x, y
<1>7. InOrder(t) /\ Answered(t, n + 1) /\ Announced(t, n + 1) /\ resp' \in [Clients -> Seq(Replies)]
  <2>1. PICK w : w = written[c]
    OBVIOUS
  <2>2. PICK r : r = resp[c]
    OBVIOUS
  <2>3. PICK a : a = x
    OBVIOUS
  <2>4. PICK b : b = y
    OBVIOUS
  <2>5. PICK m : m = n
    OBVIOUS
  <2>6. /\ w \in Seq(Replies) /\ r \in Seq(Replies) /\ m \in Nat
        /\ a \in Replies /\ a.of = m + 1 /\ Final(a) /\ b \in Replies /\ b.of = m + 1 /\ ~Final(b)
    BY <1>1, <1>2, <1>5, <2>1, <2>2, <2>3, <2>4, <2>5
  <2>7. Answered(w \o r, m) /\ Announced(w \o r, m + 1) /\ InOrder(w \o r)
    BY <1>3, <2>1, <2>2, <2>5
  <2>8. PICK z : z = resp[c] \o TransferReplies(busy[c], code, n + 1)
    OBVIOUS
  <2>9. /\ z \in Seq(Replies) /\ InOrder(w \o z) /\ Answered(w \o z, m + 1) /\ Announced(w \o z, m + 1)
    <3>1. CASE busy[c] = "active"
      <4>1. z = Append(Append(r, b), a)
        BY ZenonT(60), <1>6, <2>2, <2>3, <2>4, <2>8, <3>1
      <4>2. /\ Append(Append(r, b), a) \in Seq(Replies) /\ InOrder(w \o Append(Append(r, b), a))
            /\ Answered(w \o Append(Append(r, b), a), m + 1) /\ Announced(w \o Append(Append(r, b), a), m + 1)
        BY ONLY <2>6, <2>7, NoteThenFinal
      <4> QED
        BY ONLY <4>1, <4>2
    <3>2. CASE busy[c] # "active"
      <4>1. z = Append(r, a)
        BY <1>6, <2>2, <2>3, <2>8, <3>2
      <4>2. /\ Append(r, a) \in Seq(Replies) /\ InOrder(w \o Append(r, a))
            /\ Answered(w \o Append(r, a), m + 1) /\ Announced(w \o Append(r, a), m + 1)
        BY ONLY <2>6, <2>7, FinalAppended
      <4> QED
        BY ONLY <4>1, <4>2
    <3> QED
      BY <3>1, <3>2
  <2>10. resp' = [resp EXCEPT ![c] = z] /\ written' = written /\ resp \in [Clients -> Seq(Replies)]
    BY <1>4, <2>8 DEF FtpInv, FtpTypes
  <2>11. resp' \in [Clients -> Seq(Replies)] /\ resp'[c] = z
    BY ONLY <2>9, <2>10, c \in Clients
  <2>12. t = w \o z
    BY <2>1, <2>10, <2>11
  <2> QED
    BY <2>5, <2>9, <2>11, <2>12
<1> HIDE DEF s, t
<1>8. /\ busy' \in [Clients -> {"none", "passive", "active"}] /\ busy'[c] = "none"
      /\ (\A b \in Clients \ {c} : busy'[b] = busy[b] /\ resp'[b] = resp[b])
  BY <1>4 DEF FtpInv, FtpTypes
<1>9. FtpTypes' /\ DataSocketExact'
  BY <1>1, <1>4, <1>7, <1>8 DEF FtpInv, FtpTypes, DataSocketExact
<1>10. PermitsExact'
  <2>1. Busy(c) = 1 /\ Busy(c)' = 0 /\ Held(c)' = Held(c) /\ Held(c) \in Nat
    BY <1>1, <1>4, <1>8 DEF Busy, Held
  <2>2. permits' + Held(c)' + Busy(c)' = permits + Held(c) + Busy(c)
    BY <1>1, <1>4, <2>1
  <2> QED
    BY <1>4, <1>8, <1>9, <2>2, PermitStep
<1>11. Taken(c)' = n + 1 /\ Handled(c)' = n + 1
  <2>1. Taken(c)' = Taken(c)
    BY <1>4 DEF Taken
  <2> QED
    BY <1>2, <1>8, <2>1 DEF Handled
<1>12. /\ InOrder(written'[c] \o resp'[c]) /\ Handled(c)' \in Nat /\ busy'[c] = "none"
       /\ Answered(written'[c] \o resp'[c], Handled(c)') /\ Announced(written'[c] \o resp'[c], Taken(c)')
  BY <1>2, <1>7, <1>8, <1>11 DEF t
<1>13. \A b \in Clients \ {c} :
          /\ conn'[b] = conn[b] /\ queue'[b] = queue[b] /\ asked'[b] = asked[b] /\ busy'[b] = busy[b]
          /\ resp'[b] = resp[b] /\ written'[b] = written[b]
  BY <1>4, <1>8
<1> QED
  BY <1>9, <1>10, <1>12, <1>13, ClientStep

\* A connection that ends gives back its socket.
LEMMA CloseStep ==
    ASSUME FtpInv, NEW c \in Clients, Idle(c), Close(c), UNCHANGED <<queue, busy, asked>>,
           NEW w \in Seq(Replies), InOrder(w), written' = [written EXCEPT ![c] = w], resp' = [resp EXCEPT ![c] = <<>>]
    PROVE  FtpInv'
<1>1. /\ conn' \in [Clients -> {"open", "closed"}] /\ conn'[c] = "closed"
      /\ \A b \in Clients \ {c} : conn'[b] = conn[b]
  BY DEF FtpInv, FtpTypes, Close
<1>2. /\ passive' \in [Clients -> DataState] /\ (\A b \in Clients \ {c} : passive'[b] = passive[b])
      /\ DataSocketExact' /\ Held(c)' = 0
  BY ClearStep DEF Close
<1>3. permits \in Nat /\ Held(c) \in Nat /\ permits' = permits + Held(c)
  BY Permits DEF Close
<1>4. /\ <<>> \in Seq(Replies) /\ written \in [Clients -> Seq(Replies)] /\ resp \in [Clients -> Seq(Replies)]
  BY EmptySeq DEF FtpInv, FtpTypes
<1>5. /\ written' \in [Clients -> Seq(Replies)] /\ resp' \in [Clients -> Seq(Replies)]
      /\ written'[c] = w /\ resp'[c] = <<>>
      /\ \A b \in Clients \ {c} : written'[b] = written[b] /\ resp'[b] = resp[b]
  BY <1>4
<1>6. FtpTypes'
  BY <1>1, <1>2, <1>3, <1>5 DEF FtpInv, FtpTypes
<1>7. PermitsExact'
  <2>1. Busy(c) = 0 /\ Busy(c)' = 0
    BY DEF Busy, Idle
  <2>2. permits' + Held(c)' + Busy(c)' = permits + Held(c) + Busy(c)
    BY <1>2, <1>3, <2>1
  <2> QED
    BY <1>2, <1>6, <2>2, PermitStep
<1>8. written'[c] \o resp'[c] = w
  BY <1>5, ConcatEmptySeq
<1>9. Handled(c)' = Handled(c) /\ Handled(c) \in Nat /\ busy'[c] = "none"
  BY DEF Handled, Taken, Idle, FtpInv, Numbered
<1>10. \A b \in Clients \ {c} :
          /\ conn'[b] = conn[b] /\ queue'[b] = queue[b] /\ asked'[b] = asked[b] /\ busy'[b] = busy[b]
          /\ resp'[b] = resp[b] /\ written'[b] = written[b]
  BY <1>1, <1>5
<1>11. InOrder(written'[c] \o resp'[c]) /\ Handled(c)' \in Nat
  BY <1>8, <1>9
<1> QED
  BY <1>1, <1>2, <1>6, <1>7, <1>9, <1>10, <1>11, ClientStep

\* The collected response goes out, or the connection ends in the attempt.
LEMMA ResponseWritten ==
    ASSUME FtpInv, NEW c \in Clients, NEW ok \in BOOLEAN, WriteResponse(c, ok) PROVE FtpInv'
<1> DEFINE s == written[c] \o resp[c]
           last == resp[c][Len(resp[c])]
<1>1. /\ Idle(c) /\ queue[c] = <<>> /\ resp[c] # <<>> /\ resp' = [resp EXCEPT ![c] = <<>>]
      /\ UNCHANGED <<queue, busy, asked>>
  BY DEF WriteResponse
<1>2. /\ written[c] \in Seq(Replies) /\ resp[c] \in Seq(Replies) /\ InOrder(s)
      /\ written \in [Clients -> Seq(Replies)] /\ resp \in [Clients -> Seq(Replies)]
  BY DEF FtpInv, FtpTypes, AnswersInOrder
<1>3. s \in Seq(Replies) /\ InOrder(written[c])
  BY ONLY <1>2, ConcatProperties, WrittenPart
<1>4. CASE ~ok
  <2>1. written' = written /\ Close(c)
    BY <1>4 DEF WriteResponse
  <2>2. PICK w \in Seq(Replies) : w = written[c]
    BY <1>2
  <2>3. InOrder(w) /\ written' = [written EXCEPT ![c] = w]
    BY <1>2, <1>3, <2>1, <2>2
  <2> QED
    BY <1>1, <2>1, <2>3, CloseStep
<1>5. CASE ok /\ Close(c)
  <2>1. written' = [written EXCEPT ![c] = s]
    BY <1>5 DEF WriteResponse
  <2>2. PICK w \in Seq(Replies) : w = s
    BY <1>3
  <2> HIDE DEF s
  <2>3. InOrder(w) /\ written' = [written EXCEPT ![c] = w]
    BY <1>2, <2>1, <2>2
  <2> QED
    BY <1>1, <1>5, <2>3, CloseStep
<1>6. CASE ok /\ ~(Reply(221, last.of) = last) /\ UNCHANGED <<conn, passive, permits>>
  <2>1. written' = [written EXCEPT ![c] = s]
    BY <1>6 DEF WriteResponse
  <2>2. last \in Replies
    BY <1>1, <1>2, EmptySeq, ElementOfSeq
  <2>3. last.code # 221
    <3> HIDE DEF last
    <3> QED
      BY <1>6, <2>2 DEF Reply, Replies
  <2>4. ~Quitting(c)
    BY <2>3 DEF Quitting
  <2>5. conn[c] = "open" /\ busy[c] = "none"
    BY <1>1 DEF Idle
  <2>6. Handled(c) \in Nat /\ Answered(s, Handled(c)) /\ Announced(s, Taken(c))
    BY <2>4, <2>5 DEF FtpInv, Numbered
  <2>7. Handled(c)' = Handled(c) /\ Taken(c)' = Taken(c)
    BY <1>1 DEF Handled, Taken
  <2>8. <<>> \in Seq(Replies)
    BY EmptySeq
  <2> HIDE DEF s
  <2>9. /\ written' \in [Clients -> Seq(Replies)] /\ resp' \in [Clients -> Seq(Replies)]
        /\ written'[c] = s /\ resp'[c] = <<>>
        /\ \A b \in Clients \ {c} : written'[b] = written[b] /\ resp'[b] = resp[b]
    BY <1>1, <1>2, <1>3, <2>1, <2>8
  <2>10. written'[c] \o resp'[c] = s
    BY <1>3, <2>9, ConcatEmptySeq
  <2>11. FtpTypes' /\ DataSocketExact'
    BY <1>1, <1>6, <2>9 DEF FtpInv, FtpTypes, DataSocketExact
  <2>12. PermitsExact'
    BY <1>1, <1>6 DEF FtpInv, PermitsExact
  <2>13. /\ InOrder(written'[c] \o resp'[c]) /\ Handled(c)' \in Nat /\ busy'[c] = "none"
         /\ Answered(written'[c] \o resp'[c], Handled(c)') /\ Announced(written'[c] \o resp'[c], Taken(c)')
    BY <1>1, <1>2, <2>5, <2>6, <2>7, <2>10
  <2>14. \A b \in Clients \ {c} :
            /\ conn'[b] = conn[b] /\ queue'[b] = queue[b] /\ asked'[b] = asked[b] /\ busy'[b] = busy[b]
            /\ resp'[b] = resp[b] /\ written'[b] = written[b]
    BY <1>1, <1>6, <2>9
  <2> QED
    BY <2>11, <2>12, <2>13, <2>14, ClientStep
<1> QED
  BY <1>4, <1>5, <1>6 DEF WriteResponse

LEMMA EndsStep ==
    ASSUME FtpInv, NEW c \in Clients, ReadEnds(c) PROVE FtpInv'
<1>1. Idle(c) /\ Close(c) /\ resp[c] = <<>> /\ UNCHANGED <<queue, resp, busy, asked, written>>
  BY DEF ReadEnds
<1>2. /\ written[c] \in Seq(Replies) /\ InOrder(written[c] \o resp[c]) /\ resp[c] \in Seq(Replies)
      /\ written \in [Clients -> Seq(Replies)] /\ resp \in [Clients -> Seq(Replies)]
  BY DEF FtpInv, FtpTypes, AnswersInOrder
<1>3. InOrder(written[c])
  BY ONLY <1>2, WrittenPart
<1>4. PICK w \in Seq(Replies) : w = written[c]
  BY <1>2
<1>5. InOrder(w) /\ written' = [written EXCEPT ![c] = w] /\ resp' = [resp EXCEPT ![c] = <<>>]
  BY <1>1, <1>2, <1>3, <1>4
<1> QED
  BY <1>1, <1>5, CloseStep

LEMMA FtpStart == ASSUME FtpInit PROVE FtpInv
<1>1. \A S : <<>> \in Seq(S) /\ Len(<<>>) = 0
  BY EmptySeq
<1>2. FtpTypes
  BY <1>1, DataStates, FtpAssumption DEF FtpInit, FtpTypes
<1>3. DataSocketExact
  BY DataStates DEF FtpInit, DataSocketExact
<1>4. PermitsExact
  <2>1. Sockets = {} /\ Transfers = {} /\ Cardinality({}) = 0
    BY DataStates, FS_EmptySet DEF FtpInit, Sockets, Transfers
  <2>2. permits = MAX_FTP_PASSIVE_TRANSFERS
    BY DEF FtpInit
  <2>3. Cardinality(Sockets) = 0 /\ Cardinality(Transfers) = 0
    BY ONLY <2>1
  <2>4. permits + Cardinality(Sockets) + Cardinality(Transfers) = MAX_FTP_PASSIVE_TRANSFERS
    BY ONLY <2>2, <2>3, FtpAssumption
  <2> QED
    BY ONLY <2>4 DEF PermitsExact, Sockets, Transfers
<1>5. ASSUME NEW c \in Clients
      PROVE  /\ written[c] \o resp[c] = <<>> /\ Taken(c) = 0 /\ Handled(c) = 0 /\ busy[c] = "none"
  <2>1. written[c] = <<>> /\ resp[c] = <<>> /\ busy[c] = "none" /\ queue[c] = <<>> /\ asked[c] = <<>>
    BY DEF FtpInit
  <2>2. <<>> \o <<>> = <<>>
    BY <1>1, ConcatEmptySeq
  <2>3. Taken(c) = 0
    BY <1>1, <2>1 DEF Taken
  <2>4. Handled(c) = 0
    BY <2>1, <2>3 DEF Handled
  <2>5. written[c] \o resp[c] = <<>>
    BY ONLY <2>1, <2>2
  <2> QED
    BY <2>1, <2>3, <2>4, <2>5
<1>6. InOrder(<<>>) /\ Answered(<<>>, 0) /\ Announced(<<>>, 0)
  BY <1>1 DEF InOrder, Answered, Announced
<1>7. AnswersInOrder /\ Numbered
  <2>1. AnswersInOrder
    BY ONLY <1>5, <1>6 DEF AnswersInOrder
  <2>2. ASSUME NEW c \in Clients
        PROVE  /\ Handled(c) \in Nat /\ (busy[c] # "none" => conn[c] = "open")
               /\ Answered(written[c] \o resp[c], Handled(c)) /\ Announced(written[c] \o resp[c], Taken(c))
    <3>1. written[c] \o resp[c] = <<>> /\ Taken(c) = 0 /\ Handled(c) = 0 /\ busy[c] = "none"
      BY <1>5
    <3>2. Handled(c) \in Nat /\ (busy[c] # "none" => conn[c] = "open")
      BY <3>1
    <3>3. Answered(written[c] \o resp[c], Handled(c)) /\ Announced(written[c] \o resp[c], Taken(c))
      BY ONLY <1>6, <3>1
    <3> QED
      BY <3>2, <3>3
  <2>3. Numbered
    BY ONLY <2>2 DEF Numbered
  <2> QED
    BY <2>1, <2>3
<1> QED
  BY <1>2, <1>3, <1>4, <1>7 DEF FtpInv

\* The invariant of the FTP service, for any number of clients and any
\* commands they send at a time.
THEOREM FtpInvariance == FtpSpec => []FtpInv
<1>1. FtpInv /\ [FtpNext]_ftpVars => FtpInv'
  <2> SUFFICES ASSUME FtpInv, [FtpNext]_ftpVars PROVE FtpInv'
    OBVIOUS
  <2>1. CASE UNCHANGED ftpVars
    <3>1. UNCHANGED <<conn, queue, resp, passive, busy, permits, asked, written>>
      BY <2>1 DEF ftpVars
    <3>2. FtpTypes' /\ DataSocketExact' /\ PermitsExact' /\ AnswersInOrder'
      BY <3>1 DEF FtpInv, FtpTypes, DataSocketExact, PermitsExact, AnswersInOrder
    <3>3. Numbered'
      BY ZenonT(60), <3>1 DEF FtpInv, Numbered, Handled, Taken, Quitting
    <3> QED
      BY <3>2, <3>3 DEF FtpInv
  <2>2. CASE Done
    BY <2>1, <2>2 DEF Done
  <2>3. ASSUME NEW c \in Clients, ServerReads(c) \/ HandleCommand(c) \/ ReadEnds(c) PROVE FtpInv'
    BY <2>3, CommandsRead, CommandStep, EndsStep
  <2>4. ASSUME NEW c \in Clients, NEW code \in {226, 425, 426}, FinishTransfer(c, code) PROVE FtpInv'
    BY <2>4, FinishStep
  <2>5. ASSUME NEW c \in Clients, NEW ok \in BOOLEAN, WriteResponse(c, ok) PROVE FtpInv'
    BY <2>5, ResponseWritten
  <2> QED
    BY <2>1, <2>2, <2>3, <2>4, <2>5 DEF FtpNext
<1>2. FtpInit => FtpInv
  BY FtpStart
<1> QED
  BY <1>1, <1>2, PTL DEF FtpSpec

\* However the commands of the control connections are pipelined and their
\* transfers fail, a data socket is open exactly while its permit is held, no
\* permit of the semaphore is lost or made, and every command is answered once,
\* in order, a 150 before the final reply of its transfer (prepare_ftp_command,
\* finish_ftp_passive_transfer, finish_ftp_active_transfer).
THEOREM FtpIsInOrder == FtpSpec => []FtpInOrder
<1>1. FtpInv => FtpInOrder
  BY DEF FtpInv, FtpInOrder
<1> QED
  BY <1>1, FtpInvariance, PTL

-----------------------------------------------------------------------------
(* The UDP listener.  The counters are compared with the datagrams they    *)
(* stand for, at every moment and not only when the tasks have ended.      *)

\* Whose bytes, answers, commands and sessions a key k stands for.
CountedOf(k) == {d \in DOMAIN in : Served(d) /\ Key(d) = k /\ Counts(d)}
SentOf(k)    == {d \in DOMAIN in : Served(d) /\ Key(d) = k /\ d \in sent}
NewOf(k)     == {d \in isnew : Key(d) = k}
FiredOf(k)   == {d \in isnew : Key(d) = k /\ Served(d) /\ decision[d] # "block"}
Ended        == {d \in DOMAIN in : pc[d] = "done"}

\* The address queries answered, and those answered NXDOMAIN.
Answered4(d) == /\ answer[d] \in {"NXDomain", "NoError"}
                /\ Data[in[d].data].f.qtype = "A" /\ Data[in[d].data].f.domain # NCSI
Gone == {d \in DOMAIN in : Answered4(d) /\ answer[d] = "NXDomain"}

UdpTypes ==
    /\ lis \in UdpListeners /\ in \in Traffic
    /\ pc \in [Datagrams -> {"new", "filter", "decide", "forward", "answer", "done"}]
    /\ isnew \subseteq DOMAIN in /\ sessions \subseteq AllKeys
    /\ process \in [AllKeys -> Processes \cup {""}]
    /\ decision \in [Datagrams -> Decisions \cup {""}]
    /\ DOMAIN answer = Datagrams
    /\ sent \subseteq DOMAIN in /\ recorded \subseteq captured
    /\ counted \in [AllKeys -> [in : Nat, out : Nat]]
    /\ fired \in [AllKeys -> Nat] /\ opened \in [AllKeys -> Nat]
    /\ commands \in 0 .. MAX_ACTIVE_COMMANDS

\* How far the task of d is.
Progress(d) ==
    /\ d \notin DOMAIN in => pc[d] = "done" /\ decision[d] = ""
    /\ pc[d] \in {"new", "filter", "decide"} => decision[d] = "" /\ answer[d] = ""
    /\ pc[d] = "new" => d \notin isnew
    /\ pc[d] = "answer" => decision[d] = "emulate"
    /\ pc[d] = "forward" => decision[d] \in {"pass", "capture"}
    /\ d \in sent => pc[d] = "done" /\ decision[d] \in {"pass", "capture", "emulate"}

\* The rule i keeps in every datagram of its source, whatever comes later.
Contains(d, i) ==
    /\ lis.rules[i].source_host = to_string(in[d].src) /\ lis.rules[i].destination_port = 0
    /\ lis.rules[i].decision \in {"block", "sinkhole"}
    /\ \A field \in {"listener", "protocol", "destination_host", "process_name"} : lis.rules[i][field] = ""
    /\ \A j \in 1 .. i - 1 : lis.rules[j].decision \in {"block", "sinkhole"}

Counting == \A k \in AllKeys : /\ counted[k].in = Cardinality(CountedOf(k))
                               /\ counted[k].out = Cardinality(SentOf(k))
Firing == \A k \in AllKeys :
    /\ opened[k] = Cardinality(NewOf(k))
    /\ fired[k] <= Cardinality(FiredOf(k))
    /\ MAX_ACTIVE_COMMANDS >= Len(in) => fired[k] = Cardinality(FiredOf(k))
Queries ==
    /\ dns = [nxdomains_count |-> Cardinality(Gone), custom |-> <<>>]
    /\ Cardinality(Gone) <= DnsConfig.nxdomains
    /\ \A d \in DOMAIN in : Answered4(d) /\ d \notin Gone => Cardinality(Gone) = DnsConfig.nxdomains
Contained == \A d \in DOMAIN in : \A i \in DOMAIN lis.rules :
    Contains(d, i) => decision[d] \in {"", "block", "sinkhole"}

UdpInv ==
    /\ UdpTypes /\ (\A d \in Datagrams : Progress(d))
    /\ Counting /\ Firing /\ commands <= Cardinality(Ended)
    /\ Queries /\ Cardinality(Running) <= MaxTasks /\ Contained

-----------------------------------------------------------------------------
LEMMA TrafficFacts ==
    ASSUME UdpTypes
    PROVE  /\ Len(in) \in Nat /\ DOMAIN in = 1 .. Len(in) /\ DOMAIN in \subseteq Datagrams
           /\ IsFiniteSet(DOMAIN in) /\ Cardinality(DOMAIN in) = Len(in)
           /\ \A d \in DOMAIN in : Key(d) \in AllKeys
<1>1. in \in Traffic
  BY DEF UdpTypes
<1>2. Len(in) \in Nat /\ DOMAIN in = 1 .. Len(in)
  BY <1>1, UdpAssumption
<1>3. DOMAIN in \subseteq Datagrams
  BY <1>1 DEF Datagrams
<1>4. IsFiniteSet(DOMAIN in) /\ Cardinality(DOMAIN in) = Len(in)
  <2>1. PICK n \in Nat : n = Len(in)
    BY <1>2
  <2>2. IsFiniteSet(1 .. n) /\ Cardinality(1 .. n) = IF 1 > n THEN 0 ELSE n - 1 + 1
    BY ONLY n \in Nat, FS_Interval
  <2>3. IsFiniteSet(1 .. n) /\ Cardinality(1 .. n) = n
    BY <2>2
  <2> QED
    BY SMTT(30), <1>2, <2>1, <2>3
<1>5. \A d \in DOMAIN in : Key(d) \in AllKeys
  BY <1>1 DEF Key, AllKeys
<1> QED
  BY <1>2, <1>3, <1>4, <1>5

\* One more, or none.
LEMMA OneMore ==
    ASSUME NEW S, IsFiniteSet(S), NEW d, d \notin S
    PROVE  IsFiniteSet(S \cup {d}) /\ Cardinality(S) \in Nat /\ Cardinality(S \cup {d}) = Cardinality(S) + 1
  BY FS_AddElement, FS_CardinalityType

LEMMA SetFacts ==
    ASSUME UdpTypes
    PROVE  /\ \A k : /\ IsFiniteSet(CountedOf(k)) /\ Cardinality(CountedOf(k)) \in Nat
                     /\ IsFiniteSet(SentOf(k)) /\ Cardinality(SentOf(k)) \in Nat
                     /\ IsFiniteSet(NewOf(k)) /\ Cardinality(NewOf(k)) \in Nat
                     /\ IsFiniteSet(FiredOf(k)) /\ Cardinality(FiredOf(k)) \in Nat
                     /\ Cardinality(FiredOf(k)) <= Cardinality(NewOf(k))
           /\ IsFiniteSet(Ended) /\ Cardinality(Ended) \in Nat
           /\ IsFiniteSet(Gone) /\ Cardinality(Gone) \in Nat
<1>1. \A S : S \subseteq DOMAIN in => IsFiniteSet(S) /\ Cardinality(S) \in Nat
  BY TrafficFacts, FS_Subset, FS_CardinalityType
<1>2. \A k : CountedOf(k) \subseteq DOMAIN in /\ SentOf(k) \subseteq DOMAIN in
  BY DEF CountedOf, SentOf
<1>3. \A k : NewOf(k) \subseteq DOMAIN in /\ FiredOf(k) \subseteq NewOf(k)
  BY DEF NewOf, FiredOf, UdpTypes
<1>4. Ended \subseteq DOMAIN in /\ Gone \subseteq DOMAIN in
  BY DEF Ended, Gone
<1>5. \A k : IsFiniteSet(NewOf(k)) /\ FiredOf(k) \subseteq DOMAIN in
  BY <1>1, <1>3
<1>6. \A k : Cardinality(FiredOf(k)) <= Cardinality(NewOf(k))
  BY <1>3, <1>5, FS_Subset
<1> QED
  BY <1>1, <1>2, <1>3, <1>4, <1>5, <1>6

LEMMA RunningFacts ==
    ASSUME UdpTypes, \A d \in Datagrams : Progress(d)
    PROVE  IsFiniteSet(Running) /\ Cardinality(Running) \in Nat /\ Running \subseteq DOMAIN in
<1>1. Running \subseteq DOMAIN in
  BY DEF Running, Progress
<1> QED
  BY <1>1, TrafficFacts, FS_Subset, FS_CardinalityType

\* The properties follow from the invariant.
LEMMA UdpProperties == ASSUME UdpInv PROVE DatagramsAccounted
<1>1. TypeOK
  <2>1. dns.nxdomains_count \in 0 .. DnsConfig.nxdomains
    BY SetFacts, UdpAssumption DEF UdpInv, Queries
  <2>2. /\ isnew \subseteq Datagrams /\ sessions \subseteq AllKeys /\ sent \subseteq Datagrams
        /\ process \in [AllKeys -> Processes \cup {""}] /\ decision \in [Datagrams -> Decisions \cup {""}]
        /\ recorded \subseteq captured /\ commands \in 0 .. MAX_ACTIVE_COMMANDS
    BY ZenonT(60), TrafficFacts DEF UdpInv, UdpTypes
  <2> QED
    BY <2>1, <2>2 DEF TypeOK, UdpInv
<1>2. NxdomainsExact
  <2> DEFINE queried == {d \in DOMAIN in : /\ answer[d] \in {"NXDomain", "NoError"}
                                         /\ Data[in[d].data].f.qtype = "A" /\ Data[in[d].data].f.domain # NCSI}
             gone == {d \in queried : answer[d] = "NXDomain"}
  <2>1. gone = Gone /\ Gone \subseteq queried /\ queried \subseteq DOMAIN in
    BY DEF Gone, Answered4
  <2>2. IsFiniteSet(queried) /\ Cardinality(queried) \in Nat
    BY <2>1, TrafficFacts, FS_Subset, FS_CardinalityType DEF UdpInv
  <2>3. \A d \in queried : d \in Gone \/ Cardinality(Gone) = DnsConfig.nxdomains
    BY DEF Answered4, UdpInv, Queries
  <2> HIDE DEF queried, gone
  <2>4. Cardinality(Gone) \in Nat /\ Cardinality(Gone) <= DnsConfig.nxdomains /\ DnsConfig.nxdomains \in Nat
    BY SetFacts, UdpAssumption DEF UdpInv, Queries
  <2>5. Cardinality(Gone) <= Cardinality(queried)
    BY <2>1, <2>2, FS_Subset
  <2>6. queried = Gone \/ Cardinality(Gone) = DnsConfig.nxdomains
    BY <2>1, <2>3
  <2>7. Cardinality(Gone) = IF Cardinality(queried) < DnsConfig.nxdomains
                            THEN Cardinality(queried) ELSE DnsConfig.nxdomains
    BY <2>2, <2>4, <2>5, <2>6
  <2> QED
    BY <2>1, <2>7 DEF NxdomainsExact, queried, gone
<1>3. CountedOnce
  <2> SUFFICES ASSUME NEW k \in AllKeys
               PROVE  LET mine == {d \in DOMAIN in : Served(d) /\ Key(d) = k}
                      IN  /\ counted[k].in = Cardinality({d \in mine : Counts(d)})
                          /\ counted[k].out = Cardinality(mine \cap sent)
    BY DEF CountedOnce
  <2> DEFINE mine == {d \in DOMAIN in : Served(d) /\ Key(d) = k}
  <2>1. CountedOf(k) = {d \in mine : Counts(d)} /\ SentOf(k) = mine \cap sent
    BY DEF CountedOf, SentOf
  <2>2. counted[k].in = Cardinality(CountedOf(k)) /\ counted[k].out = Cardinality(SentOf(k))
    BY DEF UdpInv, Counting
  <2> QED
    BY <2>1, <2>2
<1>4. CommandOncePerSession
  <2> SUFFICES ASSUME NEW k \in AllKeys
               PROVE  /\ fired[k] <= opened[k]
                      /\ MAX_ACTIVE_COMMANDS >= Len(in) => fired[k] = Cardinality(FiredOf(k))
    BY DEF CommandOncePerSession, FiredOf
  <2>1. /\ opened[k] = Cardinality(NewOf(k)) /\ fired[k] <= Cardinality(FiredOf(k))
        /\ MAX_ACTIVE_COMMANDS >= Len(in) => fired[k] = Cardinality(FiredOf(k))
    BY DEF UdpInv, Firing
  <2>2. fired[k] \in Nat /\ Cardinality(FiredOf(k)) \in Nat /\ Cardinality(NewOf(k)) \in Nat
        /\ Cardinality(FiredOf(k)) <= Cardinality(NewOf(k))
    BY SetFacts DEF UdpInv, UdpTypes
  <2> QED
    BY <2>1, <2>2
<1>5. PolicyContains
  <2> SUFFICES ASSUME NEW d \in DOMAIN in
               PROVE  /\ d \in sent => decision[d] \in {"pass", "capture", "emulate"}
                      /\ \A i \in DOMAIN lis.rules : Contains(d, i) => d \notin sent
    BY DEF PolicyContains, Contains
  <2>1. d \in sent => decision[d] \in {"pass", "capture", "emulate"}
    BY TrafficFacts DEF UdpInv, Progress
  <2>2. \A i \in DOMAIN lis.rules : Contains(d, i) => decision[d] \in {"", "block", "sinkhole"}
    BY DEF UdpInv, Contained
  <2> QED
    BY <2>1, <2>2
<1> QED
  BY <1>1, <1>2, <1>3, <1>4, <1>5 DEF DatagramsAccounted

-----------------------------------------------------------------------------
(* What the handlers answer.                                               *)

HandlerNames == {"dns", "tftp", "quic", "snmp", "sip", "upnp", "ntp", "coap", "daytime",
                 "time", "chargen", "quotd", "syslogrecv", "raw"}

LEMMA SupportedHandlers ==
    /\ DOMAIN is_udp_supported_handler = 1 .. 14
    /\ \A i \in 1 .. 14 : is_udp_supported_handler[i] \in HandlerNames
  BY DEF is_udp_supported_handler, HandlerNames

LEMMA LeastIn ==
    ASSUME NEW T, T \subseteq Nat, T # {}
    PROVE  \E n \in T : \A m \in T : n <= m
<1>1. PICK R : R = OpToRel(<, Nat)
  OBVIOUS
<1>2. PICK x \in T : \A y \in T : ~ (<<y, x>> \in R)
  BY <1>1, WFMin, NatLessThanWellFounded
<1>3. R = {ss \in Nat \X Nat : ss[1] < ss[2]}
  BY <1>1, Zenon DEF OpToRel
<1>4. \A y \in T : ~(y < x) /\ y \in Nat /\ x \in Nat
  <2>1. \A v, w \in Nat : <<w, v>> \in R <=> w < v
    BY <1>3
  <2> QED
    BY <1>2, <2>1
<1> QED
  BY <1>4

LEMMA Scores == ASSUME NEW name, NEW d, NEW p PROVE udp_taste(name, d, p) \in 0 .. 90
  BY DEF udp_taste

\* Of the scores there is a best one, the first of equal ones, so that the
\* router's choice is a handler.
LEMMA BestIsAHandler == ASSUME NEW d, NEW p PROVE Best(d, p).name \in HandlerNames
<1> DEFINE At(i) == [at |-> i, name |-> is_udp_supported_handler[i],
                     score |-> udp_taste(is_udp_supported_handler[i], d, p)]
           scored == {At(i) : i \in DOMAIN is_udp_supported_handler}
           Before14(i) == 15 * (90 - At(i).score) + i
           T == {Before14(i) : i \in 1 .. 14}
<1>1. \A i \in 1 .. 14 : At(i).score \in 0 .. 90 /\ At(i).at = i /\ At(i).name \in HandlerNames
  BY Scores, SupportedHandlers
<1>2. T \subseteq Nat /\ T # {}
  <2>1. ASSUME NEW i \in 1 .. 14 PROVE Before14(i) \in Nat
    <3>1. PICK n \in 0 .. 90 : n = At(i).score
      BY <1>1
    <3>2. 15 * (90 - n) + i \in Nat
      BY ONLY n \in 0 .. 90, i \in 1 .. 14
    <3> QED
      BY ONLY <3>1, <3>2
  <2>2. Before14(1) \in T
    OBVIOUS
  <2> QED
    BY <2>1, <2>2
<1>3. PICK i \in 1 .. 14 : \A j \in 1 .. 14 : Before14(i) <= Before14(j)
  <2>1. PICK n \in T : \A m \in T : n <= m
    BY <1>2, LeastIn
  <2> QED
    BY <2>1
<1>4. At(i) \in scored
  BY SupportedHandlers
<1>5. \A c \in scored \ {At(i)} : c.score < At(i).score \/ (c.score = At(i).score /\ At(i).at < c.at)
  <2> SUFFICES ASSUME NEW c \in scored, c # At(i)
               PROVE  c.score < At(i).score \/ (c.score = At(i).score /\ At(i).at < c.at)
    OBVIOUS
  <2>1. PICK j \in 1 .. 14 : c = At(j)
    BY SupportedHandlers
  <2>2. j # i
    BY <2>1
  <2>3. Before14(i) <= Before14(j)
    BY <1>3
  <2>4. PICK m \in 0 .. 90 : m = At(i).score /\ At(i).at = i
    BY <1>1
  <2>5. PICK n \in 0 .. 90 : n = At(j).score /\ At(j).at = j
    BY <1>1
  <2>6. 15 * (90 - m) + i <= 15 * (90 - n) + j
    BY ONLY <2>3, <2>4, <2>5
  <2>7. m \in Int /\ n \in Int /\ i \in Int /\ j \in Int /\ i >= 1 /\ j <= 14
    BY ONLY m \in 0 .. 90, n \in 0 .. 90, i \in 1 .. 14, j \in 1 .. 14
  <2>8. 15 * (n - m) <= j - i
    BY ONLY <2>6, <2>7
  <2>9. n < m \/ (n = m /\ i < j)
    <3>1. PICK q \in Int : q = n - m
      BY ONLY <2>7
    <3>2. 15 * q <= 13
      BY ONLY <2>7, <2>8, <3>1
    <3>3. q < 1
      BY ONLY <3>2, q \in Int
    <3>4. n <= m
      BY ONLY <2>7, <3>1, <3>3
    <3>5. n = m => i <= j
      BY ONLY <2>7, <2>8
    <3>6. i <= j => i < j
      BY ONLY <2>2, <2>7
    <3>7. n <= m => n < m \/ n = m
      BY ONLY <2>7
    <3> QED
      BY ONLY <3>4, <3>5, <3>6, <3>7
  <2> QED
    BY ONLY <2>1, <2>4, <2>5, <2>9
<1>6. \E b \in scored : \A c \in scored \ {b} : c.score < b.score \/ (c.score = b.score /\ b.at < c.at)
  BY <1>4, <1>5
<1>7. Best(d, p) = CHOOSE b \in scored :
                       \A c \in scored \ {b} : c.score < b.score \/ (c.score = b.score /\ b.at < c.at)
  BY DEF Best
<1>8. Best(d, p) \in scored
  <2> HIDE DEF scored
  <2> QED
    BY <1>6, <1>7
<1> QED
  BY <1>1, <1>8, SupportedHandlers

LEMMA RoutedName == ASSUME NEW l, NEW x PROVE ProtocolOf(l, x) \in HandlerNames \cup {""}
<1>1. CASE explicit_udp_protocol_name(l.name)
  <2>1. canonical_udp_protocol_alias(l.name) \in HandlerNames
    BY <1>1, SupportedHandlers DEF explicit_udp_protocol_name
  <2> QED
    BY <1>1, <2>1 DEF ProtocolOf
<1>2. CASE ~explicit_udp_protocol_name(l.name)
  <2>1. PICK b : b = Best(x, l.port) /\ b.name \in HandlerNames
    BY BestIsAHandler
  <2>2. udp_default_or(b).name \in HandlerNames \cup {""}
    BY <2>1, SupportedHandlers DEF udp_default_or
  <2>3. route_udp(x, l.port) = udp_default_or(b)
    BY <2>1 DEF route_udp
  <2>4. handle_detected_udp(x, l.port) \in {route_udp(x, l.port).name, ""}
    <3>1. PICK r : r = route_udp(x, l.port)
      OBVIOUS
    <3>2. handle_detected_udp(x, l.port) = IF sure(r) THEN r.name ELSE ""
      BY <3>1 DEF handle_detected_udp
    <3> QED
      BY <3>1, <3>2
  <2>5. ProtocolOf(l, x) = handle_detected_udp(x, l.port)
    BY <1>2 DEF ProtocolOf
  <2> QED
    BY <2>2, <2>3, <2>4, <2>5
<1> QED
  BY <1>1, <1>2

\* The DNS handler: what it counts is what it answers.
LEMMA QueryAnswers ==
    ASSUME NEW s, NEW q, NEW r, r = handle_query(s, q)
    PROVE  \/ r.rcode = "err" /\ r.s = s
           \/ /\ r.rcode = "NoError" /\ r.s = s
              /\ q.domain = NCSI \/ ~(q.qtype = "A" /\ s.nxdomains_count < DnsConfig.nxdomains)
           \/ /\ r.rcode = "NXDomain" /\ q.qtype = "A" /\ q.domain # NCSI
              /\ s.nxdomains_count < DnsConfig.nxdomains
              /\ r.s = [s EXCEPT !.nxdomains_count = @ + 1]
  BY DEF handle_query, nxdomain_due, DnsReply

LEMMA ServiceAnswers ==
    ASSUME NEW x
    PROVE  /\ SnmpHandle(x) \notin {"NXDomain", "NoError"} /\ SipHandle(x) \notin {"NXDomain", "NoError"}
           /\ handle_ssdp(x) \notin {"NXDomain", "NoError"} /\ NtpHandle(x) \notin {"NXDomain", "NoError"}
           /\ CoapHandle(x) \notin {"NXDomain", "NoError"}
           /\ from_custom_response(CustomResponse) \notin {"NXDomain", "NoError"}
<1>1. SnmpHandle(x) \notin {"NXDomain", "NoError"} /\ NtpHandle(x) \notin {"NXDomain", "NoError"}
  BY DEF SnmpHandle, NtpHandle
<1>2. SipHandle(x) \notin {"NXDomain", "NoError"}
  BY DEF SipHandle, sip_status
<1>3. handle_ssdp(x) \notin {"NXDomain", "NoError"}
  <2>1. CASE is_ssdp_m_search(x.f)
    <3>1. PICK v : v = Named(x.f.headers, "ST")
      OBVIOUS
    <3>2. is_supported_search_target(v[1])
      BY <2>1, <3>1 DEF is_ssdp_m_search, Unique
    <3>3. ssdp_response_identity(v[1].v) \notin {"NXDomain", "NoError"}
      BY <3>2 DEF is_supported_search_target, ssdp_response_identity
    <3> QED
      BY <3>1, <3>3 DEF handle_ssdp
  <2>2. CASE ~is_ssdp_m_search(x.f)
    BY <2>2 DEF handle_ssdp
  <2> QED
    BY <2>1, <2>2
<1>4. CoapHandle(x) \notin {"NXDomain", "NoError"}
  BY DEF CoapHandle
<1>5. from_custom_response(CustomResponse) \notin {"NXDomain", "NoError"}
  BY DEF from_custom_response
<1> QED
  BY <1>1, <1>2, <1>3, <1>4, <1>5

\* What becomes of the answer a handler gives.
ToldOf(h) == IF h.count THEN h.answer ELSE "silent"

LEMMA CountedResult ==
    ASSUME NEW s, NEW a, NEW e, NEW h, h = Result(s, a, e, TRUE) PROVE h.dns = s /\ ToldOf(h) = a
  BY DEF Result, ToldOf

LEMMA SilentResult ==
    ASSUME NEW s, NEW a, NEW e, NEW h, h = Result(s, a, e, FALSE) PROVE h.dns = s /\ ToldOf(h) = "silent"
  BY DEF Result, ToldOf

\* The state after the answer to a query f in the state s.
Answering(h, s, f) ==
    \/ h.dns = s /\ ToldOf(h) \notin {"NXDomain", "NoError"}
    \/ /\ ToldOf(h) = "NoError" /\ h.dns = s
       /\ f.domain = NCSI \/ ~(f.qtype = "A" /\ s.nxdomains_count < DnsConfig.nxdomains)
    \/ /\ ToldOf(h) = "NXDomain" /\ f.qtype = "A" /\ f.domain # NCSI
       /\ s.nxdomains_count < DnsConfig.nxdomains
       /\ h.dns = [s EXCEPT !.nxdomains_count = @ + 1]

LEMMA HandlerAnswers ==
    ASSUME NEW name, name \in HandlerNames \cup {""}, NEW s, NEW x, NEW ip, NEW h,
           h = handle_explicit_udp_protocol(name, s, x, ip)
    PROVE  Answering(h, s, x.f)
<1>1. CASE name = "dns"
  <2>1. PICK r : r = handle_query(s, x.f)
    OBVIOUS
  <2>2. CASE r.rcode = "err" \/ ~Is(x, "dns")
    <3>1. h = Result(s, "", FALSE, TRUE)
      BY <1>1, <2>1, <2>2 DEF handle_explicit_udp_protocol, handle_dns
    <3>2. h.dns = s /\ ToldOf(h) = ""
      BY ONLY <3>1, CountedResult
    <3> QED
      BY <3>2 DEF Answering
  <2>3. CASE r.rcode # "err" /\ Is(x, "dns")
    <3>1. PICK w, z, e : w = r.s /\ z = r.rcode /\ e = parse_query_summary(x.f)
      OBVIOUS
    <3>2. h = Result(w, z, e, TRUE)
      BY <1>1, <2>1, <2>3, <3>1 DEF handle_explicit_udp_protocol, handle_dns
    <3>3. h.dns = w /\ ToldOf(h) = z
      BY ONLY <3>2, CountedResult
    <3>4. \/ z = "err" /\ w = s
          \/ /\ z = "NoError" /\ w = s
             /\ x.f.domain = NCSI \/ ~(x.f.qtype = "A" /\ s.nxdomains_count < DnsConfig.nxdomains)
          \/ /\ z = "NXDomain" /\ x.f.qtype = "A" /\ x.f.domain # NCSI
             /\ s.nxdomains_count < DnsConfig.nxdomains
             /\ w = [s EXCEPT !.nxdomains_count = @ + 1]
      <4>1. PICK q : q = x.f
        OBVIOUS
      <4>2. r = handle_query(s, q)
        BY <2>1, <4>1
      <4> QED
        BY ONLY <3>1, <4>1, <4>2, QueryAnswers
    <3> QED
      BY ONLY <2>3, <3>1, <3>3, <3>4 DEF Answering
  <2> QED
    BY <2>2, <2>3
<1>2. CASE name # "dns"
  <2>1. \/ \E a \in {SnmpHandle(x), SipHandle(x), handle_ssdp(x), NtpHandle(x), CoapHandle(x), "",
                     from_custom_response(CustomResponse), "daytime", "time", "chargen", "quotd", "tftp"} :
             h = Result(s, a, TRUE, TRUE)
        \/ h = Result(s, "", FALSE, FALSE)
    BY <1>2 DEF handle_explicit_udp_protocol, handle_udp_generic, handle_upnp_udp, handle_raw_udp,
                handle_unclassified_udp, HandlerNames
  <2>2. CASE h = Result(s, "", FALSE, FALSE)
    <3>1. h.dns = s /\ ToldOf(h) = "silent"
      BY ONLY <2>2, SilentResult
    <3> QED
      BY <3>1 DEF Answering
  <2>3. CASE \E a \in {SnmpHandle(x), SipHandle(x), handle_ssdp(x), NtpHandle(x), CoapHandle(x), "",
                       from_custom_response(CustomResponse), "daytime", "time", "chargen", "quotd", "tftp"} :
               h = Result(s, a, TRUE, TRUE)
    <3>1. PICK a : a \notin {"NXDomain", "NoError"} /\ h = Result(s, a, TRUE, TRUE)
      BY <2>3, ServiceAnswers
    <3>2. h.dns = s /\ ToldOf(h) = a
      BY ONLY <3>1, CountedResult
    <3> QED
      BY <3>1, <3>2 DEF Answering
  <2> QED
    BY <2>1, <2>2, <2>3
<1> QED
  BY <1>1, <1>2

-----------------------------------------------------------------------------
(* What the policy decides.                                                *)
LEMMA FirstHit ==
    ASSUME UdpTypes, NEW context, NEW c,
           c = resolve_for_context(lis.default, lis.rules, context, lis.emulate)
    PROVE  /\ c \in Decisions
           /\ \A i \in DOMAIN lis.rules :
                 /\ RuleMatches(lis.rules[i], context) /\ lis.rules[i].decision \in {"block", "sinkhole"}
                 /\ \A j \in 1 .. i - 1 : lis.rules[j].decision \in {"block", "sinkhole"}
                 => c \in {"block", "sinkhole"}
<1> DEFINE hits == {i \in DOMAIN lis.rules : RuleMatches(lis.rules[i], context)}
<1>1. /\ lis.default \in Decisions /\ Len(lis.rules) \in Nat /\ DOMAIN lis.rules = 1 .. Len(lis.rules)
      /\ \A i \in DOMAIN lis.rules : lis.rules[i].decision \in Decisions
  BY UdpAssumption DEF UdpTypes
<1>2. CASE hits = {}
  <2>1. c = default_resolve(lis.default, lis.emulate)
    BY <1>2 DEF resolve_for_context
  <2>2. c \in Decisions
    BY <1>1, <2>1 DEF default_resolve, Decisions
  <2> QED
    BY <1>2, <2>2
<1>3. CASE hits # {}
  <2>0. hits \subseteq Nat
    BY <1>1
  <2>1. \E i \in hits : \A j \in hits : i <= j
    BY ONLY <1>3, <2>0, LeastIn
  <2>2. PICK m : m = CHOOSE i \in hits : \A j \in hits : i <= j
    OBVIOUS
  <2>3. c = lis.rules[m].decision
    BY <1>3, <2>2 DEF resolve_for_context
  <2>4. m \in hits /\ \A j \in hits : m <= j
    <3> HIDE DEF hits
    <3> QED
      BY <2>1, <2>2
  <2>5. c \in Decisions
    BY <1>1, <2>3, <2>4
  <2>6. ASSUME NEW i \in hits, lis.rules[i].decision \in {"block", "sinkhole"},
               \A j \in 1 .. i - 1 : lis.rules[j].decision \in {"block", "sinkhole"}
        PROVE  c \in {"block", "sinkhole"}
    <3>1. m = i \/ m \in 1 .. i - 1
      BY <1>1, <2>4, <2>6
    <3> QED
      BY <2>3, <2>6, <3>1
  <2> QED
    BY <2>5, <2>6
<1> QED
  BY <1>2, <1>3

-----------------------------------------------------------------------------
(* A step of the task of d, conjunct by conjunct of the invariant.         *)
Alone(d) ==
    /\ lis' = lis /\ in' = in
    /\ \A e \in Datagrams : e # d => /\ pc'[e] = pc[e] /\ decision'[e] = decision[e]
                                     /\ answer'[e] = answer[e] /\ (e \in sent' <=> e \in sent)

LEMMA OthersStay ==
    ASSUME UdpTypes, NEW d, Alone(d), NEW e \in DOMAIN in, e # d
    PROVE  /\ Served(e)' <=> Served(e)
           /\ Counts(e)' <=> Counts(e)
           /\ Key(e)' = Key(e) /\ e \in Datagrams /\ decision'[e] = decision[e]
  BY TrafficFacts DEF Alone, Served, Counts, Key

LEMMA CountingKept ==
    ASSUME UdpTypes, Counting, NEW d \in DOMAIN in, Alone(d), ~Served(d), ~Served(d)', counted' = counted
    PROVE  Counting'
<1>1. DOMAIN in' = DOMAIN in
  BY DEF Alone
<1>2. ASSUME NEW k \in AllKeys PROVE CountedOf(k)' = CountedOf(k) /\ SentOf(k)' = SentOf(k)
  <2>1. \A e \in DOMAIN in : e # d =>
           (Served(e)' <=> Served(e)) /\ (Counts(e)' <=> Counts(e)) /\ Key(e)' = Key(e) /\ (e \in sent' <=> e \in sent)
    BY OthersStay DEF Alone
  <2> QED
    BY <1>1, <2>1 DEF CountedOf, SentOf
<1> QED
  BY <1>2 DEF Counting

LEMMA CountingGrows ==
    ASSUME UdpTypes, Counting, NEW d \in DOMAIN in, Alone(d), ~Served(d), Served(d)',
           NEW i \in {0, 1}, NEW o \in {0, 1}, Counts(d)' <=> i = 1, d \in sent' <=> o = 1,
           counted'[Key(d)].in = counted[Key(d)].in + i, counted'[Key(d)].out = counted[Key(d)].out + o,
           \A k \in AllKeys : k # Key(d) => counted'[k] = counted[k]
    PROVE  Counting'
<1>0. PICK kd \in AllKeys : kd = Key(d)
  BY TrafficFacts
<1>1. DOMAIN in' = DOMAIN in /\ Key(d)' = Key(d)
  BY DEF Alone, Key
<1>2. \A e \in DOMAIN in : e # d =>
         (Served(e)' <=> Served(e)) /\ (Counts(e)' <=> Counts(e)) /\ Key(e)' = Key(e) /\ (e \in sent' <=> e \in sent)
  BY OthersStay DEF Alone
<1>3. ASSUME NEW k \in AllKeys, k # kd PROVE CountedOf(k)' = CountedOf(k) /\ SentOf(k)' = SentOf(k)
  BY <1>0, <1>1, <1>2, <1>3 DEF CountedOf, SentOf
<1>4. CountedOf(kd)' = IF i = 1 THEN CountedOf(kd) \cup {d} ELSE CountedOf(kd)
  BY <1>0, <1>1, <1>2 DEF CountedOf
<1>5. SentOf(kd)' = IF o = 1 THEN SentOf(kd) \cup {d} ELSE SentOf(kd)
  BY <1>0, <1>1, <1>2 DEF SentOf
<1>6. d \notin CountedOf(kd) /\ d \notin SentOf(kd)
  BY DEF CountedOf, SentOf
<1>7. Cardinality(CountedOf(kd)') = Cardinality(CountedOf(kd)) + i
  <2>1. IsFiniteSet(CountedOf(kd)) /\ Cardinality(CountedOf(kd)) \in Nat
    BY SetFacts
  <2> QED
    BY <1>4, <1>6, <2>1, OneMore
<1>8. Cardinality(SentOf(kd)') = Cardinality(SentOf(kd)) + o
  <2>1. IsFiniteSet(SentOf(kd)) /\ Cardinality(SentOf(kd)) \in Nat
    BY SetFacts
  <2> QED
    BY <1>5, <1>6, <2>1, OneMore
<1>10. ASSUME NEW k \in AllKeys
       PROVE  counted'[k].in = Cardinality(CountedOf(k)') /\ counted'[k].out = Cardinality(SentOf(k)')
  <2>1. CASE k = kd
    <3>1. counted[kd].in = Cardinality(CountedOf(kd)) /\ counted[kd].out = Cardinality(SentOf(kd))
      BY <1>0 DEF Counting
    <3>2. counted'[kd].in = counted[kd].in + i /\ counted'[kd].out = counted[kd].out + o
      BY <1>0
    <3> QED
      BY <1>7, <1>8, <2>1, <3>1, <3>2
  <2>2. CASE k # kd
    BY <1>0, <1>3, <2>2 DEF Counting
  <2> QED
    BY <2>1, <2>2
<1> QED
  BY <1>10 DEF Counting

LEMMA FiringKept ==
    ASSUME UdpTypes, Firing, NEW d \in DOMAIN in, Alone(d), ~Served(d), ~Served(d)',
           UNCHANGED <<fired, opened, isnew>>
    PROVE  Firing'
<1>1. ASSUME NEW k \in AllKeys PROVE NewOf(k)' = NewOf(k) /\ FiredOf(k)' = FiredOf(k)
  <2>1. \A e \in isnew : Key(e)' = Key(e)
    BY DEF Alone, Key
  <2>2. \A e \in isnew : e # d => (Served(e)' <=> Served(e)) /\ decision'[e] = decision[e]
    <3>1. isnew \subseteq DOMAIN in
      BY DEF UdpTypes
    <3> QED
      BY <3>1, OthersStay
  <2> QED
    BY <2>1, <2>2 DEF NewOf, FiredOf
<1>2. Len(in') = Len(in)
  BY DEF Alone
<1> QED
  BY <1>1, <1>2 DEF Firing

LEMMA FiringRegistered ==
    ASSUME UdpTypes, Firing, NEW d \in DOMAIN in, Alone(d), ~Served(d), ~Served(d)', d \notin isnew,
           isnew' = isnew \cup {d}, opened' = [opened EXCEPT ![Key(d)] = @ + 1], fired' = fired
    PROVE  Firing'
<1>0. PICK kd \in AllKeys : kd = Key(d)
  BY TrafficFacts
<1>1. Len(in') = Len(in) /\ opened \in [AllKeys -> Nat]
  BY TrafficFacts DEF Alone, UdpTypes
<1>2. \A e \in isnew \cup {d} : Key(e)' = Key(e)
  BY DEF Alone, Key
<1>3. ASSUME NEW k \in AllKeys PROVE FiredOf(k)' = FiredOf(k)
  <2>1. \A e \in isnew : e # d => (Served(e)' <=> Served(e)) /\ decision'[e] = decision[e]
    <3>1. isnew \subseteq DOMAIN in
      BY DEF UdpTypes
    <3> QED
      BY <3>1, OthersStay
  <2> QED
    BY <1>2, <2>1 DEF FiredOf
<1>4. ASSUME NEW k \in AllKeys, k # kd PROVE NewOf(k)' = NewOf(k)
  BY <1>0, <1>2, <1>4 DEF NewOf
<1>5. NewOf(kd)' = NewOf(kd) \cup {d} /\ d \notin NewOf(kd)
  BY <1>0, <1>2 DEF NewOf
<1>6. Cardinality(NewOf(kd)') = Cardinality(NewOf(kd)) + 1
  <2>1. IsFiniteSet(NewOf(kd))
    BY SetFacts
  <2> QED
    BY <1>5, <2>1, OneMore
<1>7. ASSUME NEW k \in AllKeys PROVE opened'[k] = Cardinality(NewOf(k)')
  <2>1. CASE k = kd
    <3>1. opened'[k] = opened[k] + 1
      BY <1>0, <1>1, <2>1
    <3>2. opened[k] = Cardinality(NewOf(k))
      BY DEF Firing
    <3> QED
      BY <1>6, <2>1, <3>1, <3>2
  <2>2. CASE k # kd
    BY <1>0, <1>1, <1>4, <2>2 DEF Firing
  <2> QED
    BY <2>1, <2>2
<1> QED
  BY <1>1, <1>3, <1>7 DEF Firing

\* The command is run for the datagram that registered the session, if
\* there is a slot: and there is one when there are as many as datagrams.
LEMMA FiringGrows ==
    ASSUME UdpTypes, Firing, commands <= Cardinality(Ended), NEW d \in DOMAIN in, Alone(d),
           pc[d] # "done", ~Served(d), Served(d)', NEW run, run <=> decision'[d] # "block", FireIfNew(d, run),
           UNCHANGED <<isnew, opened>>
    PROVE  Firing'
<1>0. PICK kd \in AllKeys : kd = Key(d)
  BY TrafficFacts
<1>1. Len(in') = Len(in) /\ fired \in [AllKeys -> Nat]
      /\ commands \in Nat /\ MAX_ACTIVE_COMMANDS \in Nat /\ Len(in) \in Nat
  <2>1. Len(in) \in Nat /\ MAX_ACTIVE_COMMANDS \in Nat
    BY TrafficFacts, UdpAssumption
  <2>2. in' = in /\ fired \in [AllKeys -> Nat] /\ commands \in 0 .. MAX_ACTIVE_COMMANDS
    BY DEF Alone, UdpTypes
  <2> QED
    BY <2>1, <2>2
<1>2. \A e \in isnew : Key(e)' = Key(e)
  BY DEF Alone, Key
<1>3. \A e \in isnew : e # d => (Served(e)' <=> Served(e)) /\ decision'[e] = decision[e]
  <2>1. isnew \subseteq DOMAIN in
    BY DEF UdpTypes
  <2> QED
    BY <2>1, OthersStay
<1>4. ASSUME NEW k \in AllKeys PROVE NewOf(k)' = NewOf(k)
  BY <1>2 DEF NewOf
<1>5. ASSUME NEW k \in AllKeys, k # kd PROVE FiredOf(k)' = FiredOf(k)
  BY <1>0, <1>2, <1>3, <1>5 DEF FiredOf
<1>6. FiredOf(kd)' = IF run /\ d \in isnew THEN FiredOf(kd) \cup {d} ELSE FiredOf(kd)
  <2>1. \A e \in isnew : e # d => (e \in FiredOf(kd)' <=> e \in FiredOf(kd))
    BY <1>2, <1>3 DEF FiredOf
  <2>2. d \in isnew => (d \in FiredOf(kd)' <=> run) /\ d \notin FiredOf(kd)
    BY <1>0, <1>2 DEF FiredOf
  <2>3. FiredOf(kd) \subseteq isnew /\ FiredOf(kd)' \subseteq isnew
    BY DEF FiredOf
  <2>4. CASE run /\ d \in isnew
    BY <2>1, <2>2, <2>3, <2>4
  <2>5. CASE ~(run /\ d \in isnew)
    BY <2>1, <2>2, <2>3, <2>5
  <2> QED
    BY <2>4, <2>5
<1>7. d \notin FiredOf(kd) /\ IsFiniteSet(FiredOf(kd)) /\ Cardinality(FiredOf(kd)) \in Nat
  BY SetFacts DEF FiredOf
<1>8. Cardinality(FiredOf(kd)') =
         IF run /\ d \in isnew THEN Cardinality(FiredOf(kd)) + 1 ELSE Cardinality(FiredOf(kd))
  BY <1>6, <1>7, OneMore
<1>9. commands < Len(in)
  <2>1. Ended \subseteq DOMAIN in \ {d} /\ DOMAIN in \ {d} \subseteq DOMAIN in
    BY DEF Ended
  <2>2. IsFiniteSet(DOMAIN in) /\ Cardinality(DOMAIN in) = Len(in)
    BY TrafficFacts
  <2>3. IsFiniteSet(DOMAIN in \ {d}) /\ Cardinality(DOMAIN in \ {d}) = Len(in) - 1
    BY <2>2, FS_RemoveElement
  <2>4. Cardinality(Ended) <= Len(in) - 1 /\ Cardinality(Ended) \in Nat
    BY <2>1, <2>3, FS_Subset, SetFacts
  <2> QED
    BY <1>1, <2>4
<1>10. \A k \in AllKeys : k # kd => fired'[k] = fired[k]
  BY <1>0, <1>1 DEF FireIfNew
<1>11. /\ run /\ d \in isnew /\ commands < MAX_ACTIVE_COMMANDS => fired'[kd] = fired[kd] + 1
       /\ ~(run /\ d \in isnew /\ commands < MAX_ACTIVE_COMMANDS) => fired'[kd] = fired[kd]
  BY <1>0, <1>1 DEF FireIfNew
<1>12. /\ fired'[kd] <= Cardinality(FiredOf(kd)')
       /\ MAX_ACTIVE_COMMANDS >= Len(in) => fired'[kd] = Cardinality(FiredOf(kd)')
  <2>1. /\ fired[kd] \in Nat /\ fired[kd] <= Cardinality(FiredOf(kd))
        /\ MAX_ACTIVE_COMMANDS >= Len(in) => fired[kd] = Cardinality(FiredOf(kd))
    BY <1>1 DEF Firing
  <2>2. MAX_ACTIVE_COMMANDS >= Len(in) => commands < MAX_ACTIVE_COMMANDS
    BY <1>1, <1>9
  <2> QED
    BY <1>7, <1>8, <1>11, <2>1, <2>2
<1>13. ASSUME NEW k \in AllKeys
       PROVE  /\ opened'[k] = Cardinality(NewOf(k)') /\ fired'[k] <= Cardinality(FiredOf(k)')
              /\ MAX_ACTIVE_COMMANDS >= Len(in) => fired'[k] = Cardinality(FiredOf(k)')
  <2>1. opened'[k] = Cardinality(NewOf(k)')
    BY <1>4 DEF Firing
  <2>2. CASE k = kd
    BY <1>12, <2>1, <2>2
  <2>3. CASE k # kd
    BY <1>5, <1>10, <2>1, <2>3 DEF Firing
  <2> QED
    BY <2>2, <2>3
<1> QED
  BY <1>1, <1>13 DEF Firing

LEMMA EndedGrows ==
    ASSUME UdpTypes, commands <= Cardinality(Ended), NEW d \in DOMAIN in, Alone(d), pc[d] # "done",
           commands' = commands \/ (commands' = commands + 1 /\ pc'[d] = "done")
    PROVE  commands' <= Cardinality(Ended')
<1>1. DOMAIN in' = DOMAIN in /\ commands \in Nat
  <2>1. commands \in 0 .. MAX_ACTIVE_COMMANDS /\ MAX_ACTIVE_COMMANDS \in Nat
    BY UdpAssumption DEF UdpTypes
  <2> QED
    BY <2>1 DEF Alone
<1>2. \A e \in DOMAIN in : e # d => pc'[e] = pc[e]
  BY TrafficFacts DEF Alone
<1>3. IsFiniteSet(Ended) /\ Cardinality(Ended) \in Nat /\ d \notin Ended
  BY SetFacts DEF Ended
<1>4. CASE pc'[d] = "done"
  <2>1. Ended' = Ended \cup {d}
    BY <1>1, <1>2, <1>4 DEF Ended
  <2>2. Cardinality(Ended') = Cardinality(Ended) + 1
    BY <1>3, <2>1, OneMore
  <2> QED
    BY <1>1, <1>3, <2>2
<1>5. CASE pc'[d] # "done"
  <2>1. Ended' = Ended
    BY <1>1, <1>2, <1>3, <1>5 DEF Ended
  <2> QED
    BY <1>5, <2>1
<1> QED
  BY <1>4, <1>5

LEMMA RunningKept ==
    ASSUME UdpTypes, \A e \in Datagrams : Progress(e), Cardinality(Running) <= MaxTasks,
           NEW d \in DOMAIN in, Alone(d), pc[d] \notin {"new", "done"} \/ pc'[d] = "done"
    PROVE  Cardinality(Running') <= MaxTasks
<1>1. Running' \subseteq Running
  BY TrafficFacts DEF Alone, Running
<1>2. IsFiniteSet(Running) /\ Cardinality(Running) \in Nat
  BY RunningFacts
<1>3. Cardinality(Running') <= Cardinality(Running) /\ Cardinality(Running') \in Nat
  BY <1>1, <1>2, FS_Subset, FS_CardinalityType
<1> QED
  BY <1>2, <1>3, UdpAssumption

LEMMA RunningGrows ==
    ASSUME UdpTypes, \A e \in Datagrams : Progress(e), Cardinality(Running) < MaxTasks,
           NEW d \in DOMAIN in, Alone(d), pc[d] = "new", pc'[d] = "filter"
    PROVE  Cardinality(Running') <= MaxTasks
<1>1. Running' = Running \cup {d} /\ d \notin Running
  BY TrafficFacts DEF Alone, Running
<1>2. IsFiniteSet(Running) /\ Cardinality(Running) \in Nat
  BY RunningFacts
<1>3. Cardinality(Running') = Cardinality(Running) + 1
  BY ONLY ZenonT(60), <1>1, <1>2, OneMore
<1> QED
  BY <1>2, <1>3, UdpAssumption

LEMMA QueriesKept == ASSUME Queries, UNCHANGED <<in, dns, answer>> PROVE Queries'
  BY DEF Queries, Gone, Answered4

LEMMA QueriesStep ==
    ASSUME UdpTypes, Queries, NEW d \in DOMAIN in, Alone(d), answer[d] = "", NEW name, NEW h, NEW x,
           name \in HandlerNames \cup {""}, x = Data[in[d].data],
           h = handle_explicit_udp_protocol(name, dns, x, in[d].ip),
           dns' = h.dns, answer' = [answer EXCEPT ![d] = ToldOf(h)]
    PROVE  Queries'
<1> DEFINE N == DnsConfig.nxdomains
           n == Cardinality(Gone)
<1>1. /\ dns = [nxdomains_count |-> n, custom |-> <<>>] /\ dns.nxdomains_count = n /\ n <= N
      /\ n \in Nat /\ N \in Nat /\ IsFiniteSet(Gone) /\ in' = in /\ d \notin Gone
      /\ answer'[d] = ToldOf(h)
  <2>1. dns = [nxdomains_count |-> n, custom |-> <<>>] /\ n <= N
    BY DEF Queries
  <2>2. n \in Nat /\ N \in Nat /\ IsFiniteSet(Gone)
    BY SetFacts, UdpAssumption
  <2>3. in' = in /\ d \notin Gone
    BY DEF Gone, Alone
  <2>4. answer'[d] = ToldOf(h)
    BY TrafficFacts DEF UdpTypes
  <2> QED
    BY <2>1, <2>2, <2>3, <2>4
<1>2. \/ h.dns = dns /\ ToldOf(h) \notin {"NXDomain", "NoError"}
      \/ /\ ToldOf(h) = "NoError" /\ h.dns = dns
         /\ x.f.domain = NCSI \/ ~(x.f.qtype = "A" /\ dns.nxdomains_count < N)
      \/ /\ ToldOf(h) = "NXDomain" /\ x.f.qtype = "A" /\ x.f.domain # NCSI
         /\ dns.nxdomains_count < N /\ h.dns = [dns EXCEPT !.nxdomains_count = @ + 1]
  <2>1. PICK s, ip : s = dns /\ ip = in[d].ip
    OBVIOUS
  <2>2. h = handle_explicit_udp_protocol(name, s, x, ip)
    BY <2>1
  <2>3. Answering(h, s, x.f)
    BY ONLY ZenonT(60), <2>2, name \in HandlerNames \cup {""}, HandlerAnswers
  <2> QED
    BY ONLY <2>1, <2>3 DEF Answering
<1>3. \A e \in DOMAIN in : e # d => (Answered4(e)' <=> Answered4(e)) /\ (e \in Gone' <=> e \in Gone)
  <2>1. \A e \in DOMAIN in : e # d => answer'[e] = answer[e]
    BY TrafficFacts DEF Alone
  <2> QED
    BY <1>1, <2>1 DEF Gone, Answered4
<1>4. Answered4(d)' <=> ToldOf(h) \in {"NXDomain", "NoError"} /\ x.f.qtype = "A" /\ x.f.domain # NCSI
  BY <1>1 DEF Answered4
<1>5. d \in Gone' <=> ToldOf(h) = "NXDomain" /\ x.f.qtype = "A" /\ x.f.domain # NCSI
  BY <1>1, <1>4 DEF Gone
<1>6. \A e \in DOMAIN in : Answered4(e) /\ e \notin Gone => n = N
  BY DEF Queries
<1>7. Gone \subseteq DOMAIN in /\ Gone' \subseteq DOMAIN in
  BY <1>1 DEF Gone
<1> HIDE DEF n, N
<1>8. CASE ToldOf(h) # "NXDomain"
  <2>0. \A e \in DOMAIN in : e \in Gone' <=> e \in Gone
    BY <1>1, <1>3, <1>5, <1>8
  <2>1. Gone' = Gone
    BY ONLY <1>7, <2>0
  <2>2. dns' = dns
    BY <1>2, <1>8
  <2>3. Answered4(d)' => ~(n < N)
    BY <1>1, <1>2, <1>4, <1>8
  <2>4. ~(n < N) => n = N
    BY ONLY <1>1
  <2>5. \A e \in DOMAIN in : Answered4(e)' /\ e \notin Gone' => n = N
    BY ONLY <1>3, <1>6, <2>1, <2>3, <2>4
  <2> QED
    BY <1>1, <2>1, <2>2, <2>5 DEF Queries, n, N
<1>9. CASE ToldOf(h) = "NXDomain"
  <2>1. /\ x.f.qtype = "A" /\ x.f.domain # NCSI /\ dns.nxdomains_count < N
        /\ h.dns = [dns EXCEPT !.nxdomains_count = @ + 1]
    BY <1>2, <1>9
  <2>2. Gone' = Gone \cup {d}
    <3>1. \A e \in DOMAIN in : e \in Gone' <=> e \in Gone \cup {d}
      BY <1>3, <1>5, <1>9, <2>1
    <3> QED
      BY ONLY <1>7, <3>1, d \in DOMAIN in
  <2>3. Cardinality(Gone') = n + 1
    BY <1>1, <2>2, OneMore DEF n
  <2>4. dns' = [nxdomains_count |-> n + 1, custom |-> <<>>]
    BY <1>1, <2>1
  <2>5. n < N
    BY ONLY <1>1, <2>1
  <2>6. n + 1 <= N /\ n # N
    BY ONLY <1>1, <2>5
  <2>7. \A e \in DOMAIN in : ~(Answered4(e)' /\ e \notin Gone')
    BY ONLY <1>3, <1>6, <2>2, <2>6
  <2> QED
    BY <1>1, <2>3, <2>4, <2>6, <2>7 DEF Queries, N
<1> QED
  BY <1>8, <1>9

LEMMA ContainedKept == ASSUME Contained, UNCHANGED <<in, lis, decision>> PROVE Contained'
<1>1. in' = in /\ lis' = lis /\ decision' = decision
  OBVIOUS
<1>2. \A e, i : Contains(e, i)' <=> Contains(e, i)
  BY <1>1 DEF Contains
<1> QED
  BY <1>1, <1>2 DEF Contained

LEMMA ContainedStep ==
    ASSUME UdpTypes, Contained, NEW d \in DOMAIN in, Alone(d), NEW c,
           c = resolve_for_context(lis.default, lis.rules, Context(d), lis.emulate),
           decision' = [decision EXCEPT ![d] = c]
    PROVE  Contained'
<1>1. in' = in /\ lis' = lis /\ decision'[d] = c /\ (\A e \in DOMAIN in : e # d => decision'[e] = decision[e])
  BY TrafficFacts DEF Alone, UdpTypes
<1>2. ASSUME NEW i \in DOMAIN lis.rules, Contains(d, i) PROVE c \in {"block", "sinkhole"}
  <2>1. PICK context : context = Context(d)
    OBVIOUS
  <2>2. RuleMatches(lis.rules[i], context)
    <3>1. context.source_host = lis.rules[i].source_host
      BY <1>2, <2>1 DEF Context, Contains
    <3>2. lis.rules[i].destination_port = 0
      BY <1>2 DEF Contains
    <3> QED
      BY <1>2, <3>1, <3>2 DEF RuleMatches, Contains
  <2>3. c = resolve_for_context(lis.default, lis.rules, context, lis.emulate)
    BY <2>1
  <2>4. /\ lis.rules[i].decision \in {"block", "sinkhole"}
        /\ \A j \in 1 .. i - 1 : lis.rules[j].decision \in {"block", "sinkhole"}
    BY <1>2 DEF Contains
  <2> QED
    BY ONLY UdpTypes, i \in DOMAIN lis.rules, <2>2, <2>3, <2>4, FirstHit
<1>3. ASSUME NEW e \in DOMAIN in, NEW i \in DOMAIN lis.rules, Contains(e, i)
      PROVE  decision'[e] \in {"", "block", "sinkhole"}
  <2>1. CASE e = d
    BY <1>1, <1>2, <1>3, <2>1
  <2>2. CASE e # d
    BY <1>1, <1>3, <2>2 DEF Contained
  <2> QED
    BY <2>1, <2>2
<1>4. \A e, i : Contains(e, i)' <=> Contains(e, i)
  BY <1>1 DEF Contains
<1> QED
  BY <1>1, <1>3, <1>4 DEF Contained

LEMMA ProgressStep ==
    ASSUME UdpTypes, \A e \in Datagrams : Progress(e), NEW d, Alone(d), Progress(d)',
           \A e \in Datagrams : e # d => (e \in isnew' <=> e \in isnew)
    PROVE  \A e \in Datagrams : Progress(e)'
<1> SUFFICES ASSUME NEW e \in Datagrams PROVE Progress(e)'
  OBVIOUS
<1>1. CASE e = d
  BY <1>1
<1>2. CASE e # d
  <2>1. /\ in' = in /\ pc'[e] = pc[e] /\ decision'[e] = decision[e] /\ answer'[e] = answer[e]
        /\ (e \in sent' <=> e \in sent) /\ (e \in isnew' <=> e \in isnew) /\ Progress(e)
    BY <1>2 DEF Alone
  <2> QED
    BY <2>1 DEF Progress
<1> QED
  BY <1>1, <1>2

\* A step after which d has not been served, or has just been.
LEMMA UnservedStep ==
    ASSUME UdpInv, NEW d \in DOMAIN in, Alone(d), pc[d] # "done", ~Served(d)',
           UNCHANGED <<counted, fired, commands, opened, isnew>>, Progress(d)',
           UdpTypes', Queries', Contained', Cardinality(Running') <= MaxTasks
    PROVE  UdpInv'
<1>1. /\ UdpTypes /\ Counting /\ Firing /\ commands <= Cardinality(Ended)
      /\ (\A e \in Datagrams : Progress(e)) /\ ~Served(d)
  BY DEF UdpInv, Served
<1>2. Counting'
  BY <1>1, CountingKept
<1>3. Firing'
  BY <1>1, FiringKept
<1>4. commands' <= Cardinality(Ended')
  BY <1>1, EndedGrows
<1>5. \A e \in Datagrams : Progress(e)'
  BY <1>1, ProgressStep
<1> QED
  BY <1>2, <1>3, <1>4, <1>5 DEF UdpInv

LEMMA ServedStep ==
    ASSUME UdpInv, NEW d \in DOMAIN in, Alone(d), pc[d] \in {"decide", "forward", "answer"}, Served(d)',
           FireIfNew(d, decision'[d] # "block"), UNCHANGED <<isnew, opened>>,
           NEW i \in {0, 1}, NEW o \in {0, 1}, Counts(d)' <=> i = 1, d \in sent' <=> o = 1,
           counted'[Key(d)].in = counted[Key(d)].in + i, counted'[Key(d)].out = counted[Key(d)].out + o,
           \A k \in AllKeys : k # Key(d) => counted'[k] = counted[k],
           Progress(d)', UdpTypes', Queries', Contained'
    PROVE  UdpInv'
<1>1. /\ UdpTypes /\ Counting /\ Firing /\ commands <= Cardinality(Ended) /\ Cardinality(Running) <= MaxTasks
      /\ (\A e \in Datagrams : Progress(e)) /\ ~Served(d) /\ pc[d] # "done" /\ pc'[d] = "done"
  BY DEF UdpInv, Served
<1>2. Counting'
  BY <1>1, CountingGrows
<1>3. Firing'
  <2>1. PICK run \in BOOLEAN : run <=> decision'[d] # "block"
    OBVIOUS
  <2>2. FireIfNew(d, run)
    BY <2>1 DEF FireIfNew
  <2> QED
    BY <1>1, <2>1, <2>2, FiringGrows
<1>4. commands' <= Cardinality(Ended')
  <2>1. commands' = commands \/ (commands' = commands + 1 /\ pc'[d] = "done")
    BY <1>1 DEF FireIfNew
  <2> QED
    BY <1>1, <2>1, EndedGrows
<1>5. \A e \in Datagrams : Progress(e)'
  BY <1>1, ProgressStep
<1>6. Cardinality(Running') <= MaxTasks
  BY <1>1, RunningKept
<1> QED
  BY <1>2, <1>3, <1>4, <1>5, <1>6 DEF UdpInv

LEMMA TaskOf ==
    ASSUME UdpInv, NEW d \in Datagrams, pc[d] # "done"
    PROVE  /\ d \in DOMAIN in /\ UdpTypes /\ Progress(d) /\ Queries /\ Contained /\ Key(d) \in AllKeys
           /\ Cardinality(Running) <= MaxTasks /\ (\A e \in Datagrams : Progress(e)) /\ ~Served(d)
<1>1. d \in DOMAIN in /\ UdpTypes /\ Progress(d) /\ ~Served(d)
  BY DEF UdpInv, Progress, Served
<1> QED
  BY <1>1, TrafficFacts DEF UdpInv

-----------------------------------------------------------------------------
(* The actions.                                                            *)
LEMMA ReceiveStep ==
    ASSUME UdpInv, NEW d \in Datagrams, recv_udp_packet(d) PROVE UdpInv'
<1>1. /\ pc[d] = "new"
      /\ UNCHANGED <<lis, in, process, dns, decision, answer, sent, counted, recorded, captured,
                     fired, commands, expiries>>
  BY DEF recv_udp_packet
<1>2. /\ d \in DOMAIN in /\ UdpTypes /\ Progress(d) /\ Queries /\ Contained /\ Key(d) \in AllKeys
      /\ Cardinality(Running) <= MaxTasks /\ (\A e \in Datagrams : Progress(e)) /\ ~Served(d)
  BY <1>1, TaskOf
<1>3. PICK label \in {"filter", "done"} :
         /\ Goto(d, label) /\ (label = "done" \/ HasPermit)
         /\ \/ UNCHANGED <<isnew, sessions, opened>>
            \/ Register(d)
  BY DEF recv_udp_packet
<1>4. pc' = [pc EXCEPT ![d] = label] /\ pc'[d] = label /\ decision'[d] = "" /\ d \notin sent
  BY <1>1, <1>2, <1>3 DEF Goto, UdpTypes, Progress
<1>5. Alone(d) /\ ~Served(d)'
  BY <1>1, <1>2, <1>4 DEF Alone, Served, UdpTypes
<1>6. Queries' /\ Contained'
  BY <1>1, <1>2, QueriesKept, ContainedKept
<1>7. Cardinality(Running') <= MaxTasks
  <2>1. CASE label = "done"
    BY <1>2, <1>4, <1>5, <2>1, RunningKept
  <2>2. CASE HasPermit /\ label = "filter"
    BY <1>1, <1>2, <1>4, <1>5, <2>2, RunningGrows DEF HasPermit
  <2> QED
    BY <1>3, <2>1, <2>2
<1>8. Progress(d)'
  BY <1>1, <1>2, <1>4 DEF Progress
<1>9. CASE UNCHANGED <<isnew, sessions, opened>>
  <2>1. UdpTypes'
    BY <1>1, <1>2, <1>4, <1>9 DEF UdpTypes
  <2> QED
    BY <1>1, <1>2, <1>5, <1>6, <1>7, <1>8, <1>9, <2>1, UnservedStep
<1>10. CASE Register(d) /\ Key(d) \in sessions
  <2>1. UNCHANGED <<isnew, opened>> /\ sessions' \subseteq AllKeys
    BY <1>2, <1>10 DEF Register, UdpTypes
  <2>2. UdpTypes'
    BY <1>1, <1>2, <1>4, <2>1 DEF UdpTypes
  <2> QED
    BY <1>1, <1>2, <1>5, <1>6, <1>7, <1>8, <2>1, <2>2, UnservedStep
<1>11. CASE Register(d) /\ Key(d) \notin sessions
  <2>1. /\ isnew' = isnew \cup {d} /\ opened' = [opened EXCEPT ![Key(d)] = @ + 1]
        /\ sessions' \subseteq AllKeys /\ d \notin isnew
    BY <1>1, <1>2, <1>11 DEF Register, UdpTypes, Progress
  <2>2. UdpTypes'
    <3>1. isnew' \subseteq DOMAIN in' /\ in' = in
      BY <1>1, <1>2, <2>1 DEF UdpTypes
    <3>2. opened' \in [AllKeys -> Nat]
      <4>1. PICK kd \in AllKeys : kd = Key(d)
        BY <1>2
      <4>2. opened \in [AllKeys -> Nat]
        BY <1>2 DEF UdpTypes
      <4>3. opened' = [opened EXCEPT ![kd] = opened[kd] + 1]
        BY <2>1, <4>1
      <4> QED
        BY ONLY <4>2, <4>3, kd \in AllKeys
    <3>3. pc' \in [Datagrams -> {"new", "filter", "decide", "forward", "answer", "done"}]
      BY <1>2, <1>4 DEF UdpTypes
    <3> QED
      BY <1>1, <1>2, <2>1, <3>1, <3>2, <3>3 DEF UdpTypes
  <2>3. Counting /\ Firing /\ commands <= Cardinality(Ended)
    BY DEF UdpInv
  <2>4. Counting'
    BY <1>1, <1>2, <1>5, <2>3, CountingKept
  <2>5. Firing'
    BY <1>1, <1>2, <1>5, <2>1, <2>3, FiringRegistered
  <2>6. commands' <= Cardinality(Ended')
    BY <1>1, <1>2, <1>5, <2>3, EndedGrows
  <2>7. \A e \in Datagrams : Progress(e)'
    <3>1. \A e \in Datagrams : e # d => (e \in isnew' <=> e \in isnew)
      BY <2>1
    <3> QED
      BY <1>2, <1>5, <1>8, <3>1, ProgressStep
  <2> QED
    BY <1>6, <1>7, <2>2, <2>4, <2>5, <2>6, <2>7 DEF UdpInv
<1> QED
  BY <1>3, <1>9, <1>10, <1>11

LEMMA NobodyMoved ==
    ASSUME Counting, Firing, UNCHANGED <<in, pc, isnew, decision, answer, sent, counted, fired, opened>>
    PROVE  Counting' /\ Firing' /\ Ended' = Ended
<1>1. /\ in' = in /\ pc' = pc /\ isnew' = isnew /\ decision' = decision /\ answer' = answer /\ sent' = sent
      /\ counted' = counted /\ fired' = fired /\ opened' = opened
  OBVIOUS
<1>2. \A e : (Served(e)' <=> Served(e)) /\ (Counts(e)' <=> Counts(e))
  BY <1>1 DEF Served, Counts
<1>3. \A e : Key(e)' = Key(e)
  BY <1>1 DEF Key
<1>4. \A k : CountedOf(k)' = CountedOf(k)
  BY <1>1, <1>2, <1>3 DEF CountedOf
<1>5. \A k : SentOf(k)' = SentOf(k)
  BY <1>1, <1>2, <1>3 DEF SentOf
<1>6. \A k : NewOf(k)' = NewOf(k)
  BY <1>1, <1>3 DEF NewOf
<1>7. \A k : FiredOf(k)' = FiredOf(k)
  BY <1>1, <1>2, <1>3 DEF FiredOf
<1>8. Counting'
  BY <1>1, <1>4, <1>5 DEF Counting
<1>9. Firing'
  BY <1>1, <1>6, <1>7 DEF Firing
<1>10. Ended' = Ended
  BY <1>1 DEF Ended
<1> QED
  BY <1>8, <1>9, <1>10

LEMMA ExpiresStep == ASSUME UdpInv, NEW k \in AllKeys, SessionExpires(k) PROVE UdpInv'
<1>1. /\ UNCHANGED <<lis, in, pc, isnew, dns, decision, answer, sent, counted, recorded, captured,
                     fired, commands, opened>>
      /\ sessions' = sessions \ {k} /\ process' = [process EXCEPT ![k] = ""]
  BY DEF SessionExpires
<1>2. UdpTypes'
  BY <1>1 DEF UdpInv, UdpTypes
<1>3. /\ Counting' /\ Firing' /\ (commands <= Cardinality(Ended))'
  BY <1>1, NobodyMoved DEF UdpInv
<1>4. Queries' /\ Contained'
  BY <1>1, QueriesKept, ContainedKept DEF UdpInv
<1>5. (\A d \in Datagrams : Progress(d))' /\ (Cardinality(Running) <= MaxTasks)'
  BY <1>1 DEF UdpInv, Progress, Running
<1> QED
  BY <1>2, <1>3, <1>4, <1>5 DEF UdpInv

LEMMA CommandEndsStep == ASSUME UdpInv, CommandEnds PROVE UdpInv'
<1>1. /\ UNCHANGED <<lis, in, pc, isnew, sessions, process, dns, decision, answer, sent, counted, recorded,
                     captured, fired, opened>>
      /\ commands > 0 /\ commands' = commands - 1
  BY DEF CommandEnds
<1>2. commands \in 0 .. MAX_ACTIVE_COMMANDS /\ MAX_ACTIVE_COMMANDS \in Nat
  BY UdpAssumption DEF UdpInv, UdpTypes
<1>3. commands' \in 0 .. MAX_ACTIVE_COMMANDS /\ commands' <= commands
  BY <1>1, <1>2
<1>4. UdpTypes'
  BY <1>1, <1>3 DEF UdpInv, UdpTypes
<1>5. /\ Counting' /\ Firing' /\ Ended' = Ended
  BY <1>1, NobodyMoved DEF UdpInv
<1>6. commands' <= Cardinality(Ended')
  <2>1. commands <= Cardinality(Ended) /\ Cardinality(Ended) \in Nat
    BY SetFacts DEF UdpInv
  <2> QED
    BY <1>2, <1>3, <1>5, <2>1
<1>7. Queries' /\ Contained'
  BY <1>1, QueriesKept, ContainedKept DEF UdpInv
<1>8. (\A d \in Datagrams : Progress(d))' /\ (Cardinality(Running) <= MaxTasks)'
  BY <1>1 DEF UdpInv, Progress, Running
<1> QED
  BY <1>4, <1>5, <1>6, <1>7, <1>8 DEF UdpInv

LEMMA FilterStep == ASSUME UdpInv, NEW d \in Datagrams, apply_udp_process_filter(d) PROVE UdpInv'
<1>1. /\ pc[d] = "filter"
      /\ UNCHANGED <<lis, in, isnew, sessions, dns, decision, answer, sent, counted, recorded,
                     captured, fired, commands, opened, expiries>>
  BY DEF apply_udp_process_filter
<1>2. /\ d \in DOMAIN in /\ UdpTypes /\ Progress(d) /\ Queries /\ Contained /\ Key(d) \in AllKeys
      /\ Cardinality(Running) <= MaxTasks /\ (\A e \in Datagrams : Progress(e)) /\ ~Served(d)
  BY <1>1, TaskOf
<1>3. PICK label \in {"decide", "done"} :
         /\ Goto(d, label)
         /\ process' = process \/ \E p \in Processes : process' = [process EXCEPT ![Key(d)] = p]
  BY DEF apply_udp_process_filter
<1>4. pc' = [pc EXCEPT ![d] = label] /\ pc'[d] = label /\ decision'[d] = ""
  BY <1>1, <1>2, <1>3 DEF Goto, UdpTypes, Progress
<1>5. Alone(d) /\ ~Served(d)'
  BY <1>1, <1>2, <1>4 DEF Alone, Served, UdpTypes
<1>6. Queries' /\ Contained'
  BY <1>1, <1>2, QueriesKept, ContainedKept
<1>7. Cardinality(Running') <= MaxTasks
  BY <1>1, <1>2, <1>5, RunningKept
<1>8. Progress(d)'
  BY <1>1, <1>2, <1>4 DEF Progress
<1>9. UdpTypes'
  <2>1. process' \in [AllKeys -> Processes \cup {""}]
    BY <1>2, <1>3 DEF UdpTypes
  <2> QED
    BY <1>1, <1>2, <1>4, <2>1 DEF UdpTypes
<1> QED
  BY <1>1, <1>2, <1>5, <1>6, <1>7, <1>8, <1>9, UnservedStep

\* The types after the last step of a task.
LEMMA EndTypes ==
    ASSUME UdpTypes, NEW d \in DOMAIN in, Goto(d, "done"), Key(d) \in AllKeys, NEW b, FireIfNew(d, b),
           UNCHANGED <<lis, in, isnew, sessions, process, opened>>,
           decision' \in [Datagrams -> Decisions \cup {""}], DOMAIN answer' = Datagrams,
           sent' \subseteq sent \cup {d}, recorded' \subseteq captured',
           counted' \in [AllKeys -> [in : Nat, out : Nat]]
    PROVE  UdpTypes'
<1>1. pc' \in [Datagrams -> {"new", "filter", "decide", "forward", "answer", "done"}]
  BY DEF UdpTypes, Goto
<1>2. fired' \in [AllKeys -> Nat]
  <2>1. PICK kd \in AllKeys : kd = Key(d)
    OBVIOUS
  <2>2. fired \in [AllKeys -> Nat]
    BY DEF UdpTypes
  <2>3. fired' = fired \/ fired' = [fired EXCEPT ![kd] = fired[kd] + 1]
    BY <2>1 DEF FireIfNew
  <2> QED
    BY ONLY <2>2, <2>3, kd \in AllKeys
<1>3. commands' \in 0 .. MAX_ACTIVE_COMMANDS
  <2>1. commands \in 0 .. MAX_ACTIVE_COMMANDS /\ MAX_ACTIVE_COMMANDS \in Nat
    BY UdpAssumption DEF UdpTypes
  <2>2. commands' = commands \/ (commands < MAX_ACTIVE_COMMANDS /\ commands' = commands + 1)
    BY DEF FireIfNew
  <2>3. CASE commands' = commands
    BY <2>1, <2>3
  <2>4. CASE commands < MAX_ACTIVE_COMMANDS /\ commands' = commands + 1
    BY ONLY <2>1, <2>4
  <2> QED
    BY <2>2, <2>3, <2>4
<1>4. sent' \subseteq DOMAIN in
  BY DEF UdpTypes
<1> QED
  BY <1>1, <1>2, <1>3, <1>4 DEF UdpTypes

\* What update_session_bytes counts.
LEMMA BytesCounted ==
    ASSUME UdpTypes, NEW d, Key(d) \in AllKeys, NEW i \in {0, 1}, NEW o \in {0, 1},
           update_session_bytes(d, i, o)
    PROVE  /\ counted' \in [AllKeys -> [in : Nat, out : Nat]]
           /\ counted'[Key(d)].in = counted[Key(d)].in + i /\ counted'[Key(d)].out = counted[Key(d)].out + o
           /\ \A k \in AllKeys : k # Key(d) => counted'[k] = counted[k]
<1>1. PICK kd \in AllKeys : kd = Key(d)
  OBVIOUS
<1>2. counted \in [AllKeys -> [in : Nat, out : Nat]] /\ counted[kd].in \in Nat /\ counted[kd].out \in Nat
  BY DEF UdpTypes
<1>3. counted' = [counted EXCEPT ![kd] = [in |-> counted[kd].in + i, out |-> counted[kd].out + o]]
  BY <1>1 DEF update_session_bytes
<1>4. [in |-> counted[kd].in + i, out |-> counted[kd].out + o] \in [in : Nat, out : Nat]
  BY <1>2
<1>5. counted'[kd] = [in |-> counted[kd].in + i, out |-> counted[kd].out + o]
  BY <1>2, <1>3
<1> QED
  BY <1>1, <1>2, <1>3, <1>4, <1>5

LEMMA NothingCounted ==
    ASSUME UdpTypes, NEW d, Key(d) \in AllKeys, counted' = counted
    PROVE  /\ counted' \in [AllKeys -> [in : Nat, out : Nat]]
           /\ counted'[Key(d)].in = counted[Key(d)].in + 0 /\ counted'[Key(d)].out = counted[Key(d)].out + 0
           /\ \A k \in AllKeys : k # Key(d) => counted'[k] = counted[k]
<1>1. counted \in [AllKeys -> [in : Nat, out : Nat]]
      /\ counted[Key(d)].in \in Nat /\ counted[Key(d)].out \in Nat
  BY DEF UdpTypes
<1> QED
  BY <1>1

\* The decision: a datagram to be forwarded or answered waits; one that is
\* sinkholed or blocked has been served.
LEMMA DecideStep == ASSUME UdpInv, NEW d \in Datagrams, Decide(d) PROVE UdpInv'
<1>1. pc[d] = "decide" /\ UNCHANGED <<lis, in, isnew, sessions, process, sent, opened, expiries>>
  BY DEF Decide
<1>2. /\ d \in DOMAIN in /\ UdpTypes /\ Progress(d) /\ Queries /\ Contained /\ Key(d) \in AllKeys
      /\ Cardinality(Running) <= MaxTasks /\ (\A e \in Datagrams : Progress(e)) /\ ~Served(d)
  BY SMTT(30), <1>1, TaskOf
<1>3. PICK c :
        /\ c = resolve_for_context(lis.default, lis.rules, Context(d), lis.emulate)
        /\ decision' = [decision EXCEPT ![d] = c]
        /\ captured' = IF c \in {"sinkhole", "emulate"} THEN captured \cup {d} ELSE captured
        /\ IF c = "sinkhole" THEN update_session_bytes(d, 1, 0) ELSE UNCHANGED counted
        /\ Goto(d, CASE c \in {"pass", "capture"} -> "forward" [] c = "emulate" -> "answer" [] OTHER -> "done")
        /\ FireIfNew(d, c = "sinkhole")
        /\ IF c # "emulate" THEN UNCHANGED <<dns, answer, recorded>>
           ELSE \E x \in {Data[in[d].data]} : \E name \in {ProtocolOf(lis, x)} :
                \E h \in {handle_explicit_udp_protocol(name, dns, x, in[d].ip)} :
                /\ dns' = h.dns
                /\ answer' = [answer EXCEPT ![d] = IF h.count THEN h.answer ELSE "silent"]
                /\ recorded' = IF h.event THEN recorded \cup {d} ELSE recorded
  BY DEF Decide
<1>4. c \in Decisions
  <2>1. PICK context : context = Context(d)
    OBVIOUS
  <2>2. c = resolve_for_context(lis.default, lis.rules, context, lis.emulate)
    BY <1>3, <2>1
  <2> QED
    BY ONLY <1>2, <2>2, FirstHit
<1>5. PICK label : label = CASE c \in {"pass", "capture"} -> "forward" [] c = "emulate" -> "answer" [] OTHER -> "done"
  OBVIOUS
<1>6. Goto(d, label) /\ pc' = [pc EXCEPT ![d] = label]
  BY <1>3, <1>5 DEF Goto
<1>7. /\ label \in {"forward", "answer", "done"} /\ (label = "forward" <=> c \in {"pass", "capture"})
      /\ (label = "answer" <=> c = "emulate") /\ (label = "done" <=> c \in {"sinkhole", "block"})
  BY <1>4, <1>5 DEF Decisions
<1>8. /\ pc'[d] = label /\ decision'[d] = c /\ d \notin sent /\ sent' = sent /\ answer[d] = ""
      /\ \A e \in Datagrams : e # d => pc'[e] = pc[e] /\ decision'[e] = decision[e]
  BY <1>1, <1>2, <1>3, <1>6 DEF UdpTypes, Progress
<1>9. decision' \in [Datagrams -> Decisions \cup {""}]
  BY <1>2, <1>3, <1>4 DEF UdpTypes
<1>10. DOMAIN answer' = Datagrams /\ (\A e \in Datagrams : e # d => answer'[e] = answer[e])
  <2>1. DOMAIN answer = Datagrams
    BY <1>2 DEF UdpTypes
  <2>2. answer' = answer \/ \E a : answer' = [answer EXCEPT ![d] = a]
    BY <1>3
  <2> QED
    BY <2>1, <2>2
<1>11. Alone(d)
  BY <1>1, <1>8, <1>10 DEF Alone
<1>12. Contained'
  BY <1>2, <1>3, <1>11, ContainedStep
<1>13. Cardinality(Running') <= MaxTasks
  BY <1>1, <1>2, <1>11, RunningKept
<1>14. Progress(d)'
  BY <1>1, <1>2, <1>7, <1>8 DEF Progress
<1>15. recorded' \subseteq captured'
  <2>1. recorded \subseteq captured
    BY <1>2 DEF UdpTypes
  <2>2. recorded' = recorded \/ (recorded' = recorded \cup {d} /\ c = "emulate")
    BY <1>3
  <2> QED
    BY <1>3, <2>1, <2>2
<1>16. Queries'
  <2>1. CASE c # "emulate"
    BY <1>1, <1>2, <1>3, <2>1, QueriesKept
  <2>2. CASE c = "emulate"
    <3>1. PICK x, name, h :
             /\ x = Data[in[d].data] /\ name = ProtocolOf(lis, x)
             /\ h = handle_explicit_udp_protocol(name, dns, x, in[d].ip)
             /\ dns' = h.dns /\ answer' = [answer EXCEPT ![d] = IF h.count THEN h.answer ELSE "silent"]
      BY <1>3, <2>2
    <3>2. answer' = [answer EXCEPT ![d] = ToldOf(h)]
      BY <3>1 DEF ToldOf
    <3>3. name \in HandlerNames \cup {""}
      <4>1. PICK l : l = lis
        OBVIOUS
      <4> QED
        BY <3>1, <4>1, RoutedName
    <3> QED
      BY ONLY <1>2, <1>8, <1>11, <3>1, <3>2, <3>3, QueriesStep
  <2> QED
    BY <2>1, <2>2
<1>17. CASE label \in {"forward", "answer"}
  <2>1. c \notin {"sinkhole", "block"}
    BY <1>7, <1>17
  <2>2. UNCHANGED <<counted, fired, commands>>
    BY <1>3, <2>1 DEF FireIfNew
  <2>3. UdpTypes'
    <3>1. pc' \in [Datagrams -> {"new", "filter", "decide", "forward", "answer", "done"}]
      BY <1>2, <1>6, <1>17 DEF UdpTypes
    <3> QED
      BY <1>1, <1>2, <1>9, <1>10, <1>15, <2>2, <3>1 DEF UdpTypes
  <2>4. ~Served(d)'
    BY <1>8, <1>17 DEF Served
  <2> QED
    BY <1>1, <1>2, <1>11, <1>12, <1>13, <1>14, <1>16, <2>2, <2>3, <2>4, UnservedStep
<1>18. CASE label = "done"
  <2>1. c \in {"sinkhole", "block"}
    BY <1>7, <1>18
  <2>2. Served(d)' /\ (Counts(d)' <=> c = "sinkhole") /\ d \notin sent'
    BY <1>8, <1>18, <2>1 DEF Served, Counts
  <2>3. FireIfNew(d, decision'[d] # "block")
    <3>1. (c = "sinkhole") <=> (decision'[d] # "block")
      BY <1>8, <2>1
    <3>2. FireIfNew(d, c = "sinkhole")
      BY <1>3
    <3> QED
      BY ONLY <3>1, <3>2 DEF FireIfNew
  <2>4. PICK i \in {0, 1} : (i = 1 <=> c = "sinkhole") /\ (i = 0 <=> c = "block")
    <3>1. CASE c = "sinkhole"
      BY <3>1
    <3>2. CASE c = "block"
      BY <3>2
    <3> QED
      BY <2>1, <3>1, <3>2
  <2>5. /\ counted' \in [AllKeys -> [in : Nat, out : Nat]]
        /\ counted'[Key(d)].in = counted[Key(d)].in + i /\ counted'[Key(d)].out = counted[Key(d)].out + 0
        /\ \A k \in AllKeys : k # Key(d) => counted'[k] = counted[k]
    <3>1. CASE c = "sinkhole"
      <4>1. update_session_bytes(d, 1, 0) /\ i = 1
        BY <1>3, <2>4, <3>1
      <4> QED
        BY <1>2, <4>1, BytesCounted
    <3>2. CASE c = "block"
      <4>1. counted' = counted /\ i = 0
        BY <1>3, <2>4, <3>2
      <4> QED
        BY <1>2, <4>1, NothingCounted
    <3> QED
      BY <2>1, <3>1, <3>2
  <2>6. UdpTypes'
    <3>1. Goto(d, "done") /\ sent' \subseteq sent \cup {d}
      BY <1>6, <1>8, <1>18
    <3>2. PICK b : FireIfNew(d, b)
      BY <1>3
    <3> QED
      BY ONLY <1>1, <1>2, <1>9, <1>10, <1>15, <2>5, <3>1, <3>2, EndTypes
  <2>7. Counts(d)' <=> i = 1
    BY <2>2, <2>4
  <2> QED
    BY <1>1, <1>2, <1>11, <1>12, <1>14, <1>16, <2>2, <2>3, <2>5, <2>6, <2>7, ServedStep
<1> QED
  BY <1>7, <1>17, <1>18

\* The answer goes out or the send fails; its bytes are counted unless the
\* service kept silent.
LEMMA AnswerStep == ASSUME UdpInv, NEW d \in Datagrams, NEW ok \in BOOLEAN, Answer(d, ok) PROVE UdpInv'
<1>1. /\ pc[d] = "answer" /\ Goto(d, "done") /\ FireIfNew(d, TRUE)
      /\ UNCHANGED <<lis, in, isnew, sessions, process, dns, decision, answer, recorded, captured,
                     opened, expiries>>
      /\ sent' = (IF ok THEN sent \cup {d} ELSE sent) /\ (ok => answer[d] \notin {"", "silent"})
  BY DEF Answer
<1>2. /\ d \in DOMAIN in /\ UdpTypes /\ Progress(d) /\ Queries /\ Contained /\ Key(d) \in AllKeys
      /\ Cardinality(Running) <= MaxTasks /\ (\A e \in Datagrams : Progress(e)) /\ ~Served(d)
  BY <1>1, TaskOf
<1>3. /\ pc'[d] = "done" /\ decision'[d] = "emulate" /\ d \notin sent
      /\ \A e \in Datagrams : e # d => pc'[e] = pc[e]
  BY <1>1, <1>2 DEF Goto, UdpTypes, Progress
<1>4. Alone(d)
  BY <1>1, <1>3 DEF Alone
<1>5. Queries' /\ Contained'
  BY <1>1, <1>2, QueriesKept, ContainedKept
<1>6. Progress(d)'
  BY <1>1, <1>2, <1>3 DEF Progress
<1>7. Served(d)' /\ (Counts(d)' <=> answer[d] # "silent")
  BY <1>1, <1>3 DEF Served, Counts
<1>8. FireIfNew(d, decision'[d] # "block")
  <2>1. decision'[d] # "block"
    BY <1>3
  <2> QED
    BY ONLY <1>1, <2>1 DEF FireIfNew
<1>9. PICK i \in {0, 1} : (i = 1 <=> answer[d] # "silent") /\ (i = 0 <=> answer[d] = "silent")
  <2>1. CASE answer[d] = "silent"
    BY <2>1
  <2>2. CASE answer[d] # "silent"
    BY <2>2
  <2> QED
    BY <2>1, <2>2
<1>10. PICK o \in {0, 1} : (o = 1 <=> ok) /\ o = IF ok THEN 1 ELSE 0
  <2>1. CASE ok
    BY <2>1
  <2>2. CASE ~ok
    BY <2>2
  <2> QED
    BY <2>1, <2>2
<1>11. d \in sent' <=> o = 1
  BY <1>1, <1>3, <1>10
<1>12. /\ counted' \in [AllKeys -> [in : Nat, out : Nat]]
       /\ counted'[Key(d)].in = counted[Key(d)].in + i /\ counted'[Key(d)].out = counted[Key(d)].out + o
       /\ \A k \in AllKeys : k # Key(d) => counted'[k] = counted[k]
  <2>1. CASE answer[d] = "silent"
    <3>1. counted' = counted
      BY <2>1 DEF Answer
    <3>2. i = 0 /\ o = 0
      BY <1>1, <1>9, <1>10, <2>1
    <3> QED
      BY <1>2, <3>1, <3>2, NothingCounted
  <2>2. CASE answer[d] # "silent"
    <3>1. update_session_bytes(d, 1, o)
      BY <1>10, <2>2 DEF Answer
    <3>2. i = 1
      BY <1>9, <2>2
    <3> QED
      BY <1>2, <3>1, <3>2, BytesCounted
  <2> QED
    BY <2>1, <2>2
<1>13. UdpTypes'
  <2>1. /\ sent' \subseteq sent \cup {d} /\ recorded' \subseteq captured' /\ DOMAIN answer' = Datagrams
        /\ decision' \in [Datagrams -> Decisions \cup {""}]
    BY <1>1, <1>2 DEF UdpTypes
  <2>2. PICK b : FireIfNew(d, b)
    BY <1>1
  <2> QED
    BY ONLY <1>1, <1>2, <1>12, <2>1, <2>2, EndTypes
<1>14. Counts(d)' <=> i = 1
  BY <1>7, <1>9
<1> QED
  BY <1>1, <1>2, <1>4, <1>5, <1>6, <1>7, <1>8, <1>11, <1>12, <1>13, <1>14, ServedStep

LEMMA ForwardStep ==
    ASSUME UdpInv, NEW d \in Datagrams, NEW answered \in BOOLEAN, NEW ok \in BOOLEAN,
           forward_udp_datagram(d, answered, ok)
    PROVE  UdpInv'
<1>1. /\ pc[d] = "forward" /\ Goto(d, "done") /\ FireIfNew(d, TRUE)
      /\ UNCHANGED <<lis, in, isnew, sessions, process, dns, decision, answer, recorded, opened, expiries>>
      /\ sent' = (IF ok THEN sent \cup {d} ELSE sent) /\ captured \subseteq captured'
  BY DEF forward_udp_datagram
<1>2. /\ d \in DOMAIN in /\ UdpTypes /\ Progress(d) /\ Queries /\ Contained /\ Key(d) \in AllKeys
      /\ Cardinality(Running) <= MaxTasks /\ (\A e \in Datagrams : Progress(e)) /\ ~Served(d)
  BY <1>1, TaskOf
<1>3. /\ pc'[d] = "done" /\ decision'[d] \in {"pass", "capture"} /\ d \notin sent
      /\ \A e \in Datagrams : e # d => pc'[e] = pc[e]
  BY <1>1, <1>2 DEF Goto, UdpTypes, Progress
<1>4. Alone(d)
  BY <1>1, <1>3 DEF Alone
<1>5. Queries' /\ Contained'
  BY <1>1, <1>2, QueriesKept, ContainedKept
<1>6. Progress(d)'
  BY <1>1, <1>2, <1>3 DEF Progress
<1>7. Served(d)' /\ (Counts(d)' <=> d \in sent')
  BY <1>1, <1>3 DEF Served, Counts
<1>8. FireIfNew(d, decision'[d] # "block")
  <2>1. decision'[d] # "block"
    BY <1>3
  <2> QED
    BY ONLY <1>1, <2>1 DEF FireIfNew
<1>9. PICK o \in {0, 1} : (o = 1 <=> ok) /\ (o = 0 <=> ~ok)
  <2>1. CASE ok
    BY <2>1
  <2>2. CASE ~ok
    BY <2>2
  <2> QED
    BY <2>1, <2>2
<1>10. (d \in sent' <=> o = 1) /\ (Counts(d)' <=> o = 1)
  BY <1>1, <1>3, <1>7, <1>9
<1>11. /\ counted' \in [AllKeys -> [in : Nat, out : Nat]]
       /\ counted'[Key(d)].in = counted[Key(d)].in + o /\ counted'[Key(d)].out = counted[Key(d)].out + o
       /\ \A k \in AllKeys : k # Key(d) => counted'[k] = counted[k]
  <2>1. CASE ok
    <3>1. update_session_bytes(d, 1, 1) /\ o = 1
      BY <1>9, <2>1 DEF forward_udp_datagram
    <3> QED
      BY <1>2, <3>1, BytesCounted
  <2>2. CASE ~ok
    <3>1. counted' = counted /\ o = 0
      BY <1>9, <2>2 DEF forward_udp_datagram
    <3> QED
      BY <1>2, <3>1, NothingCounted
  <2> QED
    BY <2>1, <2>2
<1>12. UdpTypes'
  <2>1. /\ sent' \subseteq sent \cup {d} /\ recorded' \subseteq captured' /\ DOMAIN answer' = Datagrams
        /\ decision' \in [Datagrams -> Decisions \cup {""}]
    BY <1>1, <1>2 DEF UdpTypes
  <2>2. PICK b : FireIfNew(d, b)
    BY <1>1
  <2> QED
    BY ONLY <1>1, <1>2, <1>11, <2>1, <2>2, EndTypes
<1> QED
  BY <1>1, <1>2, <1>4, <1>5, <1>6, <1>7, <1>8, <1>10, <1>11, <1>12, ServedStep

LEMMA UdpStart == ASSUME Init PROVE UdpInv
<1>1. UdpTypes
  <2>1. MAX_ACTIVE_COMMANDS \in Nat /\ 0 \in 0 .. MAX_ACTIVE_COMMANDS
    BY UdpAssumption
  <2>2. counted \in [AllKeys -> [in : Nat, out : Nat]]
    BY DEF Init
  <2> QED
    BY <2>1, <2>2 DEF Init, UdpTypes
<1>2. \A d \in Datagrams : Progress(d)
  BY DEF Init, Progress
<1>3. \A d \in DOMAIN in : d \in Datagrams /\ ~Served(d) /\ ~Answered4(d)
  BY <1>1, TrafficFacts DEF Init, Served, Answered4
<1>4. \A k : CountedOf(k) = {} /\ SentOf(k) = {} /\ NewOf(k) = {} /\ FiredOf(k) = {}
  BY <1>3 DEF Init, CountedOf, SentOf, NewOf, FiredOf
<1>5. Ended = {} /\ Gone = {} /\ Running = {}
  BY <1>3 DEF Init, Ended, Gone, Running
<1>6. Cardinality({}) = 0
  BY FS_EmptySet
<1>7. Counting
  BY <1>4, <1>6 DEF Init, Counting
<1>8. Firing
  <2>1. \A k \in AllKeys : opened[k] = 0 /\ fired[k] = 0
    BY DEF Init
  <2>2. \A k \in AllKeys : Cardinality(NewOf(k)) = 0 /\ Cardinality(FiredOf(k)) = 0
    BY <1>4, <1>6
  <2>3. 0 <= 0
    OBVIOUS
  <2> QED
    BY <2>1, <2>2, <2>3 DEF Firing
<1>9. Queries
  <2>1. Cardinality(Gone) = 0
    BY <1>5, <1>6
  <2>2. 0 <= DnsConfig.nxdomains
    BY UdpAssumption
  <2>3. dns = [nxdomains_count |-> 0, custom |-> <<>>]
    BY DEF Init, DnsNew
  <2> QED
    BY <1>3, <2>1, <2>2, <2>3 DEF Queries
<1>10. Contained
  BY <1>1, TrafficFacts DEF Init, Contained
<1>11. commands <= Cardinality(Ended) /\ Cardinality(Running) <= MaxTasks
  <2>1. Cardinality(Ended) = 0 /\ Cardinality(Running) = 0
    BY <1>5, <1>6
  <2>2. commands = 0 /\ MaxTasks \in Nat
    BY UdpAssumption DEF Init
  <2> QED
    BY <2>1, <2>2
<1> QED
  BY <1>1, <1>2, <1>7, <1>8, <1>9, <1>10, <1>11 DEF UdpInv

LEMMA UdpStep == ASSUME UdpInv, [Next]_vars PROVE UdpInv'
<1>1. CASE \E d \in Datagrams : recv_udp_packet(d)
  BY <1>1, ReceiveStep
<1>2. CASE \E d \in Datagrams : apply_udp_process_filter(d)
  BY <1>2, FilterStep
<1>3. CASE \E d \in Datagrams : Decide(d)
  BY <1>3, DecideStep
<1>4. CASE \E d \in Datagrams, ok \in BOOLEAN : Answer(d, ok)
  BY <1>4, AnswerStep
<1>5. CASE \E d \in Datagrams, answered, ok \in BOOLEAN : forward_udp_datagram(d, answered, ok)
  BY <1>5, ForwardStep
<1>6. CASE \E k \in AllKeys : SessionExpires(k)
  BY <1>6, ExpiresStep
<1>7. CASE CommandEnds
  BY <1>7, CommandEndsStep
<1>8. CASE UNCHANGED vars
  <2>1. UNCHANGED <<lis, in, pc, isnew, sessions, process, dns, decision, answer, sent, counted, recorded,
                    captured, fired, commands, opened>>
    BY <1>8 DEF vars
  <2>2. UdpTypes'
    BY <2>1 DEF UdpInv, UdpTypes
  <2>3. /\ Counting' /\ Firing' /\ (commands <= Cardinality(Ended))'
    BY <2>1, NobodyMoved DEF UdpInv
  <2>4. Queries' /\ Contained'
    BY <2>1, QueriesKept, ContainedKept DEF UdpInv
  <2>5. (\A d \in Datagrams : Progress(d))' /\ (Cardinality(Running) <= MaxTasks)'
    BY <2>1 DEF UdpInv, Progress, Running
  <2> QED
    BY <2>2, <2>3, <2>4, <2>5 DEF UdpInv
<1> QED
  BY <1>1, <1>2, <1>3, <1>4, <1>5, <1>6, <1>7, <1>8 DEF Next

\* The invariant of the UDP listener: at every step the totals, the commands
\* and the NXDOMAIN answers are those of the datagrams served so far
\* (run_udp_listener_with_flow_policy, fire_execute_cmd_for_session).
THEOREM UdpInvariance == Spec => []UdpInv
<1>1. Init => UdpInv
  BY UdpStart
<1>2. UdpInv /\ [Next]_vars => UdpInv'
  BY UdpStep
<1> QED
  BY <1>1, <1>2, PTL DEF Spec

\* For any traffic, any rules and filters and any number of tasks at once,
\* what the UDP listener counts is what its datagrams did: bytes once, one
\* command per registered session, the configured number of NXDOMAIN answers,
\* no answer the policy refuses (run_udp_listener_with_flow_policy).
THEOREM DatagramsAreAccounted == Spec => []DatagramsAccounted
<1>1. UdpInv => DatagramsAccounted
  BY UdpProperties
<1> QED
  BY <1>1, UdpInvariance, PTL
=============================================================================
