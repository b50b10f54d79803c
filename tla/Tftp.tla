-------------------------------- MODULE Tftp --------------------------------
(***************************************************************************)
(* The TFTP transfers of a UDP listener (nettrap-cli/src/listeners/        *)
(* udp_tftp.rs with nettrap-proto-tftp/src/handler.rs).                    *)
(*                                                                         *)
(* Every datagram has a task of its own, so that the network's             *)
(* duplicates, losses and reorderings are joined by those of the           *)
(* scheduler.  Clients may send anything at any time.  A task handles its  *)
(* packet under the lock of the transfer table, except an ACK: it looks up *)
(* the next block, reads the file with the lock released, and takes the    *)
(* lock again to note what it sends.                                       *)
(*                                                                         *)
(* A data block is full (length 1) or short (length 0).  Each handler      *)
(* prunes the table twice, on arrival and under its own lock; an arrival   *)
(* alone is the action Ignored.  Answers are noted when they are decided.  *)
(***************************************************************************)
EXTENDS Naturals, FiniteSets, Sequences

CONSTANTS
    Keys,          \* TftpTransferKey: who with whom
    Files,         \* file names
    Tasks,         \* tasks that can be between the two locks of an ACK
    None,
    MaxActive,     \* MAX_TFTP_ACTIVE_TRANSFERS
    MaxUpload,     \* MAX_TFTP_UPLOAD_BYTES, in full blocks
    FileBlocks,    \* full blocks of a served file (MAX_TFTP_SERVE_BYTES bounds it)
    BlockModulus   \* 2^16: block numbers are u16

Blocks == 0..(BlockModulus - 1)
wrapping_add(b) == (b + 1) % BlockModulus

\* TftpTransferState; last_response is the block last_block_sent.
Read  == [kind : {"read"}, file : Files, last_block_sent : Blocks, complete : BOOLEAN]
Write == [kind : {"write"}, file : Files, next_block_expected : Blocks,
          bytes_received : 0..MaxUpload, last_ack : Blocks, complete : BOOLEAN]

ASSUME TftpAssumption ==
    /\ MaxActive \in Nat \ {0} /\ MaxUpload \in Nat /\ FileBlocks \in Nat
    /\ BlockModulus \in Nat
    /\ MaxUpload + 3 < BlockModulus /\ FileBlocks + 3 < BlockModulus
    /\ None \notin Read \cup Write \cup [key : Keys, file : Files, block : Blocks]

VARIABLES
    active,    \* the transfers: [Keys -> Read, Write or None]
    stale,     \* keys whose last_activity is longer ago than TFTP_TRANSFER_TIMEOUT
    rooted,    \* tftproot is configured
    stored,    \* [Files -> the blocks written to it]
    created,   \* upload files that exist
    gap,       \* [Tasks -> the ACK between its two locks, or None]
    acked,     \* history: <<k, f, b>>: k acknowledged block b of f, its transfer
    told,      \* history: [Files -> highest block acknowledged to the uploader]
    late       \* history: transfers in the table that an ACK has put back

tableVars == <<active, stale, late>>
diskVars  == <<stored, created>>
histVars  == <<acked, told>>
tftpVars == <<tableVars, rooted, diskVars, gap, histVars>>

TftpTypeOK ==
    /\ active \in [Keys -> Read \cup Write \cup {None}]
    /\ stale \subseteq {k \in Keys : active[k] # None}
    /\ rooted \in BOOLEAN
    /\ stored \in [Files -> Seq([block : Blocks, from : Keys, len : {"full", "short", "torn"}])]
    /\ created \subseteq Files
    /\ gap \in [Tasks -> [key : Keys, file : Files, block : Blocks] \cup {None}]
    /\ acked \subseteq Keys \X Files \X Blocks
    /\ told \in [Files -> Blocks]
    /\ late \subseteq {k \in Keys : active[k] # None}

TftpInit ==
    /\ active = [k \in Keys |-> None]
    /\ stale = {}
    /\ rooted \in BOOLEAN
    /\ stored = [f \in Files |-> <<>>]
    /\ created = {}
    /\ gap = [t \in Tasks |-> None]
    /\ acked = {} /\ late = {}
    /\ told = [f \in Files |-> 0]

-----------------------------------------------------------------------------
(* The table *)

prune_tftp_transfers == [k \in Keys |-> IF k \in stale THEN None ELSE active[k]]

Size(table) == Cardinality({k \in Keys : table[k] # None})

\* Mutant: the limit lets one more in.
tftp_transfer_limit_reached_mutant(table, k) == table[k] = None /\ Size(table) > MaxActive

tftp_transfer_limit_reached(table, k) == table[k] = None /\ Size(table) >= MaxActive

\* The table after a handler: k holds x and was active just now, or is as it was.
Put(k, x) ==
    /\ active' = [prune_tftp_transfers EXCEPT ![k] = x]
    /\ stale' = {} /\ late' = late \ (stale \cup {k})
KeepTable == active' = prune_tftp_transfers /\ stale' = {} /\ late' = late \ stale

\* A transfer nobody has touched for the timeout.
Expire(k) ==
    /\ active[k] # None
    /\ stale' = stale \cup {k}
    /\ UNCHANGED <<active, late, rooted, diskVars, gap, histVars>>

\* A malformed datagram, a request with options, or the arrival of any other.
Ignored ==
    /\ stale # {}
    /\ KeepTable
    /\ UNCHANGED <<rooted, diskVars, gap, histVars>>

-----------------------------------------------------------------------------
(* Reads *)

\* handle_read_request_block: a block shorter than TFTP_BLOCK_SIZE is the last.  The
\* file may change between two reads, but none larger than the limit is served.
MayBeShort(b) == {short \in BOOLEAN : b > FileBlocks => short}

NewReads(f, b) ==
    {[kind |-> "read", file |-> f, last_block_sent |-> b, complete |-> c] : c \in MayBeShort(b)}

\* The client has a transfer: a request for the same one is answered with its last
\* block, another with an error.
DuplicateRead(table, k) == table[k] # None

\* ReadRequest, under one lock.  Too many transfers or a file that cannot be read
\* are answered with an error.
read_request(k, f) ==
    LET table == prune_tftp_transfers
    IN  /\ \/ /\ ~DuplicateRead(table, k) /\ ~tftp_transfer_limit_reached(table, k)
              /\ \E x \in NewReads(f, 1) : Put(k, x)
           \/ /\ DuplicateRead(table, k) \/ tftp_transfer_limit_reached(table, k) \/ rooted
              /\ KeepTable
        /\ UNCHANGED <<rooted, diskVars, gap, histVars>>

\* Mutant: an acknowledgement of the block before the last one moves on.
ack_mutant(t, k, b) ==
    LET table == prune_tftp_transfers
        x     == table[k]
    IN  /\ gap[t] = None /\ x # None /\ x.kind = "read"
        /\ \/ b = x.last_block_sent /\ acked' = acked \cup {<<k, x.file, b>>}
           \/ wrapping_add(b) = x.last_block_sent /\ UNCHANGED acked
        /\ ~x.complete
        /\ KeepTable
        /\ gap' = [gap EXCEPT ![t] = [key |-> k, file |-> x.file, block |-> wrapping_add(x.last_block_sent)]]
        /\ UNCHANGED <<rooted, diskVars, told>>

\* Ack: next_tftp_read_action.  An ACK of anything else is ignored.
ack(t, k, b) ==
    LET table == prune_tftp_transfers
        x     == table[k]
    IN  /\ gap[t] = None /\ x # None /\ x.kind = "read"
        /\ \/ /\ b = x.last_block_sent /\ x.complete
              /\ Put(k, None)
              /\ acked' = acked \cup {<<k, x.file, b>>}
              /\ UNCHANGED gap
           \/ /\ b = x.last_block_sent /\ ~x.complete
              /\ KeepTable
              /\ gap' = [gap EXCEPT ![t] = [key |-> k, file |-> x.file, block |-> wrapping_add(b)]]
              /\ acked' = acked \cup {<<k, x.file, b>>}
           \/ /\ b # x.last_block_sent /\ wrapping_add(b) = x.last_block_sent
              /\ KeepTable
              /\ UNCHANGED <<gap, acked>>
        /\ UNCHANGED <<rooted, diskVars, told>>

\* The second half of SendNext: read the block, take the lock, remember_tftp_read_response.
\* Whatever k has in the table by now is replaced, or removed when the read fails.
send_next(t) ==
    LET g == gap[t]
    IN  /\ g # None
        /\ gap' = [gap EXCEPT ![t] = None]
        /\ \/ /\ \E x \in NewReads(g.file, g.block) : active' = [active EXCEPT ![g.key] = x]
              /\ late' = IF active[g.key] = None THEN late \cup {g.key} ELSE late
           \/ /\ rooted
              /\ active' = [active EXCEPT ![g.key] = None]
              /\ late' = late \ {g.key}
        /\ stale' = stale \ {g.key}
        /\ UNCHANGED <<rooted, diskVars, histVars>>

-----------------------------------------------------------------------------
(* Writes *)

NewWrite(f) ==
    [kind |-> "write", file |-> f, next_block_expected |-> 1, bytes_received |-> 0,
     last_ack |-> 0, complete |-> FALSE]

\* The server sends ACK b of an upload to f.
Tells(f, b) == told' = [told EXCEPT ![f] = IF rooted /\ b > @ THEN b ELSE @]

\* Mutant: an upload may go on in a file that exists (no create_new).
open_upload_file_mutant(f) == TRUE

\* create_new: the file must not exist.
open_upload_file(f) == rooted => f \notin created

\* The request for the upload under way, again.
DuplicateWrite(table, k, f) == table[k] # None /\ table[k].kind = "write" /\ table[k].file = f

\* WriteRequest, under one lock.
write_request(k, f) ==
    LET table == prune_tftp_transfers
    IN  /\ \/ /\ DuplicateWrite(table, k, f)
              /\ KeepTable /\ Tells(f, table[k].last_ack)
              /\ UNCHANGED created
           \/ /\ table[k] = None /\ ~tftp_transfer_limit_reached(table, k)
              /\ open_upload_file(f)
              /\ created' = IF rooted THEN created \cup {f} ELSE created
              /\ Put(k, NewWrite(f)) /\ Tells(f, 0)
           \/ \* an error: active, too many, or the file could not be opened
              /\ \/ table[k] # None /\ ~DuplicateWrite(table, k, f)
                 \/ tftp_transfer_limit_reached(table, k)
                 \/ table[k] = None /\ rooted
              /\ KeepTable /\ UNCHANGED <<created, told>>
        /\ UNCHANGED <<rooted, stored, gap, acked>>

\* Append to the file, if there is one.
Writes(x, k, b, what) ==
    stored' = IF rooted
              THEN [stored EXCEPT ![x.file] = Append(@, [block |-> b, from |-> k, len |-> what])]
              ELSE stored

Accepted(x, b, len) ==
    [x EXCEPT !.next_block_expected = wrapping_add(b), !.bytes_received = @ + len,
              !.last_ack = b, !.complete = (len = 0)]

\* Mutant: the block is acknowledged although it was not written.
StoreFails_mutant(x, k, b, len) ==
    \E what \in {"torn", "none"} :
        /\ rooted
        /\ IF what = "torn" THEN Writes(x, k, b, "torn") ELSE UNCHANGED stored
        /\ Put(k, Accepted(x, b, len)) /\ Tells(x.file, b)

\* write_all or flush fails; part of the block may be in the file.  The transfer ends.
StoreFails(x, k, b, len) ==
    \E what \in {"torn", "none"} :
        /\ rooted
        /\ IF what = "torn" THEN Writes(x, k, b, "torn") ELSE UNCHANGED stored
        /\ Put(k, None) /\ UNCHANGED told

Store(x, k, b, len) ==
    /\ Writes(x, k, b, IF len = 1 THEN "full" ELSE "short")
    /\ Put(k, Accepted(x, b, len))
    /\ Tells(x.file, b)

Expected(x, b) == ~x.complete /\ b = x.next_block_expected

\* Mutant: the limit is not checked.
Fits_mutant(x, len) == TRUE

\* An empty short block fits into a full upload; any other is one byte too much.
Fits(x, len) == x.bytes_received + len <= MaxUpload

\* Data: handle_tftp_write_data.  Block 0 and blocks that are too large do not parse.
\* A block that is neither expected nor the last one is answered with an error.
data(k, b, len) ==
    LET table == prune_tftp_transfers
        x     == table[k]
    IN  /\ b # 0 /\ x # None /\ x.kind = "write"
        /\ \/ /\ ~Expected(x, b) /\ wrapping_add(b) = x.next_block_expected
              /\ KeepTable /\ Tells(x.file, x.last_ack)
              /\ UNCHANGED stored
           \/ /\ Expected(x, b) /\ Fits(x, len)
              /\ Store(x, k, b, len) \/ StoreFails(x, k, b, len)
           \/ /\ Expected(x, b) /\ x.bytes_received = MaxUpload
              /\ Put(k, None)
              /\ UNCHANGED <<stored, told>>
        /\ UNCHANGED <<rooted, created, gap, acked>>

\* Error: the client ends the transfer.
error(k) ==
    /\ active[k] # None \/ stale # {}
    /\ Put(k, None)
    /\ UNCHANGED <<rooted, diskVars, gap, histVars>>

-----------------------------------------------------------------------------
TftpNext ==
    \/ Ignored
    \/ \E k \in Keys :
        \/ Expire(k) \/ error(k)
        \/ \E f \in Files : read_request(k, f) \/ write_request(k, f)
        \/ \E b \in Blocks : (\E t \in Tasks : ack(t, k, b)) \/ (\E len \in {0, 1} : data(k, b, len))
    \/ \E t \in Tasks : send_next(t)

TftpSpec == TftpInit /\ [][TftpNext]_tftpVars

-----------------------------------------------------------------------------
(* Properties *)

\* An upload file holds the blocks of one client, in order, without gaps and
\* duplicates, and nothing behind a short or torn block: retransmitted,
\* reordered and late DATA, aborted transfers and other clients that ask for
\* the same name cannot spoil it.
UploadInOrder ==
    \A f \in Files : \A i \in DOMAIN stored[f] :
        /\ stored[f][i].block = i
        /\ stored[f][i].from = stored[f][1].from
        /\ stored[f][i].len # "full" => i = Len(stored[f])

\* What the server acknowledged is in the file, whole.
AckedIsStored ==
    \A f \in Files :
        told[f] <= Cardinality({i \in DOMAIN stored[f] : stored[f][i].len # "torn"})

\* handler.rs "TFTP is lock-step: additional blocks must only be sent after
\* ACKs": the block last sent to a client, or about to be, is the first one or
\* follows one that it acknowledged; retransmissions and late tasks included.
LockStep ==
    LET Allowed(k, f, b) == b = 1 \/ <<k, f, b - 1>> \in acked
    IN  /\ \A k \in Keys : active[k] # None /\ active[k].kind = "read" =>
              Allowed(k, active[k].file, active[k].last_block_sent)
        /\ \A t \in Tasks : gap[t] # None => Allowed(gap[t].key, gap[t].file, gap[t].block)

\* The limit on transfers holds but for those that a late ACK has put back.
TransferLimit ==
    Cardinality({k \in Keys : active[k] # None} \ late) <= MaxActive

\* What a TFTP client is told is what happened: an upload is stored in order
\* and once (UploadInOrder), an acknowledged block is stored (AckedIsStored), a
\* block follows the acknowledgement of its predecessor (LockStep), and new
\* transfers stop at the limit (TransferLimit; the TFTP handlers between their
\* locks).
TransfersFaithful == TftpTypeOK /\ UploadInOrder /\ AckedIsStored /\ LockStep /\ TransferLimit
=============================================================================
