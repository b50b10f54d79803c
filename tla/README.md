# NetTrap: a TLA+ verification project

NetTrap is a network simulator for malware analysis written in Rust: it accepts
the traffic of a sample, answers it with simulated services, and records what
it saw.  This directory holds TLA+ models of it, the TLC configurations that
check them on small instances, and TLAPS proofs about fourteen of them.  Paths below
are relative to `src/`; `crates/` holds all the code.

## 1. The system

| Part | State | Operations | Hard behaviour |
|---|---|---|---|
| Runtime health registry (`nettrap-engine/src/health.rs`) | status and message of every subsystem, latches, counters | setters, `update_nbi_collector`, `compute_status` | many reporters; old snapshots applied late |
| NBI collector: health reports (`nettrap-cli/src/nbi/health.rs`) | loss counters, registry handle | count, snapshot, report; `attach_runtime_health` | a report is five steps, none under a common lock |
| HTTP, TCP and syslog sinks (`nettrap-distributed/src/sinks.rs`) | batch, `flushing`, three id sets; a connection | `send`, `flush`, `flush_stale`, `drop_buffered_events`, `take_unknown_event_ids` | locks released around requests; aborted tasks; writes that time out half way |
| Fanout (`nettrap-distributed/src/fanout.rs`) | a tracker per undecided event | `send`, `flush_all`, `note_*`, `drop_*`, `mark_inflight_unknown`, `consume_unknown_sink_events` | several sinks, partial failure, stale samples |
| Event bus (`nettrap-events/src/bus.rs`) | subscribers, handlers, counters | `publish`, `emit`, `subscribe`, `process` | subscriptions that come and go while it sends |
| Export pipeline (`nettrap-cli/src/nbi.rs`, `nbi/`) | bounded channel, worker handle, depth and loss counters | `enqueue_export_record`, worker loop, supervisor, flush and shutdown | worker panics and restarts, timeouts, full channel, shutdown |
| Local NBI pipeline and storage (`nbi/worker_ctl.rs`, `nettrap-storage/`, `engine/shutdown/event_resolution.rs`) | JSONL file, database rows | persist, load, resolve, repair, migrate | torn lines, two writers, a crash, sources that disagree |
| Flow table (`nettrap-flow/src/manager.rs`) | `flows`, `flow_index`, `flow_order`, `recent_flows`, `stats` | `get_or_create`, `update`, `remove`, expiry, eviction, `clear` | five structures with locks of their own |
| Session tracker and destination table (`nettrap-cli/src/session.rs`, `port_forward.rs`) | sessions; a queue of original destinations per flow | register, update, remove, cleanup; note and take | positional pairing, expiry, port reuse |
| Listeners (`nettrap-cli/src/listeners/`, `listener_context/`) | connection slots, UDP permits | accept and receive loops, tasks of connections and datagrams | interleaving with interceptor and cleanup, panics, limits |
| TCP connections (`listeners/tcp_handler/`, `tcp_framing.rs`, `tcp_dispatch.rs`) | input buffer, protocol state, totals | read, frame, dispatch, answer, close | any segmentation, pipelining, failing writes, upgrades |
| Services (`nettrap-proto-*/`, `listeners/tcp_ftp.rs`, `udp_tftp.rs`) | per connection; FTP permits, TFTP transfers, DNS counter | a handler per message | order of commands, two parsers of the same bytes, shared counters |
| Protocol router (`nettrap-proxy/`) | none | tasters and their scores | must agree with handlers written apart |
| Policy and filters (`nettrap-engine/src/policy.rs`, `host_filter.rs`, `process_filter.rs`) | none | match, resolve | overlapping rules |
| Interception (`nettrap-interceptor/`) | redirect table; firewall rules; forwarding | rewrite, install, remove, recover | refused commands, crashes, eviction, a shutdown that waits for a receive |
| Capture and replay (`nettrap-pcap/`, `engine/replay.rs`) | file, flows | write, read, group, derive | limits in the middle of a flow, torn records |
| Runtime lifecycle (`nettrap-engine/src/runtime.rs`, `nettrap-cli/src/engine/`) | phases, tasks, what was changed on the host | start-up, wait, shutdown | failure of any phase or task, two failures at once |
| Probes, heartbeat, host commands (`nettrap-distributed/src/probe.rs`, `lib.rs`, `windows_setup.rs`, `mkcert.rs`) | failures in a row; pipes | accept, answer, beat; run a command | silent clients, a child that hangs or floods its pipes |
| Attribution, TLS, IOC extraction, configuration, HTTP API | mostly none | | operating system tables and formats |

**Interactions.**  The interceptor redirects traffic to the listeners and writes
original destinations to a table from which they take them.  A listener creates
sessions and flows (a cleanup task expires both), asks the policy, and starts a
task per connection or datagram.  The task cuts its input into frames, asks the
router where the listener has no protocol of its own, gives each frame to a
handler, writes the answers, the capture and the log, and calls
`NbiCollector::record` for each event.  `record` hands the event to two bounded
channels, of the local worker (file and database) and of the export worker.
The export worker gives it to the fanout, the fanout to every sink; a batching
sink keeps it until a flush.  The supervisor restarts bookkeeping after a worker
died and flushes stale batches every 250 ms.  All tasks report to the health
registry, which probes and the HTTP API show; a task that ends makes the runtime
stop, flush, resolve file and database, write the reports and restore the host.

**What makes the parts correct.**
* Health: a loss that was counted is shown, and is not masked by later successes.
* Sinks, fanout, bus: an accepted event is delivered, held, reported or dropped
  on request; never sent twice, never resurrected, never lost without a count.
* Pipeline: the counters cover every loss; a shutdown ends and leaves nothing.
* Storage: reports hold what could be read, and a missing event is noticed.
* Flow table: bounded, balanced counters, no flow overwritten or unreachable.
* Listeners: a connection sees its own destination; nothing of it stays; limits
  are exact; bytes, commands and NXDOMAIN answers are counted exactly.
* Connections: the outcome does not depend on segmentation; replies come in
  protocol order; what was acknowledged was stored.
* Router: detection agrees with the handlers.
* Interception: rules are all there or all gone; replies bear the address the
  client contacted; active flows are kept.
* Lifecycle: a run ends, returns the failure that ended it, and leaves nothing.

`PROJECT.json` lists every component, the lines every definition models, and
under `hazards` the places where these can go wrong.

## 2. The modules

| Module | Models | Uses |
|---|---|---|
| `RuntimeHealth` | the registry: its record and one operator per setter | |
| `HealthReporting` | the reporting tasks around it | `RuntimeHealth` |
| `SinkContract` | abstract: what a buffering sink promises | |
| `HttpSink` | the batching sink | instance of `SinkContract` |
| `HttpSink_proofs` | TLAPS proofs | `HttpSink` |
| `DeliveryTracker` | the fanout's per-event trackers, as operators | |
| `EventFanout` | the fanout's methods, opened up at their lock boundaries | `DeliveryTracker` |
| `EventFanout_proofs` | TLAPS proofs | `EventFanout` |
| `ExportPipeline` | producers, worker, supervisor, shutdown | `DeliveryTracker` |
| `FlowManager` | the flow table | |
| `FlowManager_proofs` | TLAPS proofs | `FlowManager` |
| `ListenerSessions` | sessions and destination queues, as operators; listeners, interceptor, cleanup | |
| `ListenerSessions_proofs` | TLAPS proofs | `ListenerSessions` |
| `Tftp` | the TFTP transfer table and its handlers | |
| `Tftp_proofs` | TLAPS proofs | `Tftp`, `Ftp`, `UdpListener` |
| `StreamSinks` | TCP and syslog sinks | instance of `SinkContract` |
| `EventBus` | the in-process bus | |
| `EventDelivery_proofs` | TLAPS proofs | `StreamSinks`, `EventBus`, `HealthReporting`, `ExportPipeline` |
| `TcpFraming` | cutting a stream into frames, the symbols of a stream, shared argument checks | |
| `LineServices` | SMTP, POP3, IMAP, IRC, telnet, finger, ident | `TcpFraming` |
| `Redis`, `Http`, `BinaryServices` | the handlers of these services; in the last one LDAP, SOCKS, SSH, SMB, RDP, NKN, MySQL, PostgreSQL, memcached and MQTT | `TcpFraming` |
| `Dns` | the DNS handler, of both transports | |
| `Taste` | the tasters of the router and the choice between them | the services |
| `TcpSession` | a frame to its handler, which frames end a session; one connection: client, reads, frame loop, writes, end | `Taste`, `LineServices`, `Dns` |
| `UdpServices` | handlers and tasters of datagram services | `Dns` |
| `UdpListener` | flow policy, host and process filter, the command of a session; the receive loop and the tasks of datagrams | `UdpServices` |
| `Ftp` | FTP commands and data connections | |
| `Packets` | the four parsers of frames and the encoder | |
| `Capture` | the capture file and its replay | `Packets` |
| `WinDivert` | the packet rewriter, its flow table and its shutdown; the libpcap interceptor | `Packets` |
| `WinDivert_proofs` | TLAPS proofs | `WinDivert` |
| `Nfqueue` | firewall rules and forwarding | |
| `Lifecycle` | a run from start to end | `RuntimeHealth` |
| `Storage` | file, database, resolution, repair, migration | |
| `NodeServices` | probe servers and heartbeat; a command of the host with its limits | |
| `Runtime_proofs` | TLAPS proofs | `Lifecycle`, `NodeServices` |
| `MCHttpSink`, `MCExportPipeline`, `MCFlowManager`, `MCListenerSessions`, `MCEventFanout`, `MCServices`, `MCTransfers`, `MCPlatform` | instances for TLC | see section 3 |

An operator whose name is that of another one with a suffix (`Kept` and
`KeptForgotten_mutant`, `accept` and `accept_counts`) and that stands before it
is that definition with one plausible mistake.  Put in its place it makes the
property about it fail; for each property of a run `PROJECT.json` lists one, and
the others are there for the parts of which the properties of section 3 are
made.  `map` in `PROJECT.json` names the definitions that carry the code; a
helper or a short step that is used by one of them only goes with it.

### RuntimeHealth and HealthReporting

`RuntimeHealth` translates each setter to an operator from registry to
registry (each takes the registry's lock once, so it is one step).  Messages
are abstracted to whether there is one, counters are capped at `MaxCount`, and
`compute_status` is kept.  In `HealthReporting` a reporter has a *script*
(`todo`) of the steps its report still has to take: bump the atomic counter,
look at the registry handle, read the counters into a snapshot, apply the
snapshot, call the setter.  Any other reporter may run between two of them.
Attaching the registry (`attach_runtime_health`) and the database
(`attach_database`) are actions of the same kind.

### HttpSink and SinkContract

The state lock of the sink is `holder` where a critical section has several
visible steps (`pending_sequences`, `unknown_event_ids` and
`unknown_event_sequences` have locks of their own and are read without it), and
the atomicity of one action elsewhere.  `send` is `SendLost`, `SendPush`, a
flush when it is due, `CheckPending` and `CheckUnknown`.  `flush_due_to` is
`FlushBegin` (copy under the lock, set `flushing`), one `send_batch` step per
request without the lock, and `Reconcile1` to `Reconcile3`.  A request is
accepted, refused, or of unknown fate (and then the server may or may not have
it).  `Cancel` is `JoinHandle::abort` at the await of a request.  A drop may name
any ids, as the fanout passes those of all its trackers: it takes them out of
the batch (`Drop1`) and, still under the state lock, out of `unknown_event_ids`
(`Drop2`).  An event is
sent to a sink once, as `NbiCollector::record` makes a new id for each one.
The order inside the batch, payloads and times are abstracted; whether the
batch is stale is a free choice.

`SinkContract` says what the fanout relies on: an event is refused or held, and
a held one leaves for one reason and for good; one of unknown fate may still be
dropped.  `ContractSpec` states that the
sink implements it under the mapping `StatusOf`.

### DeliveryTracker and EventFanout

`DeliveryTracker` has the record `PendingEventDelivery` (queued, in flight,
buffered, unknown, delivered and lost marks) and the functions that change it
under the `pending_records` lock, as operators over `[Events -> Tracker]`.
`EventFanout` runs the methods of several callers over it: a producer may queue
an event twice (`MaxTries`, the retry of `enqueue_export_record`), the worker
sends to one sink after the other, a flusher flushes, samples the buffers,
consumes unknown ids and refreshes, and a dropper discards what a stopped
worker left.  The ids the sinks hold are sampled *before* the trackers are
locked, so the sample in use may be old.  A dropper starts when the worker has
stopped, as in `finalize_distributed_shutdown`; the reconciliation beside a worker
that lives on, after a flush that timed out, is `NotAcknowledged` of
`ExportPipeline`.

### ExportPipeline

One action per step between awaits or atomics: making sure that a worker runs
(`ensure_export_worker_started`, which may hold the handle lock while it
reconciles), `note_queued_record`, the depth counter, `try_send`, taking back
and retrying.  The worker receives, decrements, sends, flushes, stops; it may
panic while it sends or flushes (`MaxCrashes`).  The shutdown code is a
sequence of positions (`pc[Ctl]`): flush, flush again, ask to stop, abort when
the answer does not come, join, count what is left.  `queued` wraps at
`UsizeModulus` as an `AtomicUsize` does.  The fanout's methods are atomic here
and there is one buffering sink: `EventFanout` is about what is inside them.

### FlowManager

Each of `flows`, `flow_index`, `flow_order`, `recent_flows` and `stats` changes
in a step of its own; `insert_lock` is held by creation and `clear`, never by a
removal.  A removal is a subroutine (`sweep` .. `uncount`) with the label it
returns to, because expiry, eviction and `remove` share it.  A flow is its id
and `updated_at`; traffic counters and the hit and miss statistics are left
out.

### ListenerSessions

The module begins with the tables of `session.rs` and `port_forward.rs` and the
operators on them: the age limit, the capacity and its eviction, the per flow
queues of destinations.  Connections and datagrams run
through them: the interceptor sees the SYN and later packets and notes the
destination, the loop takes it, registers session and flow, starts a task, and
the task ends by removing what it registered.  The senders, their destinations
and the hosts refused are chosen in `Init`.  The flow table is the set of keys
that have a flow.  Where the server ends a connection its FIN may or may not have
been seen by the interceptor before the destination is cleared (`ServerCloses`):
if not, it is noted again.

### Tftp

`active` is the table of `TftpTransferState`; `stale` are the entries older than
the timeout, which every handler prunes; `stored` and `created` are the upload
files.  Any client may send any packet at any time, which covers loss,
duplication and reordering by the network and by the tasks.  Every handler is
one action, since it holds the lock throughout, except the ACK: `ack` decides
under the lock, the file is read without it, and `send_next` takes it again;
`gap` holds the tasks in between.  A file may change between two reads, so each
block within the limit may be the last one.

### StreamSinks and EventBus

A send of `StreamSinks` connects (or finds its connection), writes and flushes
under the lock of the connection; each may fail or time out, and the task may be
aborted at each await.  What reached the stream is kept as lines, whole or torn,
and the answer of the send is compared with it.  `TcpContract` is the refinement
of `SinkContract` with a sink that buffers nothing.  In `EventBus` a publish
takes its snapshot, then sends to one subscriber after the other without a lock
and adds to the counters under a second one; handlers are a part of their own.

### Connections and services

A stream is a sequence of *symbols*: a word of a line with the class of its
argument, a line end, a fixed header with the length it declares, a unit of a
body.  What a rule compares is a field of the symbol (or of `Body`, for a
message with fields of its own); the text is left out.  Limits are counted in
symbols.  `TcpSession` holds the client (packets it may still send), what the
network has of them, the buffer, the state of the handlers, what was written
(`out`), the totals and the mail directory.  A read takes any non-empty part of
what has arrived, so that one packet sequence is run through every segmentation.
Every service has its state record and an operator per handler function, which
returns the new state and the kinds of its replies.  The tasters of `Taste`
parse the same symbols with the rules of `nettrap-proxy`.

`UdpListener` starts at `recv_from`: session, semaphore, task, process filter,
policy, detection or explicit service, answer or forwarding, byte update,
command.  An address is a host and whether it arrived mapped into IPv6: sessions
and the host filter take it out of these clothes, the policy compares the text as
it is.  The DNS handler with its counter is shared by the tasks.

`Ftp` has two control connections.  A command changes `FtpPassiveState` field by
field; a transfer waits for its data connection with a timeout while the other
control connection goes on.  `asked` and `written` keep commands and replies
for the order of the answers.

### Below and around the listeners

`Packets` keeps of a frame the lengths and fields its four parsers compare.
`WinDivert` runs the receiving thread with the lock it holds during a receive,
the redirect table (two maps and an expiry queue), pruning, compaction, eviction
and `shutdown`.  A compaction rebuilds the queue from a `HashMap` and sorts by
time alone, so entries of equal time may come in any order: `compact_expiry` is
the set of the queues it may leave.  `Nfqueue` is a list of firewall commands per phase; each may
succeed, be refused, or time out having acted or not, and the process may die
between two and start again, in the same mode and with the same tool or others,
with what it left; `orig` remembers the forwarding from before the first run.
`Capture` writes the messages of
a run, closes, reads back, groups with the five limits and derives events.
`Lifecycle` has the phases of `RuntimeRunner::run` in order; each may fail.
While the run waits tasks end, panic or report, a stop may be asked for, and the
shutdown steps follow in their order; `host` is what was changed outside the
process.  The flush, the reports and the closing of the capture may fail, which
goes to the log (`log.noted`) and stops nothing.  When a listener is gone its
connection tasks are aborted but not awaited: `stray` is that one of them is not
yet there, and what it records after the flush is `log.late`.  With a late record
`finalize_distributed_shutdown` may wait for ever (`finalize_waits`), as the run
`export_hang` shows in detail.  `Storage` has the file as a text of tokens, the rows, the worker
between its two writes, `log_event`, resolution, repair (which writes a file of
its own and replaces the old one, or fails and is only logged), a crash with
restart, and the migration of old tables.

### Services for operators, and commands

`NodeServices` counts failures in a row of a probe server and of a heartbeat and
lets clients stay silent.  Its second half has the child of a bounded command,
two pipes, two reader threads and the polling caller, whose system calls may
fail.

## 3. The runs

The parts of the system that share no state are put together in one run: the
variable `part`, chosen in `Init`, says which of them moves, and the others stay
in one idle state.  A property of such a run is a conjunction of named
properties of the parts; each of these has its comment in the module of the
part, and each was seen to fail with one definition of the code changed.

Runs that must hold:

| Run | Bound | Properties |
|---|---|---|
| `http_sink` | 3 events, batch and buffer of 2, a worker and a supervisor, aborts, drops of any ids | `TypeOK`; `AtMostOnce`: the server takes no event twice; `DroppedStaysOut`: an event dropped from the batch never comes back; `ContractSpec`: the sink implements `SinkContract`; `MCBatchDrains`: with fair tasks and a server that accepts in the end each buffered event leaves the batch, unless an abort has locked the sink. |
| `export_pipeline` | 2 events, channel of 1, one panic, timeouts; 2 reporters, counters to 1 | `NoSilentLoss`: the counters cover every loss; `StopsClean` (`CleanStop`: after the shutdown no worker, command or record is left; with the types); `ShutdownCompletes`; `ExportLossVisible`: an export loss counted at any time is latched and shown once no report is under way; `NbiLossNotMasked`. |
| `flow_manager` | 3 keys, 2 callers, 2 flows, 3 ids, clock to 1 | `IndexesAgree` (`StatsBalance`, `FlowIsReachable`), `CapacityRespected`, `NoOverwrite`, `SweepSparesLive`. |
| `listener_sessions` | 2 connections and a datagram from one peer, two destinations, limits of 1; TFTP: 2 clients, one file, 2 ACK tasks, one transfer, 2 full blocks | `TcpDestinationIsOwn`, `NothingLeftBehind`, `SlotsKept` (`SlotsExact`), `TransfersFaithful` (`UploadInOrder`, `AckedIsStored`, `LockStep`, `TransferLimit`). |
| `fanout` | 2 events, a batching and a direct sink, interrupted workers; 4 lines to a stream sink, one too long; bus: 2 publishers, 2 subscriptions, channel of 1 | `EventsKept` (`NothingVanishes`), `FinalLossIsReal`, `LinesTruthful` (`LostNeverLeft`, `DeliveredWhole`), `TcpContract`, `BusTruthful` (`BusAccounted`, `BlockingReaches`, `CountsExact`). |
| `services` | for each service up to 3 of its client's packets, well formed and not, every segmentation, every write may fail; size limits that some of the conversations exceed | `SegmentationIndependent`: what is answered is what the same bytes in one read are answered, but for the two limits that look at the buffer; `BytesAccounted`; `ConversationInOrder` (`NothingAfterGoodbye`, `QueuedIsSaved`, `HandshakeFirst`, `TrackingConsistent`); `RequestsUnderstood` (`HttpFramesParse`, `WebrootContained`, `DetectionAgrees`); `NodeTruthful` (`ServicesEndForCause`, `ReadyTruthful`, `OutputExact`); `CallsEnd` (`MCProbesEnd`, `MCCommandEnds`). |
| `transfers` | up to 3 datagrams from 3 hosts, plain and mapped, to two ports, 2 tasks and 2 commands at once, 3 listeners; FTP: 2 clients, batches of 2 commands, one permit | `DatagramsAccounted` (`NxdomainsExact`, `CountedOnce`, `CommandOncePerSession`, `PolicyContains`), `DatagramsUnderstood` (`UdpDetectionAgrees`, `SnmpReplyParses`, `SyslogInRange`), `FtpInOrder` (`DataSocketExact`, `PermitsExact`, `AnswersInOrder`), `WorkEnds` (`TasksEnd`, `PermitsReturn`). |
| `platform` | table of 2 flows, 4 packets, clock to 3; 2 runs of the firewall, of any two configurations, with 2 faults; captures of a few messages with limits below them; 6 plans of a run with 2 events and 2 faults; 3 stored events in 2 epochs with 2 faults, at most 2 reported and 7 units read, all old tables | `FlowTableSound` (`TablesAgree`, `ExpiryCovers`, `ReplyComesFromContacted`), `ActiveFlowsKept`, `CaptureFaithful` (`ParsersAgree`, `ChecksumsVerify`, `CaptureRoundTrips`, `FlowsWhole`, `EveryFlowReported`, `LocalClientIsOpener`), `FirewallExact` (`InstallExact`, `NothingInstalled`, `ForwardingRestored`, `RedirectsReachListeners`), `RunLeavesNothing` (`NothingLeft`, `StatusTruthful`, `FailureReturned`), `StorageFaithful` (`ReportsComplete`, `LossSignalled`, `RepairFaithful`, `SchemaUsable`), `StopsEnd` (`MCShutdownEnds`, `MCStopEnds`). |

Runs that refute what the code or its documentation says (`findings` in
`PROJECT.json` quotes the lines):

| Run | What TLC finds |
|---|---|
| `http_sink_cancel` | A worker aborted while it waits for a response leaves `flushing` set. No later flush of this sink sends anything, and the final flush of the shutdown returns Ok. |
| `fanout_unknown` | `flush_all` consumes the unknown ids and drops their number; its caller consumes again and counts nothing. |
| `export_hang` | A record that is still on its way when the shutdown begins finds the worker stopped and starts a new one. The shutdown takes and joins that one, which nobody told to stop. |
| `listener_udp_loss` | A datagram lost at the socket after its destination was queued shifts every later datagram of the flow by one destination. |

**Why the bounds are enough.**  Each run is small, but the interesting cases
happen: the batch and the buffer fill with two of three events; the channel is
full with one; the table is full with two of three keys, so that creation evicts
while another caller removes, and a key is created again with a new id; the
single connection slot is taken while a second connection with the same source
port arrives; the session table overflows; a second TFTP client finds the table
full, and two ACKs of one client are under way at once.  Two actors are enough
for the races found in this code, all of which are between one task that has
released a lock and one other.  The bound `MaxTime` of 1 with a timeout of 1
lets a flow or a session expire and still be touched; more clock steps only add
states in which the ages differ by more.  `UsizeModulus` 8 exceeds the depth two
events and one crash can build up, so that a wrapped counter is told from a real
one.  `BlockModulus` exceeds every block number a transfer of the bounded length
can reach, as 2^16 exceeds the 16384 blocks of the 8 MiB limits.  `MaxTries` is 1
in `fanout` (2 in the code) to keep two events within reach, and 2 in
`fanout_unknown`.  In `MCHttpSink` events are numbered and first sent in the
order of their numbers, which only removes renamings; a drop that changes nothing
(`IdleDrop`) is left out, as is the third event after a second drop or after the
fanout took unknown ids; and liveness (`fair`) is
about the behaviours with `Few` events.  In `services` the packets of a service
are chosen so that every branch of its handler is taken; three of them in a row
are a handshake, a command and something pipelined behind it, and the frame
limits lie between the sizes of the shortest and the longest of them, so that two
pipelined Redis commands and a chunked or header-only HTTP request exceed theirs.
In `transfers` three new sessions meet a limit of two commands; where there are at
most two datagrams the limit is not reached and the count must be exact.  In
`platform` the redirect table and its queue overflow within four packets, the
replay limits lie below the captures, and two faults are one that interrupts and
one that meets the cleanup.

**Assumptions in the constants.**
* `KernelKnows = FALSE`: the socket does not know the original destination
  (the case for which the table exists).  With it TRUE the table is not asked.
* `PromptAccept = TRUE`: a connection is taken from the accept queue before its
  client's source port is used again.  Without it TLC finds the first
  connection taking the second one's destination: the table has one queue per
  flow key and cannot tell them apart.
* `SocketLoses`: the kernel may drop a datagram of a full socket buffer.
* `LateRecords`: connection tasks may be inside `record` when the shutdown
  starts.  `export_pipeline` has it FALSE (the listeners are stopped first),
  `export_hang` TRUE (a task the listener spawned may still run).
* `AllowTimeout`: an operation may take longer than
  `NBI_EXPORT_OPERATION_TIMEOUT_MS`.

Deadlock checking is off where the system may stop: when all events of the
bounded instance have been used, or the program has shut down.

**Fairness.**  A task inside a call goes on: the runtime polls it, and each of
its waits has a timeout in the code.  Nothing is assumed of clients, peers,
children, faults or stop requests.
* `HttpSink!Fairness`: besides, flushes are started again and again (the
  supervisor ticks every 250 ms), and a server offered a copy infinitely often
  takes it (the property is about a server that works in the end); and the tasks
  do not for ever drop ids that the sink does not have (`IdleDrop`), since drops
  come from shutdowns and dead workers only.
* `ExportPipeline!Fairness`: worker, shutdown code, reconciliation and a
  producer inside `record` go on.  It is not assumed that producers record, that
  the supervisor ticks, that the worker panics or does not, or that a timeout
  fires.
* `MCServices`: the steps of a probe connection, its timeouts among them; the
  reader threads, the polling and the join of a command.
* `MCTransfers`: the tasks of datagrams and the steps of a data connection,
  timeouts included.
* `MCPlatform`: a receive fails once its device is closed, the shutdown steps
  are taken, and the lock is handed over if it is free again and again (strong
  fairness, of a fair mutex); the runner of a run takes its next step.  The wait
  of a shutdown for an export worker that nobody stops (`finalize_waits`) is no
  step of the runner, and nothing is assumed to end it: `StopEnds` says that a run
  asked to stop ends, or waits there with a late record.

## 4. The proofs

The theorems hold for all values of the constants (sets of events, tasks, keys,
sinks, publishers, connections, clients and packets; limits, timeouts, batch
sizes) that satisfy the named assumptions beside the declarations:
`SinkAssumption`, `FlowAssumption`, `FanoutAssumption`, `BusAssumption`,
`TrackerAssumption`, `ListenerAssumption`, `TftpAssumption`, `FtpAssumption`,
`UdpAssumption`, `DivertAssumption`,
`PlanAssumption`, `NodeAssumption`, `CommandAssumption`, `ReportingAssumption`,
`MaxCountAssumption` and `PipelineAssumption`.  They say that sets are finite where the code counts them,
that limits are numbers in the range the code's constants have, and that a plan
is a record of the options of a run.  `PipelineAssumption` also says what the model
of the export pipeline is of: one sink, task names that are no commands, and a
depth counter that does not wrap for having counted every event once.  TLC
evaluates each of them in the run of its module.  Three theorems have a hypothesis
of their own (section 3): `PromptAccept` for `OwnDestination`, and `~LateRecords` for
`NoLossIsSilent` and `ShutdownLeavesNothing`.

In each proof one invariant is shown to hold at first and to be kept by every
action, with one lemma per action; the property follows from it.  What follows
is what has to be added to the property, and why.

**`HttpSink_proofs`** (`TypeCorrect`, `ServerTakesAtMostOnce`, `DropIsFinal`,
`NothingVanishes`, `ImplementsContract`).
"The server takes an event once" is not inductive: nothing in it says that
what will be posted was not yet taken.  `IInv` adds the argument.  `Exclusion`:
a posting task has set `flushing`, so there is one.  `UntakenCopies`: a copy
still to be posted or to be put back was not taken, and while nobody flushes
this is true of the whole batch; after an abort `flushing` stays set, so the
batch, which may then hold a taken event, is never posted again.
`OneEntryPerEvent` and `UnseenIsNowhere` make sure that a push brings no second
entry of an event.  That a drop is final needs `Kept` to intersect the refused
copies with the batch of the moment.  The refinement of `SinkContract` needs
more: an event may leave the batch in one step and be written to the set that
explains it in another, under another lock.  `Custody` says who still has to
write it, so that `StatusOf` is always one of the contract's and changes only
the way the contract allows.  A drop of an event of unknown fate takes the only
record of it; that it is then counted as dropped, and that nothing else is, needs
that an event of unknown fate is nowhere else (`UnknownIsOut`).

**`EventDelivery_proofs`** (`LinesAreTruthful`, `TcpImplementsContract`,
`BusIsTruthful`, `LossIsVisible`, `LocalLossStays`, `NoLossIsSilent`,
`ShutdownLeavesNothing`).  For a stream sink `SinkInv` follows the bytes: nothing of an
event left before its write and nothing left twice (`WrittenOnce`), what was
answered Delivered is on a stream (`DeliveredThere`), and a stream with a torn
line is not written to again (`TornLast`).  For the bus the counters lag behind
the sends, and a subscription may leave or arrive between the snapshot and the
send; `BusInv` has the sums that balance at every moment, with what each
publisher has done and not yet counted (`ChannelTally`, `PublisherTally`,
`BusTally`), and whom a blocking publish still owes the event (`Owing`).  For the
reports to the health registry `ReportInv` names, while a counted export loss is
not latched, the task that is still going to latch it (`LossComing`): the one that
counted it, or the one that has published the handle and has yet to look back
(`seed`) or to decide on what it saw.  `Ordered` is why there is one: in
`attach_runtime_health` the look back comes after the handle.  The other half is
`LocalOnly`: `set_nbi_pipeline_disabled` is pending only where there is no local
target, and a local loss needs one, so the only setter that clears the latch meets
none.  That argument uses that the database is attached during startup, before
anything is recorded (the guard of `attach_database`).

In the export pipeline the depth counter, the trackers and the channel are three
views of one backlog, and a restart of the worker reads and clears them one after
the other.  That the counters cover the losses at the end says nothing of the
moments between.  `PipelineInv` speaks of those.  `Producers` and `Worker`: where an event can be
while its producer and the worker stand at each of their steps (an event not yet
sent is nowhere, and it is once in the channel or with the worker).  `Trackers`:
what a tracker says is true, so that one which says "delivered" or "in flight" is
about an event that arrived or is being sent.  `LossesCounted`: the events that are gone
without having arrived, those whose tracker is away or has reported the unknown
outcome, are at most the three counters and what the reconciliations under way have
found and not yet added (`Pool`).  The depth counter itself appears nowhere in that
sum: it may be too high or have wrapped, which only adds to `dropped`, and the
proof needs the trackers alone.  `Stages` and `Locks` follow `execute_shutdown`: past
the join no worker runs and none can be started, past the last drop no tracker is
left.  Both use that the producers are done when it begins (`~LateRecords`); with
a late one `export_hang` shows the join that never ends.

**`EventFanout_proofs`** (`FanoutBookkeeping`, `NoEventVanishes`,
`WorkerLossIsReal`).  Four parties know something of an event: its tracker, the
sinks, the samples of the flusher, and the worker that sends it.  `FanoutInv`
says that what they know fits together (`Knowledge`), even when a sample is
older than the tracker; that somebody answers for every event a worker took
(`Kept`); and how often it can be counted (`LossBound`).  `FanoutBookkeeping` is
about every interleaving of the methods.

**`FlowManager_proofs`** (`Capacity`, `FlowsAreNotReplaced`, `SweepsAreSafe`,
`ContainersAgree`).
Creation looks twice, makes room and inserts in separate steps, and removals do
not take its lock.  `IInv` says for each caller that it holds `insert_lock`
from its second look to its insert (`Mutex`), that its key is free, or has an
expired flow which it is about to remove and which nobody can refresh
(`KeyFree`), and that there is room at the insert (`Room`): others can only make
more of it.  `Spares` states what a step of one caller may do to the others,
and `OthersInv` proves once that it keeps their part of `IInv`.  Then each
action is looked at for its own caller only.
That the containers agree when all callers are done is a statement about what
they owe before: `TableInv` says for every id in `flows`, `flow_index`,
`flow_order` and `recent_flows` that the others have it too, or which caller is
on its way to add it or take it away, and that the counters differ from the
table by the callers that have not counted yet.

**`ListenerSessions_proofs`** (`Bookkeeping`, `SlotsAreExact`, `NoResidue`,
`OwnDestination`).  `LInv` ties the counters to the tasks that hold their guards.
`Owned` says of every session and flow whose task will remove it or has
panicked.  `DestInv` is the pairing argument: of two connections from one
source port one is past taking its destination (`SoleUser`, from
`PromptAccept`), so what is queued for the other is its own (`QueueIsOwn`).
The proof attempt corrected the property: `TcpDestinationIsOwn` spoke of every
connection, but one that was addressed to the listener itself, and so never
noted, can be given what a panicked task of its port left in the queue.  It is
now about redirected connections, and the exception is listed in section 5.

**`Tftp_proofs`** (`TransfersAreFaithful`, `FtpIsInOrder`, `DatagramsAreAccounted`).
For TFTP, an ACK task works on a file without
the lock and puts its transfer back whatever happened meanwhile.  `TInv`
therefore speaks of the table and of what is in the `gap` alike: an upload is
never put back (only downloads are), a file has one writer (`create_new`), the
blocks of a file up to the acknowledged one are whole, and no download can be
sent a block whose predecessor was not acknowledged.
For FTP the permits are counted over the clients: `FtpInv` has `PermitsExact` and
`DataSocketExact` for every state of a connection, so that a path that gives a
permit back (a timeout, a failed accept, QUIT, a broken connection) cannot give
it back twice.  That the answers are in order is not inductive, as the replies of a
read are collected and a 150 is written before them.  `Numbered` says it of both:
the replies written and collected are the final answers to exactly the commands
handled so far, in their order, and at most the 150 of the next; after QUIT what
came with it in the same read is forgotten.
For the UDP listener `CountedOnce` and `CommandOncePerSession` speak of the moment
when no task runs; `Counting` and `Firing` of `UdpInv` say it at every moment, of the
sets of datagrams a total stands for.  That a command slot is free when there are as
many slots as datagrams needs the commands running to be no more than the
datagrams that have ended (`Ended`).  `Queries` ties the DNS counter to the answers
given, so no handler but that of DNS may answer what a DNS query is answered: the
proof goes through every service and, for the detected ones, shows that the router
chooses one of them (`BestIsAHandler`).  `Contained` is the argument for the policy:
the rule that decides is the first that matches, and the process noted for a
session may change between the datagram's filter and its decision.

**`WinDivert_proofs`** (`DivertInvariance`, `FlowTableIsSound`,
`ActiveFlowsAreKept`).  `TablesAgree` says of each flow that the reverse map has
its listener side.  To survive an eviction it has to be said both ways: two
flows never share a reverse key (`MapsInverse`), else removing one takes the
other's reply address.  `CoveredAfter` follows the queue while its head is
pruned: each flow not yet looked at has an entry with the time of its last use
behind the part that was pruned, so that a flow in use is never taken for an
idle one.  `Contacted` adds that what a reply will be given was contacted.

**`Runtime_proofs`** (`RunInvariance`, `RunsLeaveNothing`, `OperatorsSeeTruth`).  `RunInv` goes
through the phases: tasks started are running, ended or panicked (`Started`),
the registry was told of each (`Told`), what was changed on the host is what
the plan says and what the rest of the shutdown will undo (`Changed`,
`TakenDown`).  That the shown status is true of the tasks needs the registry's
`compute_status` to be followed through all its setters (`Aside`,
`StatusFollows`).  What is reported is not what was recorded by definition: the
flush and the reading of the events may fail and tasks may still record.  So
`TakenDown` also says, from the flush on, that what was recorded is at most what
was flushed and what came late, or that a failure is on record, and the same of
the reports after them.  For the services of operators `NodeInv` says that the failures
a service counts are the last ones in a row, and that a request not yet answered
has seen the status of the moment; for a command `CommandInv` says that a reader
keeps as much as the limit allows of all it has read, and ends only with an empty
pipe behind a child that has ended.

*Induction.*  No theorem of the library with an operator as its parameter can be
used here.  Where a number has to be induced on (the part of the expiry queue
that was pruned, an id taken out of `flow_order`) the proofs take the least
counterexample, which exists as the order of the naturals is well founded
(`WFMin`, the lemmas `LeastNatural` and `LeastNumber`), and refute it.  So the
recursive function in `FlowManager!Without` is shown to keep the order and
exactly the ids that are not taken out.  `WinDivert!RemoveAll` says what a loop of
removals leaves, not how it gets there; it is only ever applied to a table whose
maps are inverse of each other, where the order of the removals does not matter.

**Only model-checked.**
* All liveness (`MCBatchDrains`, `ShutdownCompletes`, `CallsEnd`, `WorkEnds`,
  `StopsEnd`): fairness and `ENABLED` are outside the prover.
* The connections and services: `SegmentationIndependent`, `BytesAccounted`,
  `ConversationInOrder`, `RequestsUnderstood`, `DatagramsUnderstood`.  They are
  about functions that parse a stream by recursion over it: induction over data.
* `FirewallExact`, `StorageFaithful`, `CaptureFaithful`: folds over lists of
  commands, records or frames, for which TLC's enumeration is the check.

## 5. What the models show besides

Behaviour met while modelling that no property forbids: no document promises
otherwise, or the property names it as an exception.

*Export.*
* A snapshot taken before a rejection and applied after it hides the rejection
  until the next report.
* `drop_buffered_events` also takes the ids out of `unknown_event_ids`.  With
  `drop_pending_records`, which names all trackers and counts those of unknown
  fate nowhere, an event whose request timed out just before can lose its only
  record: it is then reported neither lost nor unknown.
* `HttpSink::send` reads two sets one after the other: it can answer Delivered
  for an event whose request timed out, while the event is rightly reported
  unknown.  `unknown_event_sequences` keeps the sequence of an event found
  unknown by a flush of another task.
* `drop_pending_records` with a stale sample purges a buffered event and counts
  it nowhere; production calls it after the worker has stopped.  A tracker that
  is unknown at one sink and buffered at another stays.  An interrupted send can
  be counted as lost twice.
* After a reconciliation the depth counter may wrap and losses be over-counted.
* "Delivered" of a stream sink means written to the kernel.  A task aborted in a
  TCP write leaves half a line on the connection that is kept.  The syslog sink
  resolves its host without a timeout.
* `clear_handlers` of the bus may leave `handler_count` too low.

*Flows, sessions, transfers.*
* What a task that panicked left queued for its source port is given to a later
  connection from that port that was addressed to the listener itself: only the
  packets of a redirected connection replace it.
* A removal between insert and index leaves an id in `flow_order`; when it is
  evicted later, a younger flow with that key goes in place of the oldest.
* `remove_session` also takes the session of a later connection that reuses the
  source port for the same destination.
* A TFTP ACK that has released the table's lock can put back a transfer that has
  ended, replace a newer one, exceed the limit, or set `last_block_sent` back.
  An aborted upload leaves a file whose name is refused from then on.

*Services.*
* MySQL over STARTTLS greets a second time after the upgrade and takes the login
  (sequence 2) for a command.  Bytes up to the SSLRequest are not counted, and
  bytes pipelined behind it end the connection.
* An SMTP line that is not UTF-8, later in the same read, drops the
  "250 Queued" of a message already saved.
* Redis, NKN and SOCKS4 compare the whole buffer with the limit of a frame:
  pipelined commands that exceed it together are refused in one read and served in
  several.  HTTP looks for the end of the header, and of a chunk, before it
  compares the buffer with its limits, so that a request at the limit is served in
  one read and refused with 431 or 413 when its end is late.
* An MQTT client refused for an empty client id without a clean session stays
  connected and hears nothing more; the taster does not take its CONNECT for one.
  A Redis QUIT is compared with two byte strings: `*01` as its count is answered
  and does not close.
* `update_session_bytes` is not told of greetings, of the last read of a connection
  that a handler's error ended, or of what came up to MySQL's SSLRequest.
* `HttpRequest::parse` reports a second Host header of an HTTP/1.0 request as
  incomplete, where the framing has found it complete: 400.
* The flow policy compares texts: a rule for an IPv4 address does not match the
  same host as `::ffff:` of a dual-stack listener; the host filter does.
* The DNS taster refuses trailing bytes and an OPT record with payload size 0 or a
  name; the handler answers both.
* On a listener that detects, a DNS-over-TCP frame is tasted with its length
  prefix and served as raw, goodbyes do not close the connection (except FTP's),
  SMTP data is routed by its content, POP3's USER goes to FTP and QUIT to SMTP.
* IMAP LOGOUT and telnet exit leave the connection open.  A SOCKS5 segment
  `05 01 00` is taken for a greeting at any time.
* A passive FTP 150 overtakes replies to earlier commands of the same read.
* DNS over TCP builds a handler per query, so `nxdomains` starts again each time
  (`docs/configuration.md:100` speaks of initial queries).
* A first datagram dropped at the full semaphore, or refused by the process
  filter, has already registered its session: the command never runs for it.
  A UPnP search to a multicast or loopback destination is neither answered nor
  counted.  SSDP over HTTP/1.0 is answered on its own listener and not detected.
  Forwarded datagrams that time out are not counted.

*Interception and capture.*
* Inserts let the expiry queue grow past its limit (only a use compacts it), and
  eviction at capacity goes by the order of the queue, not by last use.
* A UDP packet with a wrong length is rewritten and not reported.  One client
  socket that talks to two destinations through one listener gets its replies
  from the last one contacted.
* The libpcap interceptor parses a raw link as IPv4 only, does not compare the
  family of the link header with the version nibble, takes a link type it does not
  know for bare IP, and knows the loopback family 23; the reader of captures knows
  Linux cooked frames, both byte orders of a loopback header and not 23.
* nft registers a family only after all its rules; a refused `delete table` goes
  unnoticed, and stale rules stay in front.  An iptables chain whose creation
  timed out stays.  A failed restore of IPv4 skips IPv6.
* A crash in MultiHost mode loses the forwarding value from before: the next run
  saves the `1` it finds and restores that, so forwarding stays on for ever, and
  the chain of a run in the other mode or with the other tool is never looked for.
  `KNOWN_LIMITATIONS.md:10-14` says that stale managed state is removed on the next
  startup and that forwarding may stay enabled "until that restart or manual
  cleanup".  `ForwardingRestored` and `InstallExact` state what the code does.
* A torn last record makes `read_file` refuse the whole capture, and the writer
  has no limit on records while the reader has one.  A replay takes a public
  client of a local address for the server.

*Lifecycle, storage, commands.*
* Signal handlers are installed when the run waits: a signal before that, or
  during the shutdown, ends the process without cleanup.  Connection tasks are
  aborted and not awaited: one may record an event after the flush, which then is
  in the reports or not, and whose export may keep the shutdown waiting.  A capture
  whose last flush fails stays open; failing reports are logged.  An error of
  `initialize` returns without a shutdown.  Interception asked for with nothing
  to redirect leaves the status Starting.  A task that panics reports nothing.
* A CA whose thumbprint cannot be read is installed and never removed; DNS is
  restored to DHCP, not to its previous setting.
* `log_event` may write between a record and its newline, and a line without its
  newline joins the first record of the next run: the line does not parse
  (`docs/output-formats.md:6` says one JSON object per line).  The repair
  replaces the file with what the reports hold: log lines, and events beyond the
  100 000 that were read, are gone.  It fails, with a line in the log, when file and
  database together have more than that, an event exceeds its bounds or the disk is
  full, and the old file stays; a repaired file larger than
  `MAX_REPORT_INPUT_BYTES` is written and cannot be read back.
* PostgreSQL tables without a column that has an index are refused, because the
  indexes come before the columns; tables without `listener`, `src_port`, `dst_port`
  or `indicators`, or with a NOT NULL column of their own, are opened and refuse
  every insert; SQLite cannot add `created_at` to a table
  with rows.
* A process that keeps the pipes of a finished child holds the caller of a
  command; after a timeout the reader threads stay, and if the kill fails the child
  does too.
* The probe server reads once: a request in two segments gets 400.

## 6. What is not modelled

* TLS itself (certificates, handshake), process attribution, IOC extraction,
  configuration parsing and the HTTP API: library calls, operating system
  tables, text.  Where a model depends on one, its outcome is a free choice.
* The forwarding of a TCP connection to its real destination
  (`tcp_handler/forward.rs`), and static port forwards.
* The texts of answers, reports and logs, DNS record encoding, and the values
  Redis and memcached return.
* Replacing a fanout after start-up (`attach_fanout` is called once), and the
  channel of the local worker, which is that of the export worker without a
  fanout.
* `nettrap-flow/src/state.rs` (called by tests only) and the interceptor in
  `nettrap-windivert` (not part of that crate's library).
* Drivers, kernels and servers are external and may do anything their interface
  allows.

## 7. Plan

1. Done: the models and runs above; the proofs of section 4.
2. The channel of the local worker composed with `Storage`; TCP forwarding.
