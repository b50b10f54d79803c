---------------------------- MODULE NodeServices ----------------------------
(***************************************************************************)
(* The services of a node for its operators (nettrap-distributed/src/      *)
(* probe.rs, lib.rs run_heartbeat): a probe server that answers one        *)
(* request of each connection from the health registry, and the heartbeat  *)
(* to the control plane.  Both end by themselves after failures in a row.  *)
(* Below, the programs of the host that the node runs.                     *)
(***************************************************************************)
EXTENDS Naturals, Sequences

CONSTANTS Connections, Requests,   \* [whole, endings, utf8: BOOLEAN, method, path, version]: of the first read
          PROBE_ACCEPT_RETRY_LIMIT, HEARTBEAT_FAILURE_LIMIT, MaxOutcomes

ASSUME NodeAssumption ==
    /\ PROBE_ACCEPT_RETRY_LIMIT \in Nat /\ HEARTBEAT_FAILURE_LIMIT \in Nat /\ MaxOutcomes \in Nat

VARIABLES server,                  \* [kind, at, failures]: at "off", "serving" or "ended"
          probes,                  \* of each connection: [at, request, answer, seen]
          status,                  \* the status of the registry
          heart,                   \* [at, failures]
          outcomes                 \* history: what accept, or the request of a heartbeat, returned, in order
nodeVars == <<server, probes, status, heart, outcomes>>

NoProbe == [at |-> "none", request |-> <<>>, answer |-> 0, seen |-> {}]
NodeInit ==
    /\ server \in [kind : {"Health", "Metrics"}, at : {"off"}, failures : {0}]
    /\ probes = [c \in Connections |-> NoProbe] /\ status \in {"Ok", "Degraded"}
    /\ heart = [at |-> "off", failures |-> 0] /\ outcomes = <<>>

------------------------------------------------------------------------------
(* The answer to what one read returned: 400 for less than a header or one *)
(* with bad line endings or not in UTF-8.                                  *)
parse_request_path(r) == IF r.version = "HTTP/1.1" THEN <<r.method, r.path>> ELSE <<>>
(* Mutant: ready while degraded.                                           *)
route_probe_request_lenient(r, kind, s) ==
    IF kind = "Health" /\ parse_request_path(r) = <<"GET", "/ready">> THEN 200 ELSE 404
route_probe_request(r, kind, s) ==
    CASE kind = "Health" /\ parse_request_path(r) = <<"GET", "/health">> -> 200
      [] kind = "Health" /\ parse_request_path(r) = <<"GET", "/ready">> -> IF s = "Ok" THEN 200 ELSE 503
      [] kind = "Metrics" /\ parse_request_path(r) = <<"GET", "/metrics">> -> 200
      [] OTHER -> 404
route_probe_request_bytes(r, kind, s) ==
    IF r.whole /\ r.endings /\ r.utf8 THEN route_probe_request(r, kind, s) ELSE 400

(* bind: an address that does not parse or is taken ends the service.      *)
bind_probe_server ==
    /\ server.at = "off" /\ heart.at = "off" /\ \E at \in {"serving", "ended"} : server' = [server EXCEPT !.at = at]
    /\ outcomes' = IF server'.at = "ended" THEN <<"bind">> ELSE <<>>
    /\ UNCHANGED <<probes, status, heart>>
Outcome(o) == Len(outcomes) < MaxOutcomes /\ outcomes' = Append(outcomes, o)
(* Mutant: failures are counted over the life of the server.               *)
accept_counts(c) ==
    /\ server.at = "serving" /\ probes[c] = NoProbe /\ Outcome("ok")
    /\ probes' = [probes EXCEPT ![c].at = "reading"] /\ UNCHANGED <<server, status, heart>>
accept(c) ==
    /\ server.at = "serving" /\ probes[c] = NoProbe /\ Outcome("ok")
    /\ probes' = [probes EXCEPT ![c].at = "reading"] /\ server' = [server EXCEPT !.failures = 0]
    /\ UNCHANGED <<status, heart>>
accept_fails ==
    /\ server.at = "serving"
    /\ \/ /\ Outcome("transient")
          /\ server' = [server EXCEPT !.failures = @ + 1,
                                      !.at = IF server.failures + 1 >= PROBE_ACCEPT_RETRY_LIMIT THEN "ended" ELSE @]
       \/ Outcome("permanent") /\ server' = [server EXCEPT !.at = "ended"]
    /\ UNCHANGED <<probes, status, heart>>

RequestArrives(c) ==
    /\ probes[c].at = "reading" /\ probes[c].seen = {}
    /\ \E r \in Requests : probes' = [probes EXCEPT ![c].request = r, ![c].seen = {status}]
    /\ UNCHANGED <<server, status, heart, outcomes>>
(* One read; the answer is built from a snapshot, then written.            *)
handle_probe_connection(c) ==
    /\ probes[c].at = "reading" /\ probes[c].seen # {}
    /\ probes' = [probes EXCEPT ![c].at = "writing",
                                ![c].answer = route_probe_request_bytes(probes[c].request, server.kind, status)]
    /\ UNCHANGED <<server, status, heart, outcomes>>
read_times_out(c) ==
    /\ probes[c].at = "reading" /\ probes[c].seen = {} /\ probes' = [probes EXCEPT ![c].at = "closed"]
    /\ UNCHANGED <<server, status, heart, outcomes>>
(* Mutant: without a timeout a client that reads nothing is waited for.    *)
write_ends_never(c) == FALSE /\ UNCHANGED nodeVars
write_ends(c) ==
    /\ probes[c].at = "writing" /\ probes' = [probes EXCEPT ![c].at = "closed"]
    /\ UNCHANGED <<server, status, heart, outcomes>>
(* Aborted with the set of its tasks when the server ends.                 *)
TasksAborted ==
    /\ server.at = "ended" /\ \E c \in Connections : probes[c].at \in {"reading", "writing"}
    /\ probes' = [c \in Connections |-> IF probes[c].at = "none" THEN probes[c] ELSE [probes[c] EXCEPT !.at = "closed"]]
    /\ UNCHANGED <<server, status, heart, outcomes>>
StatusChanges ==
    /\ server.at = "serving" /\ status' = IF status = "Ok" THEN "Degraded" ELSE "Ok"
    /\ probes' = [c \in Connections |-> IF probes[c].at = "reading" /\ probes[c].seen # {}
                                        THEN [probes[c] EXCEPT !.seen = @ \cup {status'}] ELSE probes[c]]
    /\ UNCHANGED <<server, heart, outcomes>>

------------------------------------------------------------------------------
(* An interval of zero ends the service at once, a bad URL with an error.  *)
run_heartbeat ==
    /\ server.at = "off" /\ heart.at = "off"
    /\ \E at \in {"beating", "ended"} : heart' = [heart EXCEPT !.at = at]
    /\ outcomes' = IF heart'.at = "ended" THEN <<"refused">> ELSE <<>>
    /\ UNCHANGED <<server, probes, status>>
(* Timed out, rejected and failed requests count alike.                    *)
heartbeat ==
    /\ heart.at = "beating"
    /\ \/ Outcome("ok") /\ heart' = [heart EXCEPT !.failures = 0]
       \/ /\ Outcome("transient")
          /\ heart' = [heart EXCEPT !.failures = @ + 1,
                                    !.at = IF heart.failures + 1 >= HEARTBEAT_FAILURE_LIMIT THEN "ended" ELSE @]
    /\ UNCHANGED <<server, probes, status>>

ProbeStep(c) == handle_probe_connection(c) \/ read_times_out(c) \/ write_ends(c)
NodeNext ==
    \/ bind_probe_server \/ accept_fails \/ TasksAborted \/ StatusChanges \/ run_heartbeat \/ heartbeat
    \/ \E c \in Connections : accept(c) \/ RequestArrives(c) \/ ProbeStep(c)
NodeSpec == /\ NodeInit /\ [][NodeNext]_nodeVars
            /\ WF_nodeVars(TasksAborted) /\ \A c \in Connections : WF_nodeVars(ProbeStep(c))

------------------------------------------------------------------------------
InARow(n) == Len(outcomes) >= n /\ \A i \in Len(outcomes) - n + 1 .. Len(outcomes) : outcomes[i] = "transient"

(* The runtime stops when one of these services ends, so they end only for *)
(* a cause: nothing to start with, an error that is not transient, or as   *)
(* many failures in a row as the limit says (run_probe_server,             *)
(* run_heartbeat_with_interval).                                           *)
ServicesEndForCause ==
    /\ server.at = "ended" =>
         \/ outcomes = <<"bind">> \/ InARow(PROBE_ACCEPT_RETRY_LIMIT)
         \/ Len(outcomes) > 0 /\ outcomes[Len(outcomes)] = "permanent"
    /\ heart.at = "ended" => outcomes = <<"refused">> \/ InARow(HEARTBEAT_FAILURE_LIMIT)

(* A probe is told "ready" only if the node was ready at some time while   *)
(* it asked, and "not ready" only if it was not (route_probe_request).     *)
ReadyTruthful ==
    \A c \in Connections : LET p == probes[c] IN
      server.kind = "Health" /\ p.answer \in {200, 503} /\ p.request.path = "/ready" =>
        (IF p.answer = 200 THEN "Ok" ELSE "Degraded") \in p.seen

(* No client keeps a task of the server for ever (the two timeouts of      *)
(* handle_probe_connection).                                               *)
ProbesEnd == \A c \in Connections : probes[c].at \in {"reading", "writing"} ~> probes[c].at = "closed"

-----------------------------------------------------------------------------
(***************************************************************************)
(* Running a program of the host with a limit on its output and on its     *)
(* time (windows_setup.rs and mkcert.rs, run_command_with_limited_output;  *)
(* the commands of Nfqueue run the same way).  The caller polls the child; *)
(* two threads read its pipes to their end and keep what the limit allows. *)
(* A process the child has started may hold the pipes after its end.       *)
(***************************************************************************)

CONSTANTS OUTPUT_LIMIT_BYTES, PipeBytes, ReadBytes, Outputs   \* what a child may write to each of its streams

ASSUME CommandAssumption ==
    OUTPUT_LIMIT_BYTES \in Nat /\ PipeBytes \in Nat /\ ReadBytes \in Nat /\ Outputs \subseteq Nat

Streams == {"stdout", "stderr"}
VARIABLES child,         \* "running", "stuck" or "ended"
          output, pipe,  \* of each stream: what is still to be written, and what is in the pipe
          reader,        \* of each stream: [content, read, too_large, ended]; read: all it has read
          grandchild,    \* a process that holds the pipes too
          caller         \* "waiting", "joining", "ok", "timed out", "too large" or "failed"
commandVars == <<child, output, pipe, reader, grandchild, caller>>

CommandInit ==
    /\ child = "running" /\ output \in [Streams -> Outputs] /\ pipe = [s \in Streams |-> 0]
    /\ reader = [s \in Streams |-> [content |-> 0, read |-> 0, too_large |-> FALSE, ended |-> FALSE]]
    /\ grandchild \in BOOLEAN /\ caller = "waiting"

ChildWrites(s) ==
    /\ child = "running" /\ output[s] > 0 /\ pipe[s] < PipeBytes
    /\ output' = [output EXCEPT ![s] = @ - 1] /\ pipe' = [pipe EXCEPT ![s] = @ + 1]
    /\ UNCHANGED <<child, reader, grandchild, caller>>
ChildEnds ==
    /\ child = "running" /\ \A s \in Streams : output[s] = 0
    /\ child' = "ended" /\ UNCHANGED <<output, pipe, reader, grandchild, caller>>
ChildHangs ==
    /\ child = "running" /\ child' = "stuck" /\ UNCHANGED <<output, pipe, reader, grandchild, caller>>
(* Mutant: too large only once the content is full.                        *)
Exceeds_full(content, n) == content >= OUTPUT_LIMIT_BYTES
Exceeds(content, n) == content + n > OUTPUT_LIMIT_BYTES
AtMost(n, limit) == IF n < limit THEN n ELSE limit
read_limited_command_stream(s) ==
    /\ \E n \in 1 .. AtMost(pipe[s], ReadBytes) :
         /\ pipe' = [pipe EXCEPT ![s] = @ - n]
         /\ reader' = [reader EXCEPT ![s].content = AtMost(@ + n, OUTPUT_LIMIT_BYTES), ![s].read = @ + n,
                                     ![s].too_large = @ \/ Exceeds(reader[s].content, n)]
    /\ UNCHANGED <<child, output, grandchild, caller>>
reader_ends(s) ==
    /\ pipe[s] = 0 /\ child = "ended" /\ ~grandchild /\ ~reader[s].ended
    /\ reader' = [reader EXCEPT ![s].ended = TRUE] /\ UNCHANGED <<child, output, pipe, grandchild, caller>>
(* The child is polled; after the deadline it is killed and waited for,    *)
(* and the readers are left to themselves.  Each of the three system calls *)
(* may fail: the call returns and the child is left as it is, or killed.   *)
(* Mutant: no deadline.                                                    *)
wait_for_command_untimed ==
    /\ caller = "waiting" /\ child = "ended" /\ caller' = "joining"
    /\ UNCHANGED <<child, output, pipe, reader, grandchild>>
wait_for_command ==
    /\ caller = "waiting"
    /\ \/ child = "ended" /\ caller' = "joining" /\ UNCHANGED child
       \/ child # "ended" /\ caller' = "timed out" /\ child' = "ended"
       \/ caller' = "failed" /\ child' \in {child, "ended"}
    /\ UNCHANGED <<output, pipe, reader, grandchild>>
join_limited_reader ==
    /\ caller = "joining" /\ \A s \in Streams : reader[s].ended
    /\ caller' = IF \E s \in Streams : reader[s].too_large THEN "too large" ELSE "ok"
    /\ UNCHANGED <<child, output, pipe, reader, grandchild>>
(* A reader whose read failed, or which panicked, fails the call.          *)
join_fails ==
    /\ caller = "joining" /\ caller' = "failed" /\ UNCHANGED <<child, output, pipe, reader, grandchild>>
GrandchildEnds ==
    /\ grandchild /\ grandchild' = FALSE /\ UNCHANGED <<child, output, pipe, reader, caller>>

ReaderStep == \E s \in Streams : read_limited_command_stream(s) \/ reader_ends(s)
CommandNext == \/ \E s \in Streams : ChildWrites(s)
               \/ ChildEnds \/ ChildHangs \/ GrandchildEnds \/ ReaderStep \/ wait_for_command \/ join_limited_reader
               \/ join_fails
CommandSpec == /\ CommandInit /\ [][CommandNext]_commandVars
               /\ WF_commandVars(ReaderStep) /\ WF_commandVars(wait_for_command) /\ WF_commandVars(join_limited_reader)

------------------------------------------------------------------------------
(* A caller that gets the output gets all of it, however the reads cut it, *)
(* and one that is told it was too large is told so for a reason; no child *)
(* outlives its call (run_command_with_limited_output), unless waiting for *)
(* it or killing it failed.                                                *)
OutputExact ==
    /\ caller \in {"ok", "too large"} =>
         /\ \A s \in Streams : pipe[s] = 0 /\ (caller = "ok" => reader[s].content = reader[s].read)
         /\ caller = "too large" => \E s \in Streams : reader[s].read > OUTPUT_LIMIT_BYTES
    /\ caller \notin {"waiting", "failed"} => child = "ended"

(* What operators see is true: a probe server or a heartbeat ends only for *)
(* a cause, ready means ready, and the captured output of a command is its *)
(* output or a refusal (probe.rs, run_heartbeat,                           *)
(* run_command_with_limited_output).                                       *)
NodeTruthful == ServicesEndForCause /\ ReadyTruthful /\ OutputExact

(* A call ends, whatever its child does and however much it writes; only a *)
(* process that holds the pipes after the end of the child can keep it for *)
(* ever (wait_for_command, join_limited_reader).                           *)
CommandEnds == caller = "waiting" ~> caller \in {"ok", "too large", "timed out", "failed"} \/ grandchild
=============================================================================
