----------------------------- MODULE Lifecycle -----------------------------
(***************************************************************************)
(* The life of a run: RuntimeRunner (nettrap-engine/src/runtime.rs), which *)
(* owns the order of the phases and what a failure does, and its host in   *)
(* the command line program (nettrap-cli/src/engine).  Starting, each      *)
(* phase may fail; running, each task may end or panic, and a stop may be  *)
(* asked for; stopping, everything is taken down in order and the reports  *)
(* are written, each step going on where one fails.  What the run changes  *)
(* outside the process is in host.                                         *)
(***************************************************************************)
EXTENDS RuntimeHealth, Sequences

CONSTANTS Plans,        \* [standard, windows, dns, service, trust, pcap, db, output, services, api, intercept,
                        \*  rules, listeners, allow]: the options and the configuration of a run
          MaxLifeFaults, MaxEvents

VARIABLES plan, pc,
          up,           \* the tasks that run
          silent,       \* tasks that panicked: nobody is told
          fatal,        \* fatal_runtime_rx: the tasks that reported their end
          asked,        \* how a stop was asked for: "none", "flag" or "signal"
          host,         \* [dns, service, ca, rules] outside the process; failed: a command that changes it failed
          thumb,        \* windows_ca_trust_thumbprint is Some
          handle,       \* the runner holds a RunningInterceptor
          open,         \* the capture and the database, while open
          health,       \* the registry of RuntimeHealth
          error,        \* what run will return, "none" for Ok
          result, lifeFaults,
          log,          \* events: [recorded, late, flushed, reported]: recorded at all, after the flush, held by
                        \* the flush, in the reports; written: the reports; noted: what failed and was logged
          stray         \* a connection task that was aborted with its listener has not ended yet
lifeVars == <<plan, pc, up, silent, fatal, asked, host, thumb, handle, open, health, error, result, lifeFaults,
              log, stray>>

(* The four services are started in start_background_services; the tasks   *)
(* of a run are told apart by name.  Without the standard services only    *)
(* the API runs, and it needs no listener.                                 *)
ASSUME PlanAssumption ==
    /\ Plans \subseteq [standard : BOOLEAN, windows : BOOLEAN, dns : BOOLEAN, service : BOOLEAN, trust : BOOLEAN,
                         pcap : BOOLEAN, db : BOOLEAN, output : BOOLEAN, api : BOOLEAN, rules : BOOLEAN,
                         allow : BOOLEAN,
                         services : SUBSET {"health server", "metrics server", "heartbeat", "faketime"},
                         intercept : {"off", "requested", "required"}, listeners : SUBSET Listeners]
    /\ \A p \in Plans : ~p.standard => p.allow
    /\ Listeners \cap {"cleanup", "health server", "metrics server", "heartbeat", "faketime", "api", "interceptor",
                       "none", "ok"} = {}
    /\ MaxLifeFaults \in Nat /\ MaxEvents \in Nat

Background == {"cleanup", "health server", "metrics server", "heartbeat", "faketime", "api"}
ListenersOf(p) == IF p.standard THEN p.listeners ELSE {}

LifeInit ==
    /\ plan \in Plans /\ pc = "prepare" /\ up = {} /\ silent = {} /\ fatal = <<>> /\ asked = "none"
    /\ host = [dns |-> "dhcp", service |-> TRUE, ca |-> FALSE, rules |-> FALSE, failed |-> FALSE]
    /\ thumb = FALSE /\ handle = FALSE /\ open = {} /\ health = NewHealth /\ error = "none" /\ result = "none"
    /\ lifeFaults = 0 /\ stray = FALSE
    /\ log = [recorded |-> 0, late |-> 0, flushed |-> 0, reported |-> 0, written |-> {}, noted |-> {}]

Fault == lifeFaults < MaxLifeFaults /\ lifeFaults' = lifeFaults + 1
NoFault == UNCHANGED lifeFaults
Return(e) == pc' = "exited" /\ result' = e
(* Mutant: the error is returned as it is.                                 *)
shutdown_on_startup_error_returns(e) == Return(e) /\ UNCHANGED error
shutdown_on_startup_error(e) == pc' = "stop listeners" /\ error' = e /\ UNCHANGED result

------------------------------------------------------------------------------
(* Starting.  Before the context exists an error is returned at once.      *)
prepare_config ==
    /\ pc = "prepare"
    /\ \/ NoFault /\ (IF plan.allow \/ ~plan.standard \/ plan.listeners # {}      \* validate_listener_presence
                      THEN pc' = "network" /\ UNCHANGED result ELSE Return("no listeners"))
       \/ Fault /\ Return("config")
    /\ UNCHANGED <<plan, up, silent, fatal, asked, host, thumb, handle, open, health, error, log, stray>>

(* A command of Windows that fails is only logged.                         *)
init_windows_network ==
    /\ pc = "network" /\ pc' = "context"
    /\ LET change == plan.standard /\ plan.windows
           done   == [host EXCEPT !.dns = IF change /\ plan.dns THEN "trap" ELSE @,
                                  !.service = @ /\ ~(change /\ plan.service)]
       IN  \/ host' = done /\ NoFault
           \/ host' = [done EXCEPT !.dns = host.dns, !.failed = TRUE] /\ change /\ Fault
    /\ UNCHANGED <<plan, up, silent, fatal, asked, thumb, handle, open, health, error, result, log, stray>>

(* The capture is opened and the cleanup task started; redirect defaults,  *)
(* the CA, the capture, the output path and the sinks may be refused.      *)
create_startup_context ==
    /\ pc = "context"
    /\ \/ /\ NoFault /\ pc' = "database" /\ up' = {"cleanup"} /\ UNCHANGED result
          /\ open' = IF plan.standard /\ plan.pcap THEN {"pcap"} ELSE {}
       \/ Fault /\ Return("context") /\ UNCHANGED <<up, open>>
    /\ UNCHANGED <<plan, silent, fatal, asked, host, thumb, handle, health, error, log, stray>>

(* An error drops the context: the capture is closed, the tasks end with   *)
(* the process.                                                            *)
with_database ==
    /\ pc = "database"
    /\ \/ NoFault /\ pc' = "trust" /\ open' = open \cup (IF plan.db THEN {"db"} ELSE {}) /\ UNCHANGED <<up, result>>
       \/ Fault /\ plan.db /\ Return("database") /\ up' = {} /\ open' = {}
    /\ UNCHANGED <<plan, silent, fatal, asked, host, thumb, handle, health, error, log, stray>>

(* Without a thumbprint the CA is installed all the same.                  *)
init_windows_ca_trust ==
    /\ pc = "trust" /\ pc' = "background"
    /\ LET install == plan.standard /\ plan.windows /\ plan.trust
       IN  \/ host' = [host EXCEPT !.ca = @ \/ install] /\ thumb' = install /\ NoFault
           \/ /\ install /\ thumb' = FALSE /\ Fault
              /\ \E ca \in BOOLEAN : host' = [host EXCEPT !.ca = ca, !.failed = TRUE]
    /\ health' = set_allow_zero_listeners(health, plan.allow)
    /\ UNCHANGED <<plan, up, silent, fatal, asked, handle, open, error, result, log, stray>>

(* Health and metrics servers are bound one after the other.               *)
start_background_services ==
    /\ pc = "background"
    /\ LET todo == IF plan.standard THEN plan.services \ (up \cup silent \cup {fatal[i] : i \in DOMAIN fatal}) ELSE {}
           next == CASE "health server" \in todo -> "health server" [] "metrics server" \in todo -> "metrics server"
                     [] "heartbeat" \in todo -> "heartbeat" [] OTHER -> "faketime"
       IN  \/ NoFault /\ todo = {} /\ pc' = "api" /\ UNCHANGED <<up, health, error, result>>
           \/ NoFault /\ todo # {} /\ up' = up \cup {next} /\ UNCHANGED <<pc, health, error, result>>
           \/ /\ Fault /\ todo # {} /\ next \in {"health server", "metrics server"}
              /\ health' = set_fatal_error(health) /\ shutdown_on_startup_error("background") /\ UNCHANGED up
    /\ UNCHANGED <<plan, silent, fatal, asked, host, thumb, handle, open, log, stray>>

start_api ==
    /\ pc = "api"
    /\ \/ /\ NoFault /\ pc' = "interceptor" /\ health' = set_api(health, IF plan.api THEN Running ELSE Disabled)
          /\ up' = up \cup (IF plan.api THEN {"api"} ELSE {}) /\ UNCHANGED <<error, result>>
       \/ Fault /\ plan.api /\ health' = set_api_failed(health) /\ shutdown_on_startup_error("api") /\ UNCHANGED up
    /\ UNCHANGED <<plan, silent, fatal, asked, host, thumb, handle, open, log, stray>>

(* No interceptor is built where nothing is to be redirected.  Its task    *)
(* initialises it, says so, and then receives.                             *)
start_interceptor ==
    /\ pc = "interceptor"
    /\ CASE plan.intercept = "off" ->
              /\ pc' = "listeners" /\ health' = set_interceptor(health, Disabled) /\ NoFault
              /\ UNCHANGED <<up, fatal, host, handle, error, result>>
         [] plan.intercept # "off" /\ ~plan.rules ->
              /\ NoFault /\ UNCHANGED <<up, fatal, host, handle>>
              /\ IF plan.intercept = "required"
                 THEN health' = set_interceptor_failed(health) /\ shutdown_on_startup_error("interceptor")
                 ELSE health' = set_interceptor(health, Starting) /\ pc' = "listeners" /\ UNCHANGED <<error, result>>
         [] OTHER ->
              \/ /\ NoFault /\ pc' = "listeners" /\ health' = set_interceptor(health, Running)
                 /\ up' = up \cup {"interceptor"} /\ handle' = TRUE /\ host' = [host EXCEPT !.rules = TRUE]
                 /\ UNCHANGED <<fatal, error, result>>
              \/ /\ Fault /\ health' = set_interceptor_failed(health) /\ fatal' = Append(fatal, "interceptor")
                 /\ shutdown_on_startup_error("interceptor") /\ UNCHANGED <<up, host, handle>>
    /\ UNCHANGED <<plan, silent, asked, thumb, open, log, stray>>

(* Every socket is bound before the first listener is spawned.             *)
spawn_listeners ==
    /\ pc = "listeners"
    /\ LET todo == {l \in ListenersOf(plan) : health.listeners[l] = Unregistered}
       IN  \/ \E l \in todo : /\ health' = mark_listener_running(register_listener(health, l), l)
                              /\ NoFault /\ UNCHANGED <<pc, up, error, result>>
           \/ \E l \in todo : /\ health' = mark_listener_failed(register_listener(health, l), l)
                              /\ Fault /\ shutdown_on_startup_error("listener") /\ UNCHANGED up
           \/ /\ todo = {} /\ pc' = "running" /\ up' = up \cup ListenersOf(plan)
              /\ health' = mark_startup_complete(health) /\ NoFault /\ UNCHANGED <<error, result>>
    /\ UNCHANGED <<plan, silent, fatal, asked, host, thumb, handle, open, log, stray>>

------------------------------------------------------------------------------
(* Tasks: a listener that returns is stopped or has failed, a service that *)
(* returns has failed; both are reported.                                  *)
(* Mutant: the end of a background service is sent, not marked.            *)
MarkEnd_sent(t) ==
    CASE t = "api" -> {set_api_failed(health)}
      [] t = "interceptor" -> {set_interceptor_failed(health)}
      [] t \in Listeners -> {set_fatal_error(mark_listener_stopped(health, t)), mark_listener_failed(health, t)}
      [] OTHER -> {health}
MarkEnd(t) ==
    CASE t = "api" -> {set_api_failed(health)}
      [] t = "interceptor" -> {set_interceptor_failed(health)}
      [] t \in Listeners -> {set_fatal_error(mark_listener_stopped(health, t)), mark_listener_failed(health, t)}
      [] OTHER -> {set_fatal_error(health)}
report_task_end(t) == health' \in MarkEnd(t) /\ fatal' = Append(fatal, t)
(* A listener's connection tasks are aborted when its JoinSet is dropped   *)
(* and not awaited: one may go on up to its next await.                    *)
Drops(ts) == stray' \in {stray} \cup (IF ts \cap Listeners # {} THEN {TRUE} ELSE {})
TaskEnds ==
    \E t \in up \ {"cleanup"} :
      /\ Fault /\ pc # "exited" /\ up' = up \ {t} /\ report_task_end(t) /\ Drops({t})
      /\ UNCHANGED <<plan, pc, silent, asked, host, thumb, handle, open, error, result, log>>
TaskPanics ==
    \E t \in up :
      /\ Fault /\ pc = "running" /\ up' = up \ {t} /\ silent' = silent \cup {t} /\ Drops({t})
      /\ UNCHANGED <<plan, pc, fatal, asked, host, thumb, handle, open, health, error, result, log>>
Flushed == {"finalize", "waiting", "restore", "report", "close"}
Records ==
    /\ pc # "exited" /\ log.recorded < MaxEvents /\ (up \cap Listeners # {} \/ stray)
    /\ log' = [log EXCEPT !.recorded = @ + 1, !.late = IF pc \in Flushed THEN @ + 1 ELSE @]
    /\ UNCHANGED <<plan, pc, up, silent, fatal, asked, host, thumb, handle, open, health, error, result>>
    /\ UNCHANGED <<lifeFaults, stray>>
StrayEnds ==
    /\ stray /\ stray' = FALSE
    /\ UNCHANGED <<plan, pc, up, silent, fatal, asked, host, thumb, handle, open, health, error, result>>
    /\ UNCHANGED <<lifeFaults, log>>

(* Signals are handled once wait_for_shutdown has been reached; before,    *)
(* the process dies of them.  The stop flag is a file.                     *)
Signal ==
    /\ pc # "exited"
    /\ \/ pc = "running" /\ asked = "none" /\ asked' = "signal" /\ UNCHANGED <<pc, result>>
       \/ ~health.startup_complete /\ Return("killed") /\ UNCHANGED asked
    /\ UNCHANGED <<plan, up, silent, fatal, host, thumb, handle, open, health, error, lifeFaults, log, stray>>
stop_flag_present ==
    /\ asked = "none" /\ pc # "exited" /\ asked' = "flag"
    /\ UNCHANGED <<plan, pc, up, silent, fatal, host, thumb, handle, open, health, error, result>>
    /\ UNCHANGED <<lifeFaults, log, stray>>

(* Mutant: the messages of failed tasks are not waited for.                *)
wait_for_shutdown_deaf ==
    /\ pc = "running" /\ asked # "none" /\ pc' = "stop listeners" /\ UNCHANGED error
    /\ UNCHANGED <<plan, up, silent, fatal, asked, host, thumb, handle, open, health, result, lifeFaults, log, stray>>
(* Mutant: the last message is taken for the first.                        *)
wait_for_shutdown_last ==
    /\ pc = "running" /\ pc' = "stop listeners"
    /\ \/ asked # "none" /\ UNCHANGED error
       \/ fatal # <<>> /\ error' = fatal[Len(fatal)]
    /\ UNCHANGED <<plan, up, silent, fatal, asked, host, thumb, handle, open, health, result, lifeFaults, log, stray>>
wait_for_shutdown ==
    /\ pc = "running" /\ pc' = "stop listeners"
    /\ \/ asked # "none" /\ UNCHANGED error
       \/ fatal # <<>> /\ error' = Head(fatal)
    /\ UNCHANGED <<plan, up, silent, fatal, asked, host, thumb, handle, open, health, result, lifeFaults, log, stray>>

------------------------------------------------------------------------------
(* Stopping: stop_runtime_tasks, then execute_shutdown.                    *)
shutdown_listener_tasks ==
    /\ pc = "stop listeners" /\ pc' = "stop interceptor" /\ up' = up \ Listeners /\ Drops(up)
    /\ UNCHANGED <<plan, silent, fatal, asked, host, thumb, handle, open, health, error, result, lifeFaults, log>>
(* An error of the interceptor is returned, unless the start has failed.   *)
RunningInterceptor_shutdown ==
    /\ pc = "stop interceptor" /\ pc' = "stop tasks" /\ up' = up \ {"interceptor"}
    /\ \/ host' = [host EXCEPT !.rules = @ /\ ~handle] /\ NoFault /\ UNCHANGED error
       \/ /\ handle /\ Fault /\ host' = [host EXCEPT !.failed = TRUE]
          /\ error' = IF health.startup_complete THEN "interceptor shutdown" ELSE error
    /\ UNCHANGED <<plan, silent, fatal, asked, thumb, handle, open, health, result, log, stray>>
stop_background_tasks ==
    /\ pc = "stop tasks" /\ pc' = "flush" /\ up' = up \ Background
    /\ UNCHANGED <<plan, silent, fatal, asked, host, thumb, handle, open, health, error, result>>
    /\ UNCHANGED <<lifeFaults, log, stray>>
(* What could not be persisted, or not in time, is counted and logged.     *)
flush_all_pending ==
    /\ pc = "flush" /\ pc' = "finalize"
    /\ \/ log' = [log EXCEPT !.flushed = log.recorded] /\ NoFault
       \/ \E n \in 0 .. log.recorded :
            log' = [log EXCEPT !.flushed = n, !.noted = @ \cup {"events"}] /\ Fault
    /\ UNCHANGED <<plan, up, silent, fatal, asked, host, thumb, handle, open, health, error, result, stray>>
(* The export worker is stopped and joined.  A record that comes after its *)
(* stop starts another, which nobody stops: the join then never returns    *)
(* (module ExportPipeline, run export_hang).                               *)
finalize_distributed_shutdown ==
    /\ pc = "finalize" /\ pc' = "restore"
    /\ UNCHANGED <<plan, up, silent, fatal, asked, host, thumb, handle, open, health, error, result>>
    /\ UNCHANGED <<lifeFaults, log, stray>>
finalize_waits ==
    /\ pc = "finalize" /\ log.late > 0 /\ pc' = "waiting"
    /\ UNCHANGED <<plan, up, silent, fatal, asked, host, thumb, handle, open, health, error, result>>
    /\ UNCHANGED <<lifeFaults, log, stray>>
restore_windows_network ==
    /\ pc = "restore" /\ pc' = "report"
    /\ LET undo == plan.windows
           done == [host EXCEPT !.dns = IF undo /\ plan.dns THEN "dhcp" ELSE @,
                                !.service = @ \/ (undo /\ plan.service), !.ca = @ /\ ~(undo /\ thumb)]
       IN  \/ host' = done /\ NoFault
           \/ /\ undo /\ Fault
              /\ host' \in {[done EXCEPT !.failed = TRUE, !.dns = host.dns],
                            [done EXCEPT !.failed = TRUE, !.ca = host.ca],
                            [done EXCEPT !.failed = TRUE, !.service = host.service]}
    /\ UNCHANGED <<plan, up, silent, fatal, asked, thumb, handle, open, health, error, result, log, stray>>
(* resolve_shutdown_events, generate_html_report and export_nbi_formats:   *)
(* the events that can be read, of those recorded since the flush perhaps  *)
(* some; without a path there are no reports, without events no tables;    *)
(* what fails is logged.  Which events are found is module Storage's.      *)
ReportsOf(n) == CASE ~plan.output -> {} [] plan.output /\ n = 0 -> {"html"} [] OTHER -> {"html", "tables"}
write_reports ==
    /\ pc = "report" /\ pc' = "close"
    /\ \/ \E n \in log.flushed .. log.recorded :
            log' = [log EXCEPT !.reported = n, !.written = ReportsOf(n)] /\ NoFault
       \/ \E n \in 0 .. log.recorded :
            log' = [log EXCEPT !.reported = n, !.written = ReportsOf(n), !.noted = @ \cup {"events"}] /\ Fault
       \/ \E n \in log.flushed .. log.recorded : \E w \in SUBSET ReportsOf(n) :
            log' = [log EXCEPT !.reported = n, !.written = w, !.noted = @ \cup {"report"}] /\ Fault
    /\ UNCHANGED <<plan, up, silent, fatal, asked, host, thumb, handle, open, health, error, result, stray>>
(* A capture that cannot be flushed stays open.                            *)
close ==
    /\ pc = "close" /\ Return(IF error = "none" THEN "ok" ELSE error)
    /\ \/ open' = {} /\ UNCHANGED log /\ NoFault
       \/ "pcap" \in open /\ open' = {"pcap"} /\ log' = [log EXCEPT !.noted = @ \cup {"pcap"}] /\ Fault
    /\ UNCHANGED <<plan, up, silent, fatal, asked, host, thumb, handle, health, error, stray>>

RunnerStep ==
    \/ prepare_config \/ init_windows_network \/ create_startup_context \/ with_database \/ init_windows_ca_trust
    \/ start_background_services \/ start_api \/ start_interceptor \/ spawn_listeners \/ wait_for_shutdown
    \/ shutdown_listener_tasks \/ RunningInterceptor_shutdown \/ stop_background_tasks \/ flush_all_pending
    \/ finalize_distributed_shutdown \/ write_reports \/ restore_windows_network \/ close
LifeNext ==
    \/ RunnerStep \/ finalize_waits
    \/ TaskEnds \/ TaskPanics \/ Records \/ StrayEnds \/ Signal \/ stop_flag_present
LifeSpec == LifeInit /\ [][LifeNext]_lifeVars /\ WF_lifeVars(RunnerStep)

------------------------------------------------------------------------------
(* However a run ends once it has a context, at a failure of whichever     *)
(* phase or task or when it is asked to, no task of it runs but perhaps a  *)
(* connection's last step, the capture and the database are closed, every  *)
(* event is in the reports but those such a last step recorded, and,       *)
(* unless one of the commands that change the host failed, nothing it      *)
(* changed there is left; whatever of this does not hold has been logged.  *)
(* A run that returns Ok has removed its rules (RuntimeRunner::run,        *)
(* stop_runtime_tasks, execute_shutdown).                                  *)
NothingLeft ==
    pc = "exited" /\ result \notin {"config", "no listeners", "context", "database", "killed"} =>
      /\ up = {} /\ (open = {} \/ (open = {"pcap"} /\ "pcap" \in log.noted))
      /\ "events" \in log.noted \/ log.reported + log.late >= log.recorded
      /\ ~plan.output \/ "report" \in log.noted \/ "html" \in log.written
      /\ result = "ok" => ~host.rules
      /\ ~host.failed => ~host.rules /\ host.dns # "trap" /\ host.service /\ ~host.ca

(* While a run waits to be stopped its status is Ok exactly if every task  *)
(* it was configured to have runs, but for tasks that panicked, and for    *)
(* an interceptor asked for with nothing to redirect, which stays Starting *)
(* (mark_startup_complete, compute_status).                                *)
StatusTruthful ==
    pc = "running" =>
      LET wanted == {"cleanup"} \cup ListenersOf(plan) \cup (IF plan.standard THEN plan.services ELSE {})
                    \cup (IF plan.api THEN {"api"} ELSE {}) \cup (IF handle THEN {"interceptor"} ELSE {})
      IN  IF plan.intercept # "off" /\ ~plan.rules THEN compute_status(health) # "Ok"
          ELSE compute_status(health) = "Ok" <=> wanted \ silent \subseteq up

(* The first failure that was reported is the one a run returns, unless    *)
(* a stop was asked for, or its interceptor could not be shut down         *)
(* (wait_for_shutdown, shutdown_runtime).                                  *)
FailureReturned ==
    pc = "exited" /\ health.startup_complete =>
      \/ result = "interceptor shutdown" \/ (result = "ok" /\ asked # "none")
      \/ fatal # <<>> /\ result = fatal[1]

(* A run that has ended left nothing on the host, showed its true status   *)
(* while it ran, and returned the failure that ended it                    *)
(* (RuntimeRunner::run, shutdown_on_startup_error).                        *)
RunLeavesNothing == NothingLeft /\ StatusTruthful /\ FailureReturned

(* A run in which a task has failed, or that was asked to stop, ends       *)
(* (wait_for_shutdown), unless a connection task recorded an event after   *)
(* its listener was gone: then the shutdown may wait for ever for the      *)
(* exports (finalize_distributed_shutdown).                                *)
StopEnds == (fatal # <<>> \/ asked # "none") ~> (pc = "exited" \/ (pc = "waiting" /\ log.late > 0))
=============================================================================
