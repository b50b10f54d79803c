---------------------------- MODULE Runtime_proofs ----------------------------
(***************************************************************************)
(* A run leaves nothing behind, shows its true status and returns the      *)
(* failure that ended it, for every plan, every set of listeners and any   *)
(* number of faults; and what operators see of the node is true.           *)
(*                                                                         *)
(* RunLeavesNothing speaks of a run that waits and of one that has ended.  *)
(* RunInv carries what those depend on through the phases: which tasks     *)
(* were started and how each ended (Started), what the registry was told   *)
(* of them (Told), what the host was changed to and who knows how to undo  *)
(* it (Changed), and what each phase of the shutdown has taken down        *)
(* (TakenDown).                                                            *)
(*                                                                         *)
(* NodeInv relates the failures a service counts to what happened in a row *)
(* and the answer of a probe to the status it was built from; CommandInv   *)
(* relates what a reader keeps to all it has read.                         *)
(***************************************************************************)
EXTENDS Lifecycle, NodeServices, SequenceTheorems, TLAPS

Tasks == Background \cup {"interceptor"} \cup Listeners

Early    == {"prepare", "network", "context"}
Starts   == {"database", "trust", "background", "api", "interceptor", "listeners"}
Stopping == {"stop listeners", "stop interceptor", "stop tasks", "flush"} \cup Flushed
Phases   == Early \cup Starts \cup {"running"} \cup Stopping \cup {"exited"}

HostState == [dns : {"dhcp", "trap"}, service : BOOLEAN, ca : BOOLEAN, rules : BOOLEAN, failed : BOOLEAN]

Logs == [recorded : Nat, late : Nat, flushed : Nat, reported : Nat, written : SUBSET {"html", "tables"},
         noted : SUBSET {"events", "report", "pcap"}]

RunTypes ==
    /\ plan \in Plans /\ pc \in Phases
    /\ up \subseteq Tasks /\ silent \subseteq Tasks /\ fatal \in Seq(Tasks)
    /\ host \in HostState /\ thumb \in BOOLEAN /\ handle \in BOOLEAN
    /\ health \in RuntimeHealthState
    /\ log \in Logs

Ended == {fatal[i] : i \in DOMAIN fatal}

Services == IF plan.standard THEN plan.services ELSE {}
Api      == IF plan.api THEN {"api"} ELSE {}
Rewriter == IF handle THEN {"interceptor"} ELSE {}

\* Every task that was started runs, has reported its end or has panicked.
Started ==
    /\ up \cap silent = {} /\ up \cap Ended = {} /\ silent \cap Ended = {}
    /\ pc \in Early => up = {} /\ fatal = <<>>
    /\ pc \in Early \cup Starts => silent = {}
    /\ pc \in {"database", "trust"} => up \cup Ended = {"cleanup"}
    /\ pc = "background" => "cleanup" \in up \cup Ended /\ up \cup Ended \subseteq {"cleanup"} \cup Services
    /\ pc = "api" => up \cup Ended = {"cleanup"} \cup Services
    /\ pc = "interceptor" => up \cup Ended = {"cleanup"} \cup Services \cup Api
    /\ pc = "listeners" => up \cup Ended = {"cleanup"} \cup Services \cup Api \cup Rewriter
    /\ pc = "running" =>
         up \cup silent \cup Ended = {"cleanup"} \cup Services \cup Api \cup Rewriter \cup ListenersOf(plan)

\* What the registry knows of the tasks until the run is told to stop.
Told ==
    /\ health.startup_complete => pc \in {"running", "exited"} \cup Stopping
    /\ pc = "running" => health.startup_complete
    /\ pc \in (Early \cup Starts) \ {"prepare"} => plan.allow \/ plan.listeners # {}
    /\ pc \in Early \cup Starts \cup {"running"} =>
         /\ health.fatal_error <=> fatal # <<>>
         /\ health.export = Disabled /\ health.nbi = Disabled
         /\ \A l \in Listeners : health.listeners[l] # Starting
         /\ ~health.fatal_error =>
              /\ health.api # Failed /\ health.interceptor # Failed
              /\ \A l \in Listeners : health.listeners[l] \in {Unregistered, Running}
    /\ pc \in {"background", "api", "interceptor", "listeners", "running"} => health.allow_zero_listeners = plan.allow
    /\ pc \in Early \cup (Starts \ {"listeners"}) => health.interceptor = Disabled /\ ~handle
    /\ pc \in {"listeners", "running"} =>
         /\ handle <=> plan.intercept # "off" /\ plan.rules
         /\ plan.intercept = "off" => health.interceptor = Disabled
         /\ plan.intercept # "off" /\ ~plan.rules => health.interceptor = Starting
         /\ handle => health.interceptor \in {Running, Failed}
    /\ pc \in Early \cup (Starts \ {"listeners"}) => Registered(health) = {}
    /\ pc = "listeners" => Registered(health) \subseteq ListenersOf(plan)
    /\ pc = "running" => Registered(health) = ListenersOf(plan) /\ (plan.allow \/ plan.listeners # {})

\* What the run changed on the host is what its plan says, and what it can undo.
Changed ==
    /\ host.rules => handle
    /\ host.dns = "trap" => plan.windows /\ plan.dns
    /\ ~host.service => plan.windows /\ plan.service
    /\ host.ca => plan.windows /\ (thumb \/ host.failed)
    /\ pc \in {"prepare", "network", "context", "database", "trust"} => ~host.ca
    /\ pc \in {"stop tasks", "flush"} \cup Flushed => (host.rules => host.failed /\ error \notin {"none", "ok"})
    /\ pc \in {"report", "close"} /\ ~host.failed => host.dns # "trap" /\ host.service /\ ~host.ca

\* What the shutdown has taken down so far, and what it will return.
TakenDown ==
    /\ pc \in Early \cup Starts \cup {"running"} => error = "none"
    /\ pc \in Stopping =>
         IF health.startup_complete
         THEN \/ error = "interceptor shutdown" \/ (error = "none" /\ asked # "none")
              \/ fatal # <<>> /\ error = fatal[1]
         ELSE error \notin {"none", "ok"}
    /\ pc \in Stopping \ {"stop listeners"} => up \cap Listeners = {}
    /\ pc \in {"stop tasks", "flush"} \cup Flushed => "interceptor" \notin up
    /\ pc \in {"flush"} \cup Flushed => up = {}
    /\ pc \in Flushed => "events" \in log.noted \/ log.flushed + log.late >= log.recorded
    /\ pc = "close" => /\ "events" \in log.noted \/ log.reported + log.late >= log.recorded
                       /\ ~plan.output \/ "report" \in log.noted \/ "html" \in log.written

RunInv == RunTypes /\ Started /\ Told /\ Changed /\ TakenDown /\ NothingLeft /\ FailureReturned

-----------------------------------------------------------------------------
\* The first task that reported its end is a task.
LEMMA FirstFatal ==
    ASSUME RunTypes, fatal # <<>>
    PROVE  Head(fatal) = fatal[1] /\ fatal[1] \in Tasks /\ fatal[1] \in Ended /\ fatal[1] \notin {"none", "ok"}
<1>1. fatal \in Seq(Tasks) /\ Len(fatal) \in Nat /\ DOMAIN fatal = 1..Len(fatal)
  BY LenProperties DEF RunTypes
<1>2. Len(fatal) # 0
  BY <1>1, EmptySeq
<1>3. 1 \in DOMAIN fatal /\ 1 \in 1..Len(fatal)
  BY <1>1, <1>2
<1>4. Head(fatal) = fatal[1]
  BY <1>1, <1>3
<1>5. fatal[1] \in Tasks
  BY <1>1, <1>3, ElementOfSeq
<1>6. "none" \notin Tasks /\ "ok" \notin Tasks
  BY PlanAssumption DEF Tasks, Background
<1> QED
  BY <1>3, <1>4, <1>5, <1>6 DEF Ended

\* One more report adds its task and leaves the first one first.
LEMMA OneMoreFatal ==
    ASSUME RunTypes, NEW t \in Tasks, fatal' = Append(fatal, t)
    PROVE  /\ fatal' \in Seq(Tasks) /\ fatal' # <<>> /\ Ended' = Ended \cup {t}
           /\ fatal # <<>> => fatal'[1] = fatal[1]
<1>1. fatal \in Seq(Tasks) /\ Len(fatal) \in Nat /\ DOMAIN fatal = 1..Len(fatal)
  BY LenProperties DEF RunTypes
<1>2. /\ Append(fatal, t) \in Seq(Tasks) /\ Len(Append(fatal, t)) = Len(fatal) + 1 /\ Append(fatal, t) # <<>>
      /\ \A i \in 1..Len(fatal) : Append(fatal, t)[i] = fatal[i]
      /\ Append(fatal, t)[Len(fatal) + 1] = t
  BY <1>1, AppendProperties
<1>3. DOMAIN fatal' = 1..(Len(fatal) + 1)
  BY <1>2, LenProperties
<1>4. \A i : i \in 1..(Len(fatal) + 1) <=> i \in 1..Len(fatal) \/ i = Len(fatal) + 1
  BY <1>1
<1>5. Ended' = Ended \cup {t}
  BY <1>1, <1>2, <1>3, <1>4 DEF Ended
<1>6. ASSUME fatal # <<>> PROVE fatal'[1] = fatal[1]
  <2>1. Len(fatal) # 0
    BY <1>1, <1>6, EmptySeq
  <2> QED
    BY <1>1, <1>2, <2>1
<1> QED
  BY <1>2, <1>5, <1>6

-----------------------------------------------------------------------------
(* Each step of a run. *)

\* A refused configuration returns before anything was started.
LEMMA prepare_configInv ==
    ASSUME RunInv, prepare_config
    PROVE  RunInv'
<1> USE DEF RunInv, prepare_config, Return, NoFault, Fault, Early, Starts, Stopping, Flushed
<1>1. RunTypes'
  BY DEF RunTypes, Phases
<1>2. Started'
  <2>1. Ended' = Ended /\ Services' = Services /\ Api' = Api /\ Rewriter' = Rewriter
    BY DEF Ended, Services, Api, Rewriter
  <2> QED
    BY <2>1 DEF Started
<1>3. Told'
  BY PlanAssumption DEF Told, RunTypes, Registered
<1>4. Changed'
  BY DEF Changed
<1>5. TakenDown'
  BY DEF TakenDown
<1>6. NothingLeft'
  BY DEF NothingLeft
<1>7. FailureReturned'
  BY DEF FailureReturned, Told
<1> QED
  BY <1>1, <1>2, <1>3, <1>4, <1>5, <1>6, <1>7

\* The host is changed only as the plan says.
LEMMA init_windows_networkInv ==
    ASSUME RunInv, init_windows_network
    PROVE  RunInv'
<1> USE DEF RunInv, init_windows_network, NoFault, Fault, Early, Starts, Stopping, Flushed
<1>1. RunTypes'
  <2>1. host' \in HostState
    BY ZenonT(60) DEF RunTypes, HostState
  <2> QED
    BY <2>1 DEF RunTypes, Phases
<1>2. Started'
  <2>1. Ended' = Ended /\ Services' = Services /\ Api' = Api /\ Rewriter' = Rewriter
    BY DEF Ended, Services, Api, Rewriter
  <2> QED
    BY <2>1 DEF Started
<1>3. Told'
  BY DEF Told
<1>4. Changed'
  BY ZenonT(60) DEF Changed, RunTypes, HostState
<1>5. TakenDown'
  BY DEF TakenDown
<1>6. NothingLeft'
  BY DEF NothingLeft
<1>7. FailureReturned'
  BY DEF FailureReturned
<1> QED
  BY <1>1, <1>2, <1>3, <1>4, <1>5, <1>6, <1>7

\* The cleanup task is the first that runs.
LEMMA create_startup_contextInv ==
    ASSUME RunInv, create_startup_context
    PROVE  RunInv'
<1> USE DEF RunInv, create_startup_context, Return, NoFault, Fault, Early, Starts, Stopping, Flushed
<1>1. RunTypes'
  BY DEF RunTypes, Phases, Tasks, Background
<1>2. Started'
  BY DEF Started, Ended, Services, Api, Rewriter
<1>3. Told'
  BY DEF Told
<1>4. Changed'
  BY DEF Changed
<1>5. TakenDown'
  BY DEF TakenDown
<1>6. NothingLeft'
  BY DEF NothingLeft
<1>7. FailureReturned'
  BY DEF FailureReturned, Told
<1> QED
  BY <1>1, <1>2, <1>3, <1>4, <1>5, <1>6, <1>7

\* A database that cannot be opened drops the context.
LEMMA with_databaseInv ==
    ASSUME RunInv, with_database
    PROVE  RunInv'
<1> USE DEF RunInv, with_database, Return, NoFault, Fault, Early, Starts, Stopping, Flushed
<1>1. RunTypes'
  BY DEF RunTypes, Phases
<1>2. Started'
  BY DEF Started, Ended, Services, Api, Rewriter
<1>3. Told'
  BY DEF Told
<1>4. Changed'
  BY DEF Changed
<1>5. TakenDown'
  BY DEF TakenDown
<1>6. NothingLeft'
  BY DEF NothingLeft
<1>7. FailureReturned'
  BY DEF FailureReturned, Told
<1> QED
  BY <1>1, <1>2, <1>3, <1>4, <1>5, <1>6, <1>7

\* A certificate is installed with its thumbprint or with a failure on record.
LEMMA init_windows_ca_trustInv ==
    ASSUME RunInv, init_windows_ca_trust
    PROVE  RunInv'
<1> USE DEF RunInv, init_windows_ca_trust, NoFault, Fault, Early, Starts, Stopping, Flushed
<1>1. RunTypes'
  <2>1. host' \in HostState /\ thumb' \in BOOLEAN
    BY ZenonT(60), PlanAssumption DEF RunTypes, HostState
  <2>2. health' \in RuntimeHealthState
    BY PlanAssumption DEF RunTypes, RuntimeHealthState, set_allow_zero_listeners
  <2> QED
    BY <2>1, <2>2 DEF RunTypes, Phases
<1>2. Started'
  <2>1. Ended' = Ended /\ Services' = Services /\ Api' = Api /\ Rewriter' = Rewriter
    BY DEF Ended, Services, Api, Rewriter
  <2> QED
    BY <2>1 DEF Started
<1>3. Told'
  BY DEF Told, Registered, RunTypes, RuntimeHealthState, set_allow_zero_listeners
<1>4. Changed'
  BY ZenonT(60) DEF Changed, RunTypes, HostState
<1>5. TakenDown'
  BY DEF TakenDown
<1>6. NothingLeft'
  BY DEF NothingLeft
<1>7. FailureReturned'
  BY DEF FailureReturned
<1> QED
  BY <1>1, <1>2, <1>3, <1>4, <1>5, <1>6, <1>7

\* The wait ends at a request or at the first failure.
LEMMA wait_for_shutdownInv ==
    ASSUME RunInv, wait_for_shutdown
    PROVE  RunInv'
<1> USE DEF RunInv, wait_for_shutdown, Early, Starts, Stopping, Flushed
<1>1. RunTypes'
  BY DEF RunTypes, Phases
<1>2. Started'
  <2>1. Ended' = Ended /\ Services' = Services /\ Api' = Api /\ Rewriter' = Rewriter
    BY DEF Ended, Services, Api, Rewriter
  <2> QED
    BY <2>1 DEF Started
<1>3. Told'
  BY DEF Told
<1>4. Changed'
  BY DEF Changed
<1>5. TakenDown'
  <2>1. fatal # <<>> => Head(fatal) = fatal[1]
    BY FirstFatal
  <2> QED
    BY <2>1 DEF TakenDown, Told
<1>6. NothingLeft'
  BY DEF NothingLeft
<1>7. FailureReturned'
  BY DEF FailureReturned
<1> QED
  BY <1>1, <1>2, <1>3, <1>4, <1>5, <1>6, <1>7

\* No listener is left.
LEMMA shutdown_listener_tasksInv ==
    ASSUME RunInv, shutdown_listener_tasks
    PROVE  RunInv'
<1> USE DEF RunInv, shutdown_listener_tasks, Early, Starts, Stopping, Flushed
<1>1. RunTypes'
  BY DEF RunTypes, Phases
<1>2. Started'
  <2>1. Ended' = Ended /\ Services' = Services /\ Api' = Api /\ Rewriter' = Rewriter
    BY DEF Ended, Services, Api, Rewriter
  <2> QED
    BY <2>1 DEF Started
<1>3. Told'
  BY DEF Told
<1>4. Changed'
  BY DEF Changed
<1>5. TakenDown'
  BY DEF TakenDown
<1>6. NothingLeft'
  BY DEF NothingLeft
<1>7. FailureReturned'
  BY DEF FailureReturned
<1> QED
  BY <1>1, <1>2, <1>3, <1>4, <1>5, <1>6, <1>7

\* Rules that could not be removed leave an error.
LEMMA RunningInterceptor_shutdownInv ==
    ASSUME RunInv, RunningInterceptor_shutdown
    PROVE  RunInv'
<1> USE DEF RunInv, RunningInterceptor_shutdown, NoFault, Fault, Early, Starts, Stopping, Flushed
<1>1. RunTypes'
  <2>1. host' \in HostState
    BY DEF RunTypes, HostState
  <2> QED
    BY <2>1 DEF RunTypes, Phases
<1>2. Started'
  <2>1. Ended' = Ended /\ Services' = Services /\ Api' = Api /\ Rewriter' = Rewriter
    BY DEF Ended, Services, Api, Rewriter
  <2> QED
    BY <2>1 DEF Started
<1>3. Told'
  BY DEF Told
<1>4. Changed'
  BY ZenonT(60) DEF Changed, RunTypes, HostState, TakenDown
<1>5. TakenDown'
  BY DEF TakenDown
<1>6. NothingLeft'
  BY DEF NothingLeft
<1>7. FailureReturned'
  BY DEF FailureReturned
<1> QED
  BY <1>1, <1>2, <1>3, <1>4, <1>5, <1>6, <1>7

\* No task is left.
LEMMA stop_background_tasksInv ==
    ASSUME RunInv, stop_background_tasks
    PROVE  RunInv'
<1> USE DEF RunInv, stop_background_tasks, Early, Starts, Stopping, Flushed
<1>1. RunTypes'
  BY DEF RunTypes, Phases
<1>2. Started'
  <2>1. Ended' = Ended /\ Services' = Services /\ Api' = Api /\ Rewriter' = Rewriter
    BY DEF Ended, Services, Api, Rewriter
  <2> QED
    BY <2>1 DEF Started
<1>3. Told'
  BY DEF Told
<1>4. Changed'
  BY DEF Changed
<1>5. TakenDown'
  BY DEF TakenDown, RunTypes, Tasks
<1>6. NothingLeft'
  BY DEF NothingLeft
<1>7. FailureReturned'
  BY DEF FailureReturned
<1> QED
  BY <1>1, <1>2, <1>3, <1>4, <1>5, <1>6, <1>7

\* The counts of the log are numbers, its notes a set.
LEMMA LogParts ==
    ASSUME RunTypes
    PROVE  /\ log \in Logs /\ log.recorded \in Nat /\ log.late \in Nat /\ log.flushed \in Nat /\ log.reported \in Nat
           /\ log.noted \in SUBSET {"events", "report", "pcap"} /\ log.written \in SUBSET {"html", "tables"}
BY DEF RunTypes, Logs

\* Everything recorded is flushed, or a failure is on record.
LEMMA flush_all_pendingInv ==
    ASSUME RunInv, flush_all_pending
    PROVE  RunInv'
<1> USE DEF RunInv, flush_all_pending, Early, Starts, Stopping, Flushed
<1>1. RunTypes'
  <2>1. log \in Logs
    BY DEF RunTypes
  <2>2. PICK n \in Nat, m \in SUBSET {"events", "report", "pcap"} : log' = [log EXCEPT !.flushed = n, !.noted = m]
    <3>1. CASE log' = [log EXCEPT !.flushed = log.recorded]
      <4>1. log' = [log EXCEPT !.flushed = log.recorded, !.noted = log.noted]
        BY <2>1, <3>1 DEF Logs
      <4> QED
        BY <2>1, <4>1 DEF Logs
    <3>2. CASE \E n \in 0 .. log.recorded : log' = [log EXCEPT !.flushed = n, !.noted = @ \cup {"events"}]
      <4>1. PICK n \in 0 .. log.recorded : log' = [log EXCEPT !.flushed = n, !.noted = log.noted \cup {"events"}]
        BY <3>2
      <4>2. n \in Nat
        BY ONLY <4>1, LogParts, RunTypes
      <4>3. log.noted \cup {"events"} \in SUBSET {"events", "report", "pcap"}
        BY LogParts
      <4> HIDE DEF flush_all_pending
      <4> QED
        BY ZenonT(30), <4>1, <4>2, <4>3
    <3> QED
      BY <3>1, <3>2
  <2>3. log' \in Logs
    BY <2>1, <2>2 DEF Logs
  <2> QED
    BY <2>3 DEF RunTypes, Phases
<1>2. Started'
  <2>1. Ended' = Ended /\ Services' = Services /\ Api' = Api /\ Rewriter' = Rewriter
    BY DEF Ended, Services, Api, Rewriter
  <2> QED
    BY <2>1 DEF Started
<1>3. Told'
  BY DEF Told
<1>4. Changed'
  BY DEF Changed
<1>5. TakenDown'
  <2>1. log \in Logs
    BY DEF RunTypes
  <2>2. "events" \in log'.noted \/ log'.flushed + log'.late >= log'.recorded
    <3>1. CASE log' = [log EXCEPT !.flushed = log.recorded]
      <4>1. log'.flushed = log.recorded /\ log'.late = log.late /\ log'.recorded = log.recorded
        BY <2>1, <3>1 DEF Logs
      <4>2. log.recorded + log.late >= log.recorded
        BY ONLY LogParts, RunTypes
      <4> QED
        BY <4>1, <4>2
    <3>2. CASE \E n \in 0 .. log.recorded : log' = [log EXCEPT !.flushed = n, !.noted = @ \cup {"events"}]
      BY <2>1, <3>2 DEF Logs
    <3> QED
      BY <3>1, <3>2
  <2> QED
    BY <2>2 DEF TakenDown
<1>6. NothingLeft'
  BY DEF NothingLeft
<1>7. FailureReturned'
  BY DEF FailureReturned
<1> QED
  BY <1>1, <1>2, <1>3, <1>4, <1>5, <1>6, <1>7

\* The export worker was joined.
LEMMA finalize_distributed_shutdownInv ==
    ASSUME RunInv, finalize_distributed_shutdown
    PROVE  RunInv'
<1> USE DEF RunInv, finalize_distributed_shutdown, Early, Starts, Stopping, Flushed
<1>1. RunTypes'
  BY DEF RunTypes, Phases
<1>2. Started'
  <2>1. Ended' = Ended /\ Services' = Services /\ Api' = Api /\ Rewriter' = Rewriter
    BY DEF Ended, Services, Api, Rewriter
  <2> QED
    BY <2>1 DEF Started
<1>3. Told'
  BY DEF Told
<1>4. Changed'
  BY DEF Changed
<1>5. TakenDown'
  BY DEF TakenDown
<1>6. NothingLeft'
  BY DEF NothingLeft
<1>7. FailureReturned'
  BY DEF FailureReturned
<1> QED
  BY <1>1, <1>2, <1>3, <1>4, <1>5, <1>6, <1>7

\* A run that waits for its exports stays where it is.
LEMMA finalize_waitsInv ==
    ASSUME RunInv, finalize_waits
    PROVE  RunInv'
<1> USE DEF RunInv, finalize_waits, Early, Starts, Stopping, Flushed
<1>1. RunTypes'
  BY DEF RunTypes, Phases
<1>2. Started'
  <2>1. Ended' = Ended /\ Services' = Services /\ Api' = Api /\ Rewriter' = Rewriter
    BY DEF Ended, Services, Api, Rewriter
  <2> QED
    BY <2>1 DEF Started
<1>3. Told'
  BY DEF Told
<1>4. Changed'
  BY DEF Changed
<1>5. TakenDown'
  BY DEF TakenDown
<1>6. NothingLeft'
  BY DEF NothingLeft
<1>7. FailureReturned'
  BY DEF FailureReturned
<1> QED
  BY <1>1, <1>2, <1>3, <1>4, <1>5, <1>6, <1>7

\* What the plan changed is put back, or a failure is on record.
LEMMA restore_windows_networkInv ==
    ASSUME RunInv, restore_windows_network
    PROVE  RunInv'
<1> USE DEF RunInv, restore_windows_network, NoFault, Fault, Early, Starts, Stopping, Flushed
<1>1. RunTypes'
  <2>1. host' \in HostState
    <3>1. PICK d : d = [host EXCEPT !.dns = IF plan.windows /\ plan.dns THEN "dhcp" ELSE @,
                             !.service = @ \/ (plan.windows /\ plan.service), !.ca = @ /\ ~(plan.windows /\ thumb)]
      OBVIOUS
    <3>2. d \in HostState
      BY ZenonT(60), <3>1, PlanAssumption DEF RunTypes, HostState
    <3>3. \/ host' = d
          \/ host' \in {[d EXCEPT !.failed = TRUE, !.dns = host.dns], [d EXCEPT !.failed = TRUE, !.ca = host.ca],
                       [d EXCEPT !.failed = TRUE, !.service = host.service]}
      BY <3>1
    <3> HIDE DEF restore_windows_network
    <3> QED
      BY ZenonT(60), <3>2, <3>3 DEF RunTypes, HostState
  <2> QED
    BY <2>1 DEF RunTypes, Phases
<1>2. Started'
  <2>1. Ended' = Ended /\ Services' = Services /\ Api' = Api /\ Rewriter' = Rewriter
    BY DEF Ended, Services, Api, Rewriter
  <2> QED
    BY <2>1 DEF Started
<1>3. Told'
  BY DEF Told
<1>4. Changed'
  <2>1. plan \in Plans /\ plan.windows \in BOOLEAN /\ host \in HostState
    BY PlanAssumption DEF RunTypes
  <2>2. CASE host'.failed
    BY ZenonT(60), <2>1, <2>2 DEF Changed, HostState
  <2>3. CASE ~host'.failed
    BY ZenonT(60), <2>1, <2>3 DEF Changed, HostState
  <2> QED
    BY <2>2, <2>3
<1>5. TakenDown'
  BY DEF TakenDown
<1>6. NothingLeft'
  BY DEF NothingLeft
<1>7. FailureReturned'
  BY DEF FailureReturned
<1> QED
  BY <1>1, <1>2, <1>3, <1>4, <1>5, <1>6, <1>7

\* Everything flushed is reported, or a failure is on record.
LEMMA write_reportsInv ==
    ASSUME RunInv, write_reports
    PROVE  RunInv'
<1> USE DEF RunInv, write_reports, Early, Starts, Stopping, Flushed
<1>0. PICK n \in Nat, w \in SUBSET {"html", "tables"}, m \in SUBSET {"events", "report", "pcap"} :
        /\ log' = [log EXCEPT !.reported = n, !.written = w, !.noted = m] /\ log.noted \subseteq m
        /\ "events" \in m \/ n >= log.flushed
        /\ "report" \in m \/ w = ReportsOf(n)
  <2>1. log \in Logs
    BY DEF RunTypes
  <2>2. \A n \in log.flushed .. log.recorded : n \in Nat /\ n >= log.flushed
    BY ONLY LogParts, RunTypes
  <2>3. \A n \in 0 .. log.recorded : n \in Nat
    BY ONLY LogParts, RunTypes
  <2>4. \A n : ReportsOf(n) \in SUBSET {"html", "tables"}
    BY DEF ReportsOf
  <2>5. CASE \E n \in log.flushed .. log.recorded : log' = [log EXCEPT !.reported = n, !.written = ReportsOf(n)]
    <3>1. PICK n \in log.flushed .. log.recorded : log' = [log EXCEPT !.reported = n, !.written = ReportsOf(n)]
      BY <2>5
    <3>2. log' = [log EXCEPT !.reported = n, !.written = ReportsOf(n), !.noted = log.noted]
      BY <2>1, <3>1 DEF Logs
    <3>3. log.noted \in SUBSET {"events", "report", "pcap"}
      BY <2>1 DEF Logs
    <3> HIDE DEF write_reports
    <3> QED
      BY ZenonT(30), <2>2, <2>4, <3>1, <3>2, <3>3
  <2>6. CASE \E n \in 0 .. log.recorded :
               log' = [log EXCEPT !.reported = n, !.written = ReportsOf(n), !.noted = @ \cup {"events"}]
    <3>1. PICK n \in 0 .. log.recorded :
            log' = [log EXCEPT !.reported = n, !.written = ReportsOf(n), !.noted = log.noted \cup {"events"}]
      BY <2>6
    <3>2. PICK m : m = log.noted \cup {"events"}
      OBVIOUS
    <3>3. m \in SUBSET {"events", "report", "pcap"} /\ log.noted \subseteq m /\ "events" \in m
      BY <2>1, <3>2 DEF Logs
    <3> HIDE DEF write_reports
    <3> QED
      BY ZenonT(30), <2>3, <2>4, <3>1, <3>2, <3>3
  <2>7. CASE \E n \in log.flushed .. log.recorded : \E w \in SUBSET ReportsOf(n) :
               log' = [log EXCEPT !.reported = n, !.written = w, !.noted = @ \cup {"report"}]
    <3>0. PICK n \in log.flushed .. log.recorded : \E w \in SUBSET ReportsOf(n) :
            log' = [log EXCEPT !.reported = n, !.written = w, !.noted = log.noted \cup {"report"}]
      BY <2>7
    <3>1. PICK w \in SUBSET ReportsOf(n) :
            log' = [log EXCEPT !.reported = n, !.written = w, !.noted = log.noted \cup {"report"}]
      BY <3>0
    <3>2. PICK m : m = log.noted \cup {"report"}
      OBVIOUS
    <3>3. m \in SUBSET {"events", "report", "pcap"} /\ log.noted \subseteq m /\ "report" \in m
      BY <2>1, <3>2 DEF Logs
    <3>4. w \in SUBSET {"html", "tables"}
      BY <2>4, <3>1
    <3> HIDE DEF write_reports
    <3> QED
      BY ZenonT(30), <2>2, <3>0, <3>1, <3>2, <3>3, <3>4
  <2> QED
    BY <2>5, <2>6, <2>7
<1>1. RunTypes'
  <2>1. log' \in Logs
    BY <1>0 DEF RunTypes, Logs
  <2> QED
    BY <2>1 DEF RunTypes, Phases
<1>2. Started'
  <2>1. Ended' = Ended /\ Services' = Services /\ Api' = Api /\ Rewriter' = Rewriter
    BY DEF Ended, Services, Api, Rewriter
  <2> QED
    BY <2>1 DEF Started
<1>3. Told'
  BY DEF Told
<1>4. Changed'
  BY DEF Changed
<1>5. TakenDown'
  <2>1. log \in Logs
    BY DEF RunTypes
  <2>2. /\ log'.noted = m /\ log'.written = w /\ log'.reported = n /\ log'.flushed = log.flushed
        /\ log'.late = log.late /\ log'.recorded = log.recorded
    BY <1>0, <2>1 DEF Logs
  <2>3. "events" \in log.noted \/ log.flushed + log.late >= log.recorded
    BY DEF TakenDown
  <2>4. "events" \in m \/ n + log.late >= log.recorded
    <3>1. n >= log.flushed /\ log.flushed + log.late >= log.recorded => n + log.late >= log.recorded
      BY ONLY LogParts, RunTypes, n \in Nat
    <3> QED
      BY <1>0, <2>3, <3>1
  <2>5. "events" \in m \/ log.flushed + log.late >= log.recorded
    BY <1>0, <2>3
  <2>6. ~plan.output \/ "report" \in m \/ "html" \in w
    BY <1>0 DEF ReportsOf
  <2> QED
    BY <2>2, <2>4, <2>5, <2>6 DEF TakenDown
<1>6. NothingLeft'
  BY DEF NothingLeft
<1>7. FailureReturned'
  BY DEF FailureReturned
<1> QED
  BY <1>1, <1>2, <1>3, <1>4, <1>5, <1>6, <1>7

\* The run returns what its shutdown was begun with.
LEMMA closeInv ==
    ASSUME RunInv, close
    PROVE  RunInv'
<1> USE DEF RunInv, close, Return, Early, Starts, Stopping, Flushed
<1>0. /\ log' \in Logs /\ log.noted \subseteq log'.noted /\ log'.written = log.written
      /\ log'.reported = log.reported /\ log'.late = log.late /\ log'.recorded = log.recorded
      /\ log'.flushed = log.flushed /\ (open' = {} \/ (open' = {"pcap"} /\ "pcap" \in log'.noted))
  <2>1. log \in Logs
    BY DEF RunTypes
  <2>2. CASE open' = {} /\ UNCHANGED log
    BY <2>1, <2>2
  <2>3. CASE open' = {"pcap"} /\ log' = [log EXCEPT !.noted = @ \cup {"pcap"}]
    BY <2>1, <2>3 DEF Logs
  <2> QED
    BY <2>2, <2>3
<1>1. RunTypes'
  BY <1>0 DEF RunTypes, Phases
<1>2. Started'
  <2>1. Ended' = Ended /\ Services' = Services /\ Api' = Api /\ Rewriter' = Rewriter
    BY DEF Ended, Services, Api, Rewriter
  <2> QED
    BY <2>1 DEF Started
<1>3. Told'
  BY DEF Told
<1>4. Changed'
  BY DEF Changed
<1>5. TakenDown'
  BY DEF TakenDown
<1>6. NothingLeft'
  <2>1. /\ up' = {} /\ ("events" \in log.noted \/ log.reported + log.late >= log.recorded)
        /\ (~plan.output \/ "report" \in log.noted \/ "html" \in log.written)
    BY DEF TakenDown
  <2>2. /\ "events" \in log'.noted \/ log'.reported + log'.late >= log'.recorded
        /\ ~plan'.output \/ "report" \in log'.noted \/ "html" \in log'.written
    BY <1>0, <2>1
  <2>3. /\ result' = "ok" => ~host'.rules
        /\ ~host'.failed => ~host'.rules /\ host'.dns # "trap" /\ host'.service /\ ~host'.ca
    BY DEF TakenDown, Changed, RunTypes, HostState
  <2> QED
    BY <1>0, <2>1, <2>2, <2>3 DEF NothingLeft
<1>7. FailureReturned'
  <2>1. fatal # <<>> => fatal[1] # "none"
    BY FirstFatal
  <2> QED
    BY <2>1 DEF FailureReturned, TakenDown
<1> QED
  BY <1>1, <1>2, <1>3, <1>4, <1>5, <1>6, <1>7

\* A panic moves a task from those that run to the silent ones.
LEMMA TaskPanicsInv ==
    ASSUME RunInv, TaskPanics
    PROVE  RunInv'
<1> USE DEF RunInv, TaskPanics, Fault, Early, Starts, Stopping, Flushed
<1>1. RunTypes'
  BY DEF RunTypes, Phases
<1>2. Started'
  <2>1. Ended' = Ended /\ Services' = Services /\ Api' = Api /\ Rewriter' = Rewriter
    BY DEF Ended, Services, Api, Rewriter
  <2> QED
    BY <2>1 DEF Started
<1>3. Told'
  BY DEF Told
<1>4. Changed'
  BY DEF Changed
<1>5. TakenDown'
  BY DEF TakenDown
<1>6. NothingLeft'
  BY DEF NothingLeft
<1>7. FailureReturned'
  BY DEF FailureReturned
<1> QED
  BY <1>1, <1>2, <1>3, <1>4, <1>5, <1>6, <1>7

\* An event recorded after the flush is counted as late.
LEMMA RecordsInv ==
    ASSUME RunInv, Records
    PROVE  RunInv'
<1> USE DEF RunInv, Records, Early, Starts, Stopping, Flushed
<1>1. RunTypes'
  <2>1. log' \in Logs
    <3>1. log.recorded + 1 \in Nat /\ (IF pc \in Flushed THEN log.late + 1 ELSE log.late) \in Nat
      BY ONLY LogParts, RunTypes
    <3> QED
      BY <3>1, LogParts DEF Logs
  <2> QED
    BY <2>1 DEF RunTypes, Phases
<1>2. Started'
  <2>1. Ended' = Ended /\ Services' = Services /\ Api' = Api /\ Rewriter' = Rewriter
    BY DEF Ended, Services, Api, Rewriter
  <2> QED
    BY <2>1 DEF Started
<1>3. Told'
  BY DEF Told
<1>4. Changed'
  BY DEF Changed
<1>5. TakenDown'
  <2>1. log \in Logs
    BY DEF RunTypes
  <2>2. /\ log'.noted = log.noted /\ log'.written = log.written /\ log'.reported = log.reported
        /\ log'.flushed = log.flushed /\ log'.recorded = log.recorded + 1
        /\ pc \in Flushed => log'.late = log.late + 1
    BY <2>1 DEF Logs
  <2>3. /\ log.recorded \in Nat /\ log.late \in Nat /\ log.flushed \in Nat /\ log.reported \in Nat
    BY <2>1 DEF Logs
  <2>4. /\ pc \in Flushed /\ log.flushed + log.late >= log.recorded => log'.flushed + log'.late >= log'.recorded
        /\ pc \in Flushed /\ log.reported + log.late >= log.recorded => log'.reported + log'.late >= log'.recorded
    BY <2>2, <2>3
  <2> QED
    BY <2>2, <2>4 DEF TakenDown
<1>6. NothingLeft'
  BY DEF NothingLeft
<1>7. FailureReturned'
  BY DEF FailureReturned
<1> QED
  BY <1>1, <1>2, <1>3, <1>4, <1>5, <1>6, <1>7

\* The last step of a connection's task is over.
LEMMA StrayEndsInv ==
    ASSUME RunInv, StrayEnds
    PROVE  RunInv'
<1> USE DEF RunInv, StrayEnds, Early, Starts, Stopping, Flushed
<1>1. RunTypes'
  BY DEF RunTypes, Phases
<1>2. Started'
  <2>1. Ended' = Ended /\ Services' = Services /\ Api' = Api /\ Rewriter' = Rewriter
    BY DEF Ended, Services, Api, Rewriter
  <2> QED
    BY <2>1 DEF Started
<1>3. Told'
  BY DEF Told
<1>4. Changed'
  BY DEF Changed
<1>5. TakenDown'
  BY DEF TakenDown
<1>6. NothingLeft'
  BY DEF NothingLeft
<1>7. FailureReturned'
  BY DEF FailureReturned
<1> QED
  BY <1>1, <1>2, <1>3, <1>4, <1>5, <1>6, <1>7

\* A signal is a request while the run waits and death before.
LEMMA SignalInv ==
    ASSUME RunInv, Signal
    PROVE  RunInv'
<1> USE DEF RunInv, Signal, Return, Early, Starts, Stopping, Flushed
<1>1. RunTypes'
  BY DEF RunTypes, Phases
<1>2. Started'
  <2>1. Ended' = Ended /\ Services' = Services /\ Api' = Api /\ Rewriter' = Rewriter
    BY DEF Ended, Services, Api, Rewriter
  <2> QED
    BY <2>1 DEF Started
<1>3. Told'
  BY DEF Told
<1>4. Changed'
  BY DEF Changed
<1>5. TakenDown'
  BY DEF TakenDown
<1>6. NothingLeft'
  BY DEF NothingLeft
<1>7. FailureReturned'
  BY DEF FailureReturned, Told
<1> QED
  BY <1>1, <1>2, <1>3, <1>4, <1>5, <1>6, <1>7

\* The stop flag is a request at any time.
LEMMA stop_flag_presentInv ==
    ASSUME RunInv, stop_flag_present
    PROVE  RunInv'
<1> USE DEF RunInv, stop_flag_present, Early, Starts, Stopping, Flushed
<1>1. RunTypes'
  BY DEF RunTypes, Phases
<1>2. Started'
  <2>1. Ended' = Ended /\ Services' = Services /\ Api' = Api /\ Rewriter' = Rewriter
    BY DEF Ended, Services, Api, Rewriter
  <2> QED
    BY <2>1 DEF Started
<1>3. Told'
  BY DEF Told
<1>4. Changed'
  BY DEF Changed
<1>5. TakenDown'
  BY DEF TakenDown
<1>6. NothingLeft'
  BY DEF NothingLeft
<1>7. FailureReturned'
  BY DEF FailureReturned
<1> QED
  BY <1>1, <1>2, <1>3, <1>4, <1>5, <1>6, <1>7

-----------------------------------------------------------------------------
(* The setters of the registry that a start or the end of a task calls. *)

\* What no setter of a task's state touches.
Aside(g, h) ==
    /\ g.startup_complete = h.startup_complete /\ g.allow_zero_listeners = h.allow_zero_listeners
    /\ g.export = h.export /\ g.nbi = h.nbi

\* set_fatal_error raises the flag and touches nothing else.
LEMMA SetFatal ==
    ASSUME NEW h \in RuntimeHealthState
    PROVE  /\ set_fatal_error(h) \in RuntimeHealthState /\ set_fatal_error(h).fatal_error /\ Aside(set_fatal_error(h), h)
           /\ set_fatal_error(h).interceptor = h.interceptor /\ set_fatal_error(h).api = h.api
           /\ set_fatal_error(h).listeners = h.listeners
BY DEF set_fatal_error, RuntimeHealthState, Aside

\* set_api writes the state of the API only.
LEMMA SetApi ==
    ASSUME NEW h \in RuntimeHealthState, NEW s \in {Disabled, Running}
    PROVE  /\ set_api(h, s) \in RuntimeHealthState /\ Aside(set_api(h, s), h)
           /\ set_api(h, s).fatal_error = h.fatal_error /\ set_api(h, s).interceptor = h.interceptor
           /\ set_api(h, s).api = s /\ set_api(h, s).listeners = h.listeners
BY DEF set_api, RuntimeHealthState, Aside, Disabled, Running, Failed

\* set_api_failed writes the state of the API and raises the flag.
LEMMA SetApiFailed ==
    ASSUME NEW h \in RuntimeHealthState
    PROVE  /\ set_api_failed(h) \in RuntimeHealthState /\ set_api_failed(h).fatal_error /\ Aside(set_api_failed(h), h)
           /\ set_api_failed(h).interceptor = h.interceptor /\ set_api_failed(h).listeners = h.listeners
BY DEF set_api_failed, RuntimeHealthState, Aside

\* set_interceptor writes the state of the interceptor only.
LEMMA SetInterceptor ==
    ASSUME NEW h \in RuntimeHealthState, NEW s \in {Disabled, Starting, Running}
    PROVE  /\ set_interceptor(h, s) \in RuntimeHealthState /\ Aside(set_interceptor(h, s), h)
           /\ set_interceptor(h, s).fatal_error = h.fatal_error /\ set_interceptor(h, s).interceptor = s
           /\ set_interceptor(h, s).api = h.api /\ set_interceptor(h, s).listeners = h.listeners
BY DEF set_interceptor, RuntimeHealthState, Aside, Disabled, Running, Starting

\* set_interceptor_failed writes the state of the interceptor and raises the flag.
LEMMA SetInterceptorFailed ==
    ASSUME NEW h \in RuntimeHealthState
    PROVE  /\ set_interceptor_failed(h) \in RuntimeHealthState /\ set_interceptor_failed(h).fatal_error
           /\ Aside(set_interceptor_failed(h), h) /\ set_interceptor_failed(h).interceptor = Failed
           /\ set_interceptor_failed(h).listeners = h.listeners
BY DEF set_interceptor_failed, RuntimeHealthState, Aside

\* mark_startup_complete raises startup_complete only.
LEMMA StartupComplete ==
    ASSUME NEW h \in RuntimeHealthState
    PROVE  /\ mark_startup_complete(h) \in RuntimeHealthState /\ mark_startup_complete(h).startup_complete
           /\ mark_startup_complete(h).allow_zero_listeners = h.allow_zero_listeners
           /\ mark_startup_complete(h).export = h.export /\ mark_startup_complete(h).nbi = h.nbi
           /\ mark_startup_complete(h).fatal_error = h.fatal_error /\ mark_startup_complete(h).api = h.api
           /\ mark_startup_complete(h).interceptor = h.interceptor /\ mark_startup_complete(h).listeners = h.listeners
BY DEF mark_startup_complete, RuntimeHealthState

\* A listener that is registered and marked running is Running, the others are as they were.
LEMMA ListenerRuns ==
    ASSUME NEW h \in RuntimeHealthState, NEW l \in Listeners, NEW g,
           g = mark_listener_running(register_listener(h, l), l)
    PROVE  /\ g \in RuntimeHealthState /\ Aside(g, h) /\ g.fatal_error = h.fatal_error
           /\ g.interceptor = h.interceptor /\ g.api = h.api
           /\ \A k \in Listeners : g.listeners[k] = IF k = l THEN Running ELSE h.listeners[k]
<1>1. PICK r : r = register_listener(h, l)
  OBVIOUS
<1>2. r \in RuntimeHealthState /\ r.listeners[l] = Starting /\ \A k \in Listeners \ {l} : r.listeners[k] = h.listeners[k]
  BY <1>1 DEF register_listener, RuntimeHealthState
<1>3. r = [h EXCEPT !.listeners = r.listeners]
  BY <1>1 DEF register_listener, RuntimeHealthState
<1>4. l \in Registered(r)
  BY <1>2 DEF Registered, Starting, Unregistered
<1>5. g = [r EXCEPT !.listeners[l] = Running]
  BY <1>1, <1>4 DEF mark_listener_running
<1>6. g \in RuntimeHealthState /\ g.listeners = [r.listeners EXCEPT ![l] = Running]
  BY <1>2, <1>5 DEF RuntimeHealthState
<1>7. Aside(g, r) /\ g.fatal_error = r.fatal_error /\ g.interceptor = r.interceptor /\ g.api = r.api
  BY <1>2, <1>5 DEF Aside, RuntimeHealthState
<1>8. Aside(r, h) /\ r.fatal_error = h.fatal_error /\ r.interceptor = h.interceptor /\ r.api = h.api
  BY <1>1 DEF register_listener, Aside, RuntimeHealthState
<1>9. \A k \in Listeners : g.listeners[k] = IF k = l THEN Running ELSE h.listeners[k]
  BY <1>2, <1>6 DEF RuntimeHealthState
<1> QED
  BY <1>6, <1>7, <1>8, <1>9 DEF Aside

\* A listener that failed keeps its name, whether or not it is in the table.
LEMMA ListenerFails ==
    ASSUME NEW h \in RuntimeHealthState, NEW l \in Listeners, NEW g, g = mark_listener_failed(h, l)
    PROVE  /\ g \in RuntimeHealthState /\ Aside(g, h) /\ g.fatal_error
           /\ g.interceptor = h.interceptor /\ g.api = h.api
           /\ \A k \in Listeners : \/ g.listeners[k] = h.listeners[k]
                                   \/ h.listeners[k] # Unregistered /\ g.listeners[k] = Failed
<1>1. PICK s : s = IF l \in Registered(h) THEN Failed ELSE h.listeners[l]
  OBVIOUS
<1>2. g = [h EXCEPT !.listeners[l] = s, !.fatal_error = TRUE]
  BY <1>1 DEF mark_listener_failed
<1>3. s = h.listeners[l] \/ (h.listeners[l] # Unregistered /\ s = Failed)
  BY <1>1 DEF Registered
<1>4. s \in {Unregistered, Starting, Running, Failed, Stopped}
  BY <1>3 DEF RuntimeHealthState
<1>5. g \in RuntimeHealthState /\ g.listeners = [h.listeners EXCEPT ![l] = s]
  <2>1. [h.listeners EXCEPT ![l] = s] \in [Listeners -> {Unregistered, Starting, Running, Failed, Stopped}]
    BY <1>4 DEF RuntimeHealthState
  <2>2. g = [h EXCEPT !.listeners = [h.listeners EXCEPT ![l] = s], !.fatal_error = TRUE]
    BY <1>2 DEF RuntimeHealthState
  <2> QED
    BY <2>1, <2>2 DEF RuntimeHealthState
<1>6. Aside(g, h) /\ g.fatal_error /\ g.interceptor = h.interceptor /\ g.api = h.api
  BY <1>2 DEF Aside, RuntimeHealthState
<1>7. \A k \in Listeners : g.listeners[k] = h.listeners[k] \/ (h.listeners[k] # Unregistered /\ g.listeners[k] = Failed)
  BY <1>3, <1>5 DEF RuntimeHealthState
<1> QED
  BY <1>5, <1>6, <1>7

\* A listener that stopped likewise; the flag is not raised.
LEMMA ListenerStops ==
    ASSUME NEW h \in RuntimeHealthState, NEW l \in Listeners, NEW g, g = mark_listener_stopped(h, l)
    PROVE  /\ g \in RuntimeHealthState /\ Aside(g, h)
           /\ g.interceptor = h.interceptor /\ g.api = h.api
           /\ \A k \in Listeners : \/ g.listeners[k] = h.listeners[k]
                                   \/ h.listeners[k] # Unregistered /\ g.listeners[k] = Stopped
<1>1. CASE l \notin Registered(h)
  BY <1>1 DEF mark_listener_stopped, Aside
<1>2. CASE l \in Registered(h)
  <2>1. g = [h EXCEPT !.listeners[l] = Stopped] /\ h.listeners[l] # Unregistered
    BY <1>2 DEF mark_listener_stopped, Registered
  <2>2. g \in RuntimeHealthState /\ g.listeners = [h.listeners EXCEPT ![l] = Stopped]
    BY <2>1 DEF RuntimeHealthState
  <2>3. Aside(g, h) /\ g.interceptor = h.interceptor /\ g.api = h.api
    BY <2>1 DEF Aside, RuntimeHealthState
  <2>4. \A k \in Listeners : g.listeners[k] = h.listeners[k] \/ (h.listeners[k] # Unregistered /\ g.listeners[k] = Stopped)
    BY <2>1, <2>2 DEF RuntimeHealthState
  <2> QED
    BY <2>2, <2>3, <2>4
<1> QED
  BY <1>1, <1>2

\* Whichever task ends, the flag is raised and the tables keep their names.
LEMMA EndMarked ==
    ASSUME health \in RuntimeHealthState, NEW t \in Tasks, health' \in MarkEnd(t)
    PROVE  /\ health' \in RuntimeHealthState /\ health'.fatal_error /\ Aside(health', health)
           /\ health'.interceptor = health.interceptor \/ (t = "interceptor" /\ health'.interceptor = Failed)
           /\ \A k \in Listeners : \/ health'.listeners[k] = health.listeners[k]
                                   \/ health.listeners[k] # Unregistered /\ health'.listeners[k] \in {Failed, Stopped}
<1>1. CASE t = "api"
  <2>1. t # "interceptor" /\ t \notin Listeners
    BY <1>1, PlanAssumption
  <2>2. health' = set_api_failed(health)
    BY <1>1, <2>1 DEF MarkEnd
  <2> QED
    BY <2>2, SetApiFailed
<1>2. CASE t = "interceptor"
  <2>1. t # "api" /\ t \notin Listeners
    BY <1>2, PlanAssumption
  <2>2. health' = set_interceptor_failed(health)
    BY <1>2, <2>1 DEF MarkEnd
  <2> QED
    BY <1>2, <2>2, SetInterceptorFailed
<1>3. CASE t \in Listeners
  <2>1. t # "api" /\ t # "interceptor"
    BY <1>3, PlanAssumption
  <2>2. CASE health' = mark_listener_failed(health, t)
    BY <1>3, <2>2, ListenerFails
  <2>3. CASE health' = set_fatal_error(mark_listener_stopped(health, t))
    <3>1. PICK g : g = mark_listener_stopped(health, t)
      OBVIOUS
    <3>2. /\ g \in RuntimeHealthState /\ Aside(g, health) /\ g.interceptor = health.interceptor
          /\ \A k \in Listeners : \/ g.listeners[k] = health.listeners[k]
                                  \/ health.listeners[k] # Unregistered /\ g.listeners[k] = Stopped
      BY <1>3, <3>1, ListenerStops
    <3>3. health' = set_fatal_error(g)
      BY <2>3, <3>1
    <3> QED
      BY <3>2, <3>3, SetFatal DEF Aside
  <2> QED
    BY <1>3, <2>1, <2>2, <2>3 DEF MarkEnd
<1>4. CASE t \notin Listeners /\ t # "api" /\ t # "interceptor"
  BY <1>4, SetFatal DEF MarkEnd
<1> QED
  BY <1>1, <1>2, <1>3, <1>4

-----------------------------------------------------------------------------
(* The steps that tell the registry. *)

\* A failed start begins the shutdown with everything it has started.
LEMMA StartFails ==
    ASSUME RunInv, NEW e, e \notin {"none", "ok"}, pc \in Starts, shutdown_on_startup_error(e),
           health' \in RuntimeHealthState, Aside(health', health), fatal' \in Seq(Tasks),
           UNCHANGED <<plan, up, silent, asked, host, thumb, handle, open, log, stray>>,
           \/ fatal' = fatal
           \/ fatal' = Append(fatal, "interceptor") /\ "interceptor" \notin up
    PROVE  RunInv'
<1> USE DEF RunInv, shutdown_on_startup_error, Starts, Early, Stopping, Flushed
<1>1. RunTypes'
  BY DEF RunTypes, Phases
<1>2. Started'
  <2>1. Ended' = Ended \/ (Ended' = Ended \cup {"interceptor"} /\ "interceptor" \notin up)
    <3>1. "interceptor" \in Tasks
      BY DEF Tasks
    <3> QED
      BY <3>1, OneMoreFatal DEF Ended
  <2>2. silent = {}
    BY DEF Started
  <2> QED
    BY ZenonT(60), <2>1, <2>2 DEF Started
<1>3. Told'
  BY DEF Told, Aside
<1>4. Changed'
  BY DEF Changed
<1>5. TakenDown'
  BY DEF TakenDown, Told, Aside
<1>6. NothingLeft'
  BY DEF NothingLeft
<1>7. FailureReturned'
  BY DEF FailureReturned
<1> QED
  BY <1>1, <1>2, <1>3, <1>4, <1>5, <1>6, <1>7

\* Services are started one by one.
LEMMA start_background_servicesInv ==
    ASSUME RunInv, start_background_services
    PROVE  RunInv'
<1> DEFINE todo == IF plan.standard THEN plan.services \ (up \cup silent \cup {fatal[i] : i \in DOMAIN fatal}) ELSE {}
           next == CASE "health server" \in todo -> "health server" [] "metrics server" \in todo -> "metrics server"
                     [] "heartbeat" \in todo -> "heartbeat" [] OTHER -> "faketime"
<1>1. /\ pc = "background" /\ UNCHANGED <<plan, silent, fatal, asked, host, thumb, handle, open, log, stray>>
      /\ \/ NoFault /\ todo = {} /\ pc' = "api" /\ UNCHANGED <<up, health, error, result>>
         \/ NoFault /\ todo # {} /\ up' = up \cup {next} /\ UNCHANGED <<pc, health, error, result>>
         \/ /\ Fault /\ todo # {} /\ next \in {"health server", "metrics server"}
            /\ health' = set_fatal_error(health) /\ shutdown_on_startup_error("background") /\ UNCHANGED up
  BY DEF start_background_services
<1>2. todo = Services \ (up \cup Ended)
  <2>1. silent = {}
    BY <1>1 DEF RunInv, Started, Starts
  <2> QED
    BY <2>1 DEF Services, Ended
<1>3. plan.standard => plan.services \subseteq {"health server", "metrics server", "heartbeat", "faketime"}
  BY PlanAssumption DEF RunInv, RunTypes
<1>4. todo # {} => next \in todo
  BY <1>3
<1>5. plan' = plan /\ Services' = Services /\ Api' = Api /\ Rewriter' = Rewriter /\ Ended' = Ended
  BY <1>1 DEF Services, Api, Rewriter, Ended
<1> HIDE DEF todo, next
<1>6. CASE UNCHANGED <<health, error, result>>
  <2> USE DEF RunInv, Early, Starts, Stopping, Flushed
  <2>1. \/ todo = {} /\ pc' = "api" /\ up' = up
        \/ todo # {} /\ pc' = "background" /\ up' = up \cup {next}
    BY <1>1, <1>6 DEF shutdown_on_startup_error, RunTypes, RuntimeHealthState, TakenDown
  <2>2. Started'
    <3>1. /\ "cleanup" \in up \cup Ended /\ up \cup Ended \subseteq {"cleanup"} \cup Services
          /\ silent = {} /\ up \cap Ended = {}
      BY <1>1 DEF Started
    <3>2. CASE todo = {}
      BY <1>1, <1>2, <1>5, <2>1, <3>1, <3>2 DEF Started
    <3>3. CASE todo # {}
      BY <1>1, <1>2, <1>4, <1>5, <2>1, <3>1, <3>3 DEF Started
    <3> QED
      BY <3>2, <3>3
  <2>3. RunTypes'
    <3>1. todo # {} => next \in Tasks
      BY <1>2, <1>3, <1>4 DEF Services, Tasks, Background
    <3> QED
      BY <1>1, <1>6, <2>1, <3>1 DEF RunTypes, Phases
  <2>4. Told'
    BY <1>1, <1>6, <2>1 DEF Told
  <2>5. Changed'
    BY <1>1, <1>6, <2>1 DEF Changed
  <2>6. TakenDown'
    BY <1>1, <1>6, <2>1 DEF TakenDown
  <2>7. NothingLeft' /\ FailureReturned'
    BY <2>1 DEF NothingLeft, FailureReturned
  <2> QED
    BY <2>2, <2>3, <2>4, <2>5, <2>6, <2>7
<1>7. CASE health' = set_fatal_error(health) /\ shutdown_on_startup_error("background") /\ UNCHANGED up
  <2>1. health' \in RuntimeHealthState /\ Aside(health', health) /\ fatal' = fatal /\ fatal \in Seq(Tasks)
    BY <1>1, <1>7, SetFatal DEF RunInv, RunTypes
  <2> QED
    BY <1>1, <1>7, <2>1, StartFails DEF Starts
<1> QED
  BY <1>1, <1>6, <1>7

\* The API is started, or its failure begins the shutdown.
LEMMA start_apiInv ==
    ASSUME RunInv, start_api
    PROVE  RunInv'
<1>1. health \in RuntimeHealthState /\ fatal \in Seq(Tasks) /\ pc = "api"
  BY DEF RunInv, RunTypes, start_api
<1>2. CASE health' = set_api_failed(health) /\ shutdown_on_startup_error("api") /\ UNCHANGED up
  <2>1. health' \in RuntimeHealthState /\ Aside(health', health)
    BY <1>1, <1>2, SetApiFailed
  <2> QED
    BY <1>1, <1>2, <2>1, StartFails DEF Starts, start_api
<1>3. CASE /\ pc' = "interceptor" /\ health' = set_api(health, IF plan.api THEN Running ELSE Disabled)
           /\ up' = up \cup (IF plan.api THEN {"api"} ELSE {}) /\ UNCHANGED <<error, result>>
  <2> USE DEF RunInv, Early, Starts, Stopping, Flushed
  <2>1. UNCHANGED <<plan, silent, fatal, asked, host, thumb, handle, open, log, stray, error, result>>
    BY <1>3 DEF start_api
  <2>2. /\ health' \in RuntimeHealthState /\ Aside(health', health) /\ health'.fatal_error = health.fatal_error
        /\ health'.interceptor = health.interceptor /\ health'.api # Failed /\ health'.listeners = health.listeners
    <3>1. PICK s \in {Running, Disabled} : health' = set_api(health, s)
      BY <1>3
    <3> QED
      BY <1>1, <3>1, SetApi DEF Failed, Running, Disabled
  <2>3. Registered(health') = Registered(health)
    BY <2>2 DEF Registered
  <2>4. Ended' = Ended /\ Services' = Services /\ Api' = Api /\ Rewriter' = Rewriter
    BY <2>1 DEF Ended, Services, Api, Rewriter
  <2>5. up' = up \cup Api /\ Api \subseteq {"api"}
    BY <1>3 DEF Api
  <2>6. RunTypes'
    BY <1>3, <2>1, <2>2, <2>5 DEF RunTypes, Phases, Tasks, Background
  <2>7. Started'
    <3>1. "api" \notin up \cup Ended /\ up \cup Ended = {"cleanup"} \cup Services /\ silent = {} /\ up \cap Ended = {}
      <4>1. "api" \notin Services
        BY PlanAssumption DEF Services, RunTypes
      <4> QED
        BY <1>1, <4>1 DEF Started
    <3> QED
      BY <1>3, <2>1, <2>4, <2>5, <3>1 DEF Started
  <2>8. Told'
    BY <1>1, <1>3, <2>1, <2>2, <2>3 DEF Told, Aside
  <2>9. Changed'
    BY <1>1, <1>3, <2>1 DEF Changed
  <2>10. TakenDown'
    BY <1>1, <1>3, <2>1 DEF TakenDown
  <2>11. NothingLeft' /\ FailureReturned'
    BY <1>3 DEF NothingLeft, FailureReturned
  <2> QED
    BY <2>6, <2>7, <2>8, <2>9, <2>10, <2>11
<1> QED
  BY <1>2, <1>3 DEF start_api

\* The interceptor is told of in the registry as the plan says.
LEMMA start_interceptorInv ==
    ASSUME RunInv, start_interceptor
    PROVE  RunInv'
<1>1. /\ health \in RuntimeHealthState /\ fatal \in Seq(Tasks) /\ pc = "interceptor" /\ plan \in Plans
      /\ UNCHANGED <<plan, silent, asked, thumb, open, log, stray>>
  BY DEF RunInv, RunTypes, start_interceptor
<1>2. up \cup Ended = {"cleanup"} \cup Services \cup Api /\ silent = {} /\ "interceptor" \notin up \cup Ended
  <2>1. "interceptor" \notin Services /\ "interceptor" \notin Api
    BY <1>1, PlanAssumption DEF Services, Api
  <2> QED
    BY <1>1, <2>1 DEF RunInv, Started, Starts, Early
<1>3. health.interceptor = Disabled /\ handle = FALSE
  BY <1>1 DEF RunInv, RunTypes, Told, Starts, Early
<1>4. CASE /\ health' = set_interceptor_failed(health) /\ shutdown_on_startup_error("interceptor")
           /\ UNCHANGED <<up, host, handle>> /\ (fatal' = fatal \/ fatal' = Append(fatal, "interceptor"))
  <2>1. health' \in RuntimeHealthState /\ Aside(health', health)
    BY <1>1, <1>4, SetInterceptorFailed
  <2>2. fatal' \in Seq(Tasks)
    <3>1. "interceptor" \in Tasks
      BY DEF Tasks
    <3> QED
      BY <1>1, <1>4, <3>1, OneMoreFatal DEF RunInv
  <2> QED
    BY <1>1, <1>2, <1>4, <2>1, <2>2, StartFails DEF Starts
<1>5. ASSUME NEW s \in {Disabled, Starting, Running}, health' = set_interceptor(health, s), pc' = "listeners",
             UNCHANGED <<fatal, error, result>>,
             handle' = (s = Running), up' = up \cup Rewriter', host' = [host EXCEPT !.rules = (s = Running)],
             s = Running => plan.intercept # "off" /\ plan.rules,
             s = Disabled => plan.intercept = "off",
             s = Starting => plan.intercept # "off" /\ ~plan.rules
      PROVE  RunInv'
  <2> USE <1>5 DEF RunInv, Early, Starts, Stopping, Flushed
  <2>1. /\ health' \in RuntimeHealthState /\ Aside(health', health) /\ health'.fatal_error = health.fatal_error
        /\ health'.interceptor = s /\ health'.api = health.api /\ health'.listeners = health.listeners
    BY <1>1, SetInterceptor
  <2>2. Registered(health') = Registered(health)
    BY <2>1 DEF Registered
  <2>3. Ended' = Ended /\ Services' = Services /\ Api' = Api /\ Rewriter' \subseteq {"interceptor"}
    BY <1>1 DEF Ended, Services, Api, Rewriter
  <2>4. host' \in HostState /\ host'.dns = host.dns /\ host'.service = host.service /\ host'.ca = host.ca
        /\ host'.failed = host.failed /\ host'.rules = (s = Running)
    BY DEF RunTypes, HostState
  <2>5. RunTypes'
    BY <1>1, <2>1, <2>3, <2>4 DEF RunTypes, Phases, Tasks
  <2>6. Started'
    BY <1>1, <1>2, <2>3 DEF Started
  <2>7. Told'
    <3>1. s # Failed /\ Running # Starting /\ Running # Disabled /\ Starting # Disabled
      BY DEF Failed, Running, Starting, Disabled
    <3> QED
      BY ZenonT(60), <1>1, <2>1, <2>2, <3>1 DEF Told, Aside
  <2>8. Changed'
    BY <1>1, <2>4 DEF Changed
  <2>9. TakenDown'
    BY <1>1 DEF TakenDown
  <2>10. NothingLeft' /\ FailureReturned'
    BY DEF NothingLeft, FailureReturned
  <2> QED
    BY <2>5, <2>6, <2>7, <2>8, <2>9, <2>10
<1>6. Running # Starting /\ Running # Disabled /\ Starting # Disabled
  BY DEF Running, Starting, Disabled
<1>7. ASSUME ~handle' PROVE Rewriter' = {}
  BY <1>7 DEF Rewriter
<1>8. host = [host EXCEPT !.rules = FALSE]
  BY <1>3 DEF RunInv, RunTypes, HostState, Changed
<1>9. CASE plan.intercept = "off"
  <2>1. /\ pc' = "listeners" /\ health' = set_interceptor(health, Disabled)
        /\ UNCHANGED <<up, fatal, host, handle, error, result>>
    BY <1>9 DEF start_interceptor
  <2>2. handle' = (Disabled = Running) /\ up' = up \cup Rewriter' /\ host' = [host EXCEPT !.rules = (Disabled = Running)]
    BY <1>3, <1>6, <1>7, <1>8, <2>1
  <2> QED
    BY <1>5, <1>6, <1>9, <2>1, <2>2
<1>10. CASE plan.intercept # "off" /\ ~plan.rules
  <2>1. /\ UNCHANGED <<up, fatal, host, handle>>
        /\ \/ health' = set_interceptor_failed(health) /\ shutdown_on_startup_error("interceptor")
           \/ health' = set_interceptor(health, Starting) /\ pc' = "listeners" /\ UNCHANGED <<error, result>>
    BY <1>10 DEF start_interceptor
  <2>2. handle' = (Starting = Running) /\ up' = up \cup Rewriter' /\ host' = [host EXCEPT !.rules = (Starting = Running)]
    BY <1>3, <1>6, <1>7, <1>8, <2>1
  <2> QED
    BY <1>4, <1>5, <1>6, <1>10, <2>1, <2>2
<1>11. CASE plan.intercept # "off" /\ plan.rules
  <2>1. \/ /\ pc' = "listeners" /\ health' = set_interceptor(health, Running)
           /\ up' = up \cup {"interceptor"} /\ handle' = TRUE /\ host' = [host EXCEPT !.rules = TRUE]
           /\ UNCHANGED <<fatal, error, result>>
        \/ /\ health' = set_interceptor_failed(health) /\ fatal' = Append(fatal, "interceptor")
           /\ shutdown_on_startup_error("interceptor") /\ UNCHANGED <<up, host, handle>>
    BY <1>11 DEF start_interceptor
  <2>2. handle' => Rewriter' = {"interceptor"}
    BY DEF Rewriter
  <2> QED
    BY <1>4, <1>5, <1>6, <1>11, <2>1, <2>2
<1> QED
  BY <1>9, <1>10, <1>11

\* Every configured listener is registered before the run waits.
LEMMA spawn_listenersInv ==
    ASSUME RunInv, spawn_listeners
    PROVE  RunInv'
<1> DEFINE todo == {l \in ListenersOf(plan) : health.listeners[l] = Unregistered}
<1>1. /\ health \in RuntimeHealthState /\ fatal \in Seq(Tasks) /\ pc = "listeners" /\ plan \in Plans
      /\ UNCHANGED <<plan, silent, fatal, asked, host, thumb, handle, open, log, stray>>
      /\ \/ \E l \in todo : /\ health' = mark_listener_running(register_listener(health, l), l)
                            /\ NoFault /\ UNCHANGED <<pc, up, error, result>>
         \/ \E l \in todo : /\ health' = mark_listener_failed(register_listener(health, l), l)
                            /\ Fault /\ shutdown_on_startup_error("listener") /\ UNCHANGED up
         \/ /\ todo = {} /\ pc' = "running" /\ up' = up \cup ListenersOf(plan)
            /\ health' = mark_startup_complete(health) /\ NoFault /\ UNCHANGED <<error, result>>
  BY DEF RunInv, RunTypes, spawn_listeners
<1>2. ListenersOf(plan) \subseteq Listeners /\ (~plan.standard => plan.allow)
  BY <1>1, PlanAssumption DEF ListenersOf
<1>3. Ended' = Ended /\ Services' = Services /\ Api' = Api /\ Rewriter' = Rewriter
  BY <1>1 DEF Ended, Services, Api, Rewriter
<1>4. CASE \E l \in todo : /\ health' = mark_listener_running(register_listener(health, l), l)
                           /\ UNCHANGED <<pc, up, error, result>>
  <2>1. PICK l \in todo : /\ health' = mark_listener_running(register_listener(health, l), l)
                          /\ UNCHANGED <<pc, up, error, result>>
    BY <1>4
  <2>2. /\ health' \in RuntimeHealthState /\ Aside(health', health) /\ health'.fatal_error = health.fatal_error
        /\ health'.interceptor = health.interceptor /\ health'.api = health.api
        /\ \A k \in Listeners : health'.listeners[k] = IF k = l THEN Running ELSE health.listeners[k]
    BY SMTT(30), <1>1, <1>2, <2>1, ListenerRuns
  <2>3. Registered(health') = Registered(health) \cup {l} /\ l \in ListenersOf(plan)
    BY <1>2, <2>1, <2>2 DEF Registered, Running, Unregistered
  <2> USE DEF RunInv, Early, Starts, Stopping, Flushed
  <2>4. RunTypes'
    BY <1>1, <2>1, <2>2 DEF RunTypes
  <2>5. Started'
    BY <1>1, <1>3, <2>1 DEF Started
  <2>6. Told'
    BY <1>1, <2>1, <2>2, <2>3 DEF Told, Aside, Running, Starting
  <2>7. Changed' /\ TakenDown'
    BY <1>1, <2>1 DEF Changed, TakenDown
  <2>8. NothingLeft' /\ FailureReturned'
    BY <1>1, <2>1 DEF NothingLeft, FailureReturned
  <2> QED
    BY <2>4, <2>5, <2>6, <2>7, <2>8
<1>5. CASE \E l \in todo : /\ health' = mark_listener_failed(register_listener(health, l), l)
                           /\ shutdown_on_startup_error("listener") /\ UNCHANGED up
  <2>1. PICK l \in todo : health' = mark_listener_failed(register_listener(health, l), l)
    BY <1>5
  <2>2. register_listener(health, l) \in RuntimeHealthState /\ Aside(register_listener(health, l), health)
    BY <1>1, <1>2, <2>1 DEF register_listener, RuntimeHealthState, Aside
  <2>3. health' \in RuntimeHealthState /\ Aside(health', register_listener(health, l))
    BY <1>2, <2>1, <2>2, ListenerFails
  <2>4. Aside(health', health)
    BY <2>2, <2>3 DEF Aside
  <2> QED
    BY <1>1, <1>5, <2>3, <2>4, StartFails DEF Starts
<1>6. CASE /\ todo = {} /\ pc' = "running" /\ up' = up \cup ListenersOf(plan)
           /\ health' = mark_startup_complete(health) /\ UNCHANGED <<error, result>>
  <2>1. /\ health' \in RuntimeHealthState /\ health'.startup_complete
        /\ health'.allow_zero_listeners = health.allow_zero_listeners
        /\ health'.export = health.export /\ health'.nbi = health.nbi
        /\ health'.fatal_error = health.fatal_error /\ health'.api = health.api
        /\ health'.interceptor = health.interceptor /\ health'.listeners = health.listeners
    BY <1>1, <1>6, StartupComplete
  <2>2. Registered(health') = Registered(health) /\ ListenersOf(plan) \subseteq Registered(health)
    BY <1>2, <1>6, <2>1 DEF Registered
  <2> USE DEF RunInv, Early, Starts, Stopping, Flushed
  <2>3. RunTypes'
    BY <1>1, <1>2, <1>6, <2>1 DEF RunTypes, Phases, Tasks
  <2>4. Started'
    <3>1. up \cup Ended = {"cleanup"} \cup Services \cup Api \cup Rewriter /\ silent = {} /\ up \cap Ended = {}
      BY <1>1 DEF Started
    <3>2. Services \subseteq {"health server", "metrics server", "heartbeat", "faketime"}
      BY <1>1, PlanAssumption DEF Services
    <3>3. ListenersOf(plan) \cap ({"cleanup"} \cup Services \cup Api \cup Rewriter) = {}
      BY <1>2, <3>2, PlanAssumption DEF Api, Rewriter
    <3>4. ListenersOf(plan') = ListenersOf(plan)
      BY <1>1
    <3> QED
      BY <1>1, <1>3, <1>6, <3>1, <3>3, <3>4 DEF Started
  <2>5. Told'
    BY <1>1, <1>6, <2>1, <2>2 DEF Told
  <2>6. Changed' /\ TakenDown'
    BY <1>1, <1>6 DEF Changed, TakenDown
  <2>7. NothingLeft' /\ FailureReturned'
    BY <1>6 DEF NothingLeft, FailureReturned
  <2> QED
    BY <2>3, <2>4, <2>5, <2>6, <2>7
<1> QED
  BY <1>1, <1>4, <1>5, <1>6

\* A task that ends is reported and marked in one step.
LEMMA TaskEndsInv ==
    ASSUME RunInv, TaskEnds
    PROVE  RunInv'
<1>1. PICK t \in up \ {"cleanup"} :
        /\ pc # "exited" /\ up' = up \ {t} /\ health' \in MarkEnd(t) /\ fatal' = Append(fatal, t)
        /\ UNCHANGED <<plan, pc, silent, asked, host, thumb, handle, open, error, result, log>>
  BY DEF TaskEnds, report_task_end
<1>2. t \in Tasks /\ RunTypes /\ health \in RuntimeHealthState
  BY <1>1 DEF RunInv, RunTypes
<1>3. /\ fatal' \in Seq(Tasks) /\ fatal' # <<>> /\ Ended' = Ended \cup {t}
      /\ fatal # <<>> => fatal'[1] = fatal[1]
  BY <1>1, <1>2, OneMoreFatal
<1>4. /\ health' \in RuntimeHealthState /\ health'.fatal_error /\ Aside(health', health)
      /\ health'.interceptor = health.interceptor \/ (t = "interceptor" /\ health'.interceptor = Failed)
      /\ \A k \in Listeners : \/ health'.listeners[k] = health.listeners[k]
                              \/ health.listeners[k] # Unregistered /\ health'.listeners[k] \in {Failed, Stopped}
  BY <1>1, <1>2, EndMarked
<1>5. Registered(health') = Registered(health)
  BY <1>4 DEF Registered, Failed, Stopped, Unregistered
<1>6. Services' = Services /\ Api' = Api /\ Rewriter' = Rewriter /\ ListenersOf(plan') = ListenersOf(plan)
  BY <1>1 DEF Services, Api, Rewriter
<1> USE DEF RunInv, Early, Starts, Stopping, Flushed
<1>7. RunTypes'
  BY <1>1, <1>2, <1>3, <1>4 DEF RunTypes
<1>8. Started'
  BY <1>1, <1>3, <1>6 DEF Started
<1>9. pc \in Early \cup Starts \cup {"running"} /\ t = "interceptor" => handle /\ pc \in {"listeners", "running"}
  <2>1. "interceptor" \notin Services /\ "interceptor" \notin Api /\ "interceptor" \notin ListenersOf(plan)
    BY <1>2, PlanAssumption DEF Services, Api, ListenersOf, RunTypes
  <2>2. up = {} \/ up \subseteq {"cleanup"} \cup Services \cup Api \cup Rewriter \cup ListenersOf(plan)
        \/ pc \notin Early \cup Starts \cup {"running"}
    BY DEF Started
  <2>3. "interceptor" \in Rewriter => handle
    BY DEF Rewriter
  <2>4. pc \in Early \cup (Starts \ {"listeners"}) => ~handle
    BY DEF Told
  <2> QED
    BY <1>1, <2>1, <2>2, <2>3, <2>4
<1>10. Told'
  BY ZenonT(60), <1>1, <1>3, <1>4, <1>5, <1>6, <1>9 DEF Told, Aside, Failed, Stopped, Starting
<1>11. Changed'
  BY <1>1 DEF Changed
<1>12. TakenDown'
  BY <1>1, <1>3, <1>4 DEF TakenDown, Aside
<1>13. NothingLeft' /\ FailureReturned'
  BY <1>1 DEF NothingLeft, FailureReturned
<1> QED
  BY <1>7, <1>8, <1>10, <1>11, <1>12, <1>13

-----------------------------------------------------------------------------
(* What the status is while the run waits. *)

\* While the run waits, its status is what its tasks are.
LEMMA StatusFollows ==
    ASSUME RunInv
    PROVE  StatusTruthful
<1> SUFFICES ASSUME pc = "running" PROVE StatusTruthful
  BY DEF StatusTruthful
<1> DEFINE wanted == {"cleanup"} \cup ListenersOf(plan) \cup (IF plan.standard THEN plan.services ELSE {})
                     \cup (IF plan.api THEN {"api"} ELSE {}) \cup (IF handle THEN {"interceptor"} ELSE {})
           states == {health.listeners[l] : l \in Registered(health)}
<1>1. plan \in Plans /\ health \in RuntimeHealthState
  BY DEF RunInv, RunTypes
<1>2. up \cup silent \cup Ended = wanted /\ up \cap Ended = {} /\ silent \cap Ended = {}
  BY DEF RunInv, Started, Services, Api, Rewriter
<1>3. /\ health.startup_complete /\ (health.fatal_error <=> fatal # <<>>)
      /\ health.export = Disabled /\ health.nbi = Disabled
      /\ \A l \in Listeners : health.listeners[l] # Starting
      /\ ~health.fatal_error =>
           /\ health.api # Failed /\ health.interceptor # Failed
           /\ \A l \in Listeners : health.listeners[l] \in {Unregistered, Running}
      /\ health.allow_zero_listeners = plan.allow
      /\ handle <=> plan.intercept # "off" /\ plan.rules
      /\ plan.intercept = "off" => health.interceptor = Disabled
      /\ plan.intercept # "off" /\ ~plan.rules => health.interceptor = Starting
      /\ handle => health.interceptor \in {Running, Failed}
      /\ Registered(health) = ListenersOf(plan) /\ (plan.allow \/ plan.listeners # {})
  BY DEF RunInv, Told, Early, Starts
<1>4. CASE health.fatal_error
  <2>1. compute_status(health) = "Error"
    BY <1>4 DEF compute_status
  <2>2. fatal[1] \in Ended
    BY <1>3, <1>4, FirstFatal DEF RunInv
  <2>3. ~(wanted \ silent \subseteq up)
    BY <1>2, <2>2
  <2> QED
    BY <2>1, <2>3 DEF StatusTruthful
<1>5. CASE ~health.fatal_error /\ plan.intercept # "off" /\ ~plan.rules
  <2>1. health.interceptor = Starting /\ health.api # Failed
    BY <1>3, <1>5
  <2>2. Failed \notin states
    BY <1>3, <1>5 DEF Registered, Failed, Running
  <2>3. compute_status(health) = "Starting"
    BY <1>5, <2>1, <2>2 DEF compute_status, Failed, Starting
  <2> QED
    BY <1>5, <2>3 DEF StatusTruthful
<1>6. CASE ~health.fatal_error /\ ~(plan.intercept # "off" /\ ~plan.rules)
  <2>1. Ended = {}
    <3>1. fatal = <<>>
      BY <1>3, <1>6
    <3> QED
      BY <3>1 DEF Ended
  <2>2. wanted \ silent \subseteq up
    BY <1>2, <2>1
  <2>3. states \subseteq {Running}
    BY <1>3, <1>6 DEF Registered
  <2>4. states = {} => health.allow_zero_listeners
    <3>1. states = {} => ListenersOf(plan) = {}
      BY <1>3
    <3> QED
      BY <1>1, <1>3, <3>1, PlanAssumption DEF ListenersOf
  <2>5. health.interceptor \in {Disabled, Running} /\ health.api \in {Disabled, Running}
    BY <1>1, <1>3, <1>6 DEF RuntimeHealthState
  <2>6. compute_status(health) = "Ok"
    <3> HIDE DEF states
    <3>1. /\ ~(health.fatal_error \/ health.interceptor = Failed \/ health.api = Failed \/ Failed \in states)
          /\ ~(~health.startup_complete \/ health.interceptor = Starting \/ health.api = Starting \/ Starting \in states)
          /\ ~(\/ states = {} /\ ~health.allow_zero_listeners
               \/ states \ {Running} # {} \/ health.export = Degraded \/ health.nbi = Degraded)
      BY <1>3, <1>6, <2>3, <2>4, <2>5 DEF Failed, Starting, Running, Disabled, Degraded
    <3> USE DEF states
    <3> QED
      BY <1>3, <2>5, <3>1 DEF compute_status
  <2> QED
    BY <1>6, <2>2, <2>6 DEF StatusTruthful
<1> QED
  BY <1>4, <1>5, <1>6

-----------------------------------------------------------------------------
\* A run starts with nothing started and nothing changed.
LEMMA RunInit == LifeInit => RunInv
<1> SUFFICES ASSUME LifeInit PROVE RunInv
  OBVIOUS
<1> USE DEF LifeInit
<1>1. health \in RuntimeHealthState /\ Registered(health) = {}
  <2>1. 0 \in 0..MaxCount
    BY MaxCountAssumption
  <2> QED
    BY <2>1 DEF NewHealth, RuntimeHealthState, Registered, CollectorSnapshot, Disabled, Unregistered
<1>2. RunTypes
  <2>1. host \in HostState /\ log \in Logs
    BY DEF HostState, Logs
  <2>2. <<>> \in Seq(Tasks)
    BY EmptySeq
  <2> QED
    BY <1>1, <2>1, <2>2 DEF RunTypes, Phases, Early
<1>3. Started
  BY DEF Started, Ended, Early, Starts
<1>4. Told
  BY <1>1 DEF Told, NewHealth, Early, Starts, Stopping, Disabled, Failed, Starting, Unregistered
<1>5. Changed
  BY DEF Changed
<1>6. TakenDown
  BY DEF TakenDown, Stopping, Flushed
<1>7. NothingLeft /\ FailureReturned
  BY DEF NothingLeft, FailureReturned
<1> QED
  BY <1>2, <1>3, <1>4, <1>5, <1>6, <1>7 DEF RunInv

\* Every step of a run keeps RunInv.
LEMMA RunKeeps == RunInv /\ [LifeNext]_lifeVars => RunInv'
<1> SUFFICES ASSUME RunInv, [LifeNext]_lifeVars PROVE RunInv'
  OBVIOUS
<1>1. CASE RunnerStep
  BY <1>1, prepare_configInv, init_windows_networkInv, create_startup_contextInv, with_databaseInv,
     init_windows_ca_trustInv, start_background_servicesInv, start_apiInv, start_interceptorInv, spawn_listenersInv,
     wait_for_shutdownInv, shutdown_listener_tasksInv, RunningInterceptor_shutdownInv, stop_background_tasksInv,
     flush_all_pendingInv, finalize_distributed_shutdownInv, write_reportsInv, restore_windows_networkInv,
     closeInv DEF RunnerStep
<1>2. CASE finalize_waits \/ TaskEnds \/ TaskPanics \/ Records \/ StrayEnds \/ Signal \/ stop_flag_present
  BY <1>2, finalize_waitsInv, TaskEndsInv, TaskPanicsInv, RecordsInv, StrayEndsInv, SignalInv, stop_flag_presentInv
<1>3. CASE UNCHANGED lifeVars
  <2> USE <1>3 DEF lifeVars
  <2>1. RunTypes' /\ Told'
    BY DEF RunInv, RunTypes, Told
  <2>2. Started'
    BY DEF RunInv, Started, Ended, Services, Api, Rewriter
  <2>3. Changed' /\ TakenDown'
    BY ZenonT(60) DEF RunInv, Changed, TakenDown
  <2>4. NothingLeft' /\ FailureReturned'
    BY DEF RunInv, NothingLeft, FailureReturned
  <2> QED
    BY <2>1, <2>2, <2>3, <2>4 DEF RunInv
<1> QED
  BY <1>1, <1>2, <1>3 DEF LifeNext

\* Through every phase of every run the tasks that were started, the registry
\* that was told of them and the host that was changed agree
\* (RuntimeRunner::run).
THEOREM RunInvariance == LifeSpec => []RunInv
BY RunInit, RunKeeps, PTL DEF LifeSpec

\* Whatever the plan and whichever phase or task fails, a run that has a
\* context leaves no task, capture or database behind and has reported every
\* event recorded before its flush, each of these unless its failure is on
\* record, has undone what it changed on the host unless a command of the host
\* failed, shows its true status while it waits and returns the first failure
\* (RuntimeRunner::run, stop_runtime_tasks, execute_shutdown,
\* compute_status).
THEOREM RunsLeaveNothing == LifeSpec => []RunLeavesNothing
<1>1. RunInv => RunLeavesNothing
  BY StatusFollows DEF RunInv, RunLeavesNothing
<1> QED
  BY <1>1, RunInvariance, PTL

-----------------------------------------------------------------------------
(* The services for operators *)

Results == {"ok", "transient", "permanent", "bind", "refused"}

\* A service that runs has had as many failures in a row as it counts.
FailuresCounted ==
    /\ outcomes \in Seq(Results) /\ server.failures \in Nat /\ heart.failures \in Nat
    /\ server.at = "serving" => InARow(server.failures)
    /\ heart.at = "beating" => InARow(heart.failures)
    /\ server.at # "off" => heart.at = "off"
    /\ server.at = "off" => server.failures = 0
    /\ heart.at = "off" => heart.failures = 0

ProbeRecord == [at : {"none", "reading", "writing", "closed"}, request : Requests \cup {<<>>},
                answer : {0, 200, 400, 404, 503}, seen : SUBSET {"Ok", "Degraded"}]

\* While its request waits for an answer, a probe has seen the status of the
\* moment; before it has one its request is none, or unanswered.
ProbesSee ==
    /\ server \in [kind : {"Health", "Metrics"}, at : {"off", "serving", "ended"}, failures : Nat]
    /\ heart \in [at : {"off", "beating", "ended"}, failures : Nat]
    /\ status \in {"Ok", "Degraded"} /\ probes \in [Connections -> ProbeRecord]
    /\ \A c \in Connections :
         /\ probes[c].at = "reading" => probes[c].answer = 0
         /\ probes[c].at = "reading" /\ probes[c].seen # {} => status \in probes[c].seen /\ probes[c].request \in Requests
         /\ probes[c].at = "none" => probes[c] = NoProbe

NodeInv == FailuresCounted /\ ProbesSee /\ ServicesEndForCause /\ ReadyTruthful

\* One more failure makes the row longer, and a longer row is a row.
LEMMA RowGrows ==
    ASSUME outcomes \in Seq(Results), NEW n \in Nat, InARow(n), NEW m \in Nat, m <= n + 1, Outcome("transient")
    PROVE  InARow(m)' /\ outcomes' \in Seq(Results)
<1> DEFINE new == Append(outcomes, "transient")
<1>1. outcomes' = new /\ new \in Seq(Results) /\ Len(new) = Len(outcomes) + 1 /\ Len(outcomes) \in Nat
  BY DEF Outcome, Results
<1>2. \A i \in 1 .. Len(outcomes) : new[i] = outcomes[i]
  OBVIOUS
<1>3. new[Len(outcomes) + 1] = "transient"
  OBVIOUS
<1>4. \A i \in Len(new) - m + 1 .. Len(new) : new[i] = "transient"
  BY <1>1, <1>2, <1>3 DEF InARow
<1> QED
  BY <1>1, <1>4 DEF InARow

\* A success, or an error that is not transient, is appended like a failure.
LEMMA OutcomeKept ==
    ASSUME outcomes \in Seq(Results), NEW o \in Results, Outcome(o)
    PROVE  /\ outcomes' \in Seq(Results) /\ InARow(0)'
           /\ Len(outcomes') > 0 /\ outcomes'[Len(outcomes')] = o
BY DEF Outcome, InARow, Results

\* What probe.rs and run_heartbeat start from.
LEMMA NodeInitInv == NodeInit => NodeInv
<1> SUFFICES ASSUME NodeInit PROVE NodeInv
  OBVIOUS
<1>1. outcomes \in Seq(Results)
  BY DEF NodeInit, Results
<1> QED
  BY <1>1 DEF NodeInit, NodeInv, FailuresCounted, ProbesSee, ServicesEndForCause, ReadyTruthful, InARow, NoProbe,
     ProbeRecord

\* A step of a server or of the heartbeat that leaves the probes alone.
LEMMA ServiceStep ==
    ASSUME NodeInv, bind_probe_server \/ accept_fails \/ run_heartbeat \/ heartbeat
    PROVE  NodeInv'
<1> USE NodeAssumption
<1>1. UNCHANGED <<probes, status>> /\ server'.kind = server.kind
      /\ server' \in [kind : {"Health", "Metrics"}, at : {"off", "serving", "ended"}, failures : Nat]
      /\ heart' \in [at : {"off", "beating", "ended"}, failures : Nat]
  <2>1. CASE bind_probe_server
    BY <2>1 DEF NodeInv, ProbesSee, bind_probe_server
  <2>2. CASE accept_fails
    <3>1. server.failures + 1 \in Nat /\ server.at = "serving" /\ UNCHANGED <<probes, status, heart>>
      BY <2>2 DEF NodeInv, ProbesSee, accept_fails
    <3>2. CASE server' = [server EXCEPT !.at = "ended"]
      BY <3>1, <3>2 DEF NodeInv, ProbesSee
    <3>3. CASE server' = [server EXCEPT !.failures = server.failures + 1, !.at = "ended"]
      BY <3>1, <3>3 DEF NodeInv, ProbesSee
    <3>4. CASE server' = [server EXCEPT !.failures = server.failures + 1, !.at = "serving"]
      BY <3>1, <3>4 DEF NodeInv, ProbesSee
    <3> QED
      BY <2>2, <3>1, <3>2, <3>3, <3>4 DEF accept_fails
  <2>3. CASE run_heartbeat
    BY <2>3 DEF NodeInv, ProbesSee, run_heartbeat
  <2>4. CASE heartbeat
    <3>1. heart.failures + 1 \in Nat /\ heart.at = "beating"
      BY <2>4 DEF NodeInv, ProbesSee, heartbeat
    <3>2. CASE heart' = [heart EXCEPT !.failures = 0]
      BY <2>4, <3>2 DEF NodeInv, ProbesSee, heartbeat
    <3>3. CASE heart' = [heart EXCEPT !.failures = @ + 1,
                            !.at = IF heart.failures + 1 >= HEARTBEAT_FAILURE_LIMIT THEN "ended" ELSE @]
      <4>1. CASE heart.failures + 1 >= HEARTBEAT_FAILURE_LIMIT
        <5>1. heart' = [heart EXCEPT !.failures = heart.failures + 1, !.at = "ended"]
          BY <3>3, <4>1
        <5> QED
          BY <2>4, <3>1, <5>1 DEF NodeInv, ProbesSee, heartbeat
      <4>2. CASE ~(heart.failures + 1 >= HEARTBEAT_FAILURE_LIMIT)
        <5>1. heart' = [heart EXCEPT !.failures = heart.failures + 1, !.at = "beating"]
          BY <3>1, <3>3, <4>2
        <5> QED
          BY <2>4, <3>1, <5>1 DEF NodeInv, ProbesSee, heartbeat
      <4> QED
        BY <4>1, <4>2
    <3> QED
      BY <2>4, <3>2, <3>3 DEF heartbeat
  <2> QED
    BY <2>1, <2>2, <2>3, <2>4
<1>2. ProbesSee' /\ ReadyTruthful'
  BY <1>1 DEF NodeInv, ProbesSee, ReadyTruthful
<1>3. FailuresCounted' /\ ServicesEndForCause'
  <2>1. CASE bind_probe_server
    <3>1. outcomes' \in Seq(Results) /\ (server'.at = "ended" => outcomes' = <<"bind">>)
      BY SMTT(30), <2>1 DEF bind_probe_server, Results
    <3> QED
      BY <2>1, <3>1, <1>1 DEF bind_probe_server, NodeInv, FailuresCounted, ServicesEndForCause, InARow, ProbesSee
  <2>2. CASE run_heartbeat
    <3>1. outcomes' = IF heart'.at = "ended" THEN <<"refused">> ELSE <<>>
      BY <2>2 DEF run_heartbeat
    <3>2. outcomes' \in Seq(Results) /\ (heart'.at = "ended" => outcomes' = <<"refused">>)
      <4>1. <<"refused">> \in Seq(Results) /\ <<>> \in Seq(Results)
        BY DEF Results
      <4> QED
        BY <3>1, <4>1
    <3> QED
      BY <2>2, <3>2, <1>1 DEF run_heartbeat, NodeInv, FailuresCounted, ServicesEndForCause, InARow, ProbesSee
  <2>3. CASE accept_fails
    <3>1. CASE Outcome("transient")
      <4>1. server.at = "serving" /\ heart.at = "off" /\ heart' = heart
        BY <2>3 DEF accept_fails, NodeInv, FailuresCounted
      <4>2. server' = [server EXCEPT !.failures = @ + 1,
                          !.at = IF server.failures + 1 >= PROBE_ACCEPT_RETRY_LIMIT THEN "ended" ELSE @]
        BY <2>3, <3>1 DEF accept_fails, Outcome
      <4>3. server.failures \in Nat /\ InARow(server.failures) /\ outcomes \in Seq(Results) /\ heart.failures = 0
        BY <4>1 DEF NodeInv, FailuresCounted
      <4>4. \A m \in Nat : m <= server.failures + 1 => InARow(m)'
        BY <3>1, <4>3, RowGrows
      <4>5. outcomes' \in Seq(Results)
        BY <3>1, OutcomeKept, <4>3 DEF Results
      <4>6. server'.failures = server.failures + 1 /\ server'.at \in {"serving", "ended"}
            /\ (server'.at = "ended" => server.failures + 1 >= PROBE_ACCEPT_RETRY_LIMIT)
        BY <4>1, <4>2, <4>3 DEF NodeInv, ProbesSee
      <4>7. InARow(server.failures)' /\ (server'.at = "ended" => InARow(PROBE_ACCEPT_RETRY_LIMIT)')
        BY <4>3, <4>4, <4>6
      <4> QED
        BY <4>1, <4>3, <4>4, <4>5, <4>6, <4>7 DEF FailuresCounted, ServicesEndForCause
    <3>2. CASE Outcome("permanent") /\ server' = [server EXCEPT !.at = "ended"]
      BY <2>3, <3>2, OutcomeKept DEF Results, accept_fails, NodeInv, FailuresCounted, ServicesEndForCause, ProbesSee
    <3> QED
      BY <2>3, <3>1, <3>2 DEF accept_fails
  <2>4. CASE heartbeat
    <3>1. heart.at = "beating" /\ server.at = "off" /\ server' = server
      BY <2>4 DEF heartbeat, NodeInv, FailuresCounted, ProbesSee
    <3>2. CASE Outcome("transient")
      <4>2. heart' = [heart EXCEPT !.failures = @ + 1,
                          !.at = IF heart.failures + 1 >= HEARTBEAT_FAILURE_LIMIT THEN "ended" ELSE @]
        BY <2>4, <3>2 DEF heartbeat, Outcome
      <4>3. heart.failures \in Nat /\ InARow(heart.failures) /\ outcomes \in Seq(Results) /\ server.failures = 0
        BY <3>1 DEF NodeInv, FailuresCounted
      <4>4. \A m \in Nat : m <= heart.failures + 1 => InARow(m)'
        BY <3>2, <4>3, RowGrows
      <4>5. outcomes' \in Seq(Results)
        BY <3>2, OutcomeKept, <4>3 DEF Results
      <4>6. heart'.failures = heart.failures + 1 /\ heart'.at \in {"beating", "ended"}
            /\ (heart'.at = "ended" => heart.failures + 1 >= HEARTBEAT_FAILURE_LIMIT)
        BY <3>1, <4>2, <4>3 DEF NodeInv, ProbesSee
      <4>7. InARow(heart.failures)' /\ (heart'.at = "ended" => InARow(HEARTBEAT_FAILURE_LIMIT)')
        BY <4>3, <4>4, <4>6
      <4> QED
        BY <3>1, <4>3, <4>4, <4>5, <4>6, <4>7 DEF FailuresCounted, ServicesEndForCause
    <3>3. CASE Outcome("ok") /\ heart' = [heart EXCEPT !.failures = 0]
      BY <2>4, <3>1, <3>3, OutcomeKept DEF Results, heartbeat, NodeInv, FailuresCounted, ServicesEndForCause, ProbesSee
    <3> QED
      BY <2>4, <3>2, <3>3 DEF heartbeat
  <2> QED
    BY <2>1, <2>2, <2>3, <2>4
<1> QED
  BY <1>2, <1>3 DEF NodeInv

\* A probe is told ready or not as the status of the moment is.
LEMMA AnswerTrue ==
    ASSUME NEW r \in Requests, NEW kind \in {"Health", "Metrics"}, NEW s \in {"Ok", "Degraded"}
    PROVE  LET a == route_probe_request_bytes(r, kind, s)
           IN  /\ a \in {200, 400, 404, 503}
               /\ kind = "Health" /\ r.path = "/ready" /\ a = 200 => s = "Ok"
               /\ kind = "Health" /\ r.path = "/ready" /\ a = 503 => s = "Degraded"
BY DEF route_probe_request_bytes, route_probe_request, parse_request_path

\* A step of one probe connection.
LEMMA ProbeStepInv ==
    ASSUME NodeInv, NEW c \in Connections, accept(c) \/ RequestArrives(c) \/ ProbeStep(c)
    PROVE  NodeInv'
<1> USE DEF NodeInv, ProbesSee
<1>1. CASE accept(c)
  <2>1. probes' \in [Connections -> ProbeRecord]
    BY <1>1 DEF accept, ProbeRecord
  <2>2. FailuresCounted' /\ ServicesEndForCause'
    BY <1>1, OutcomeKept DEF Results, accept, FailuresCounted, ServicesEndForCause
  <2> QED
    BY <1>1, <2>1, <2>2 DEF accept, ReadyTruthful, NoProbe
<1>2. CASE RequestArrives(c) \/ ProbeStep(c)
  <2>1. UNCHANGED <<server, status, heart, outcomes>>
    BY <1>2 DEF RequestArrives, ProbeStep, handle_probe_connection, read_times_out, write_ends
  <2>2. FailuresCounted' /\ ServicesEndForCause'
    BY <2>1 DEF FailuresCounted, ServicesEndForCause, InARow
  <2>3. CASE RequestArrives(c)
    <3>1. PICK r \in Requests : probes' = [probes EXCEPT ![c].request = r, ![c].seen = {status}]
      BY <2>3 DEF RequestArrives
    <3>2. /\ probes'[c] = [at |-> probes[c].at, request |-> r, answer |-> probes[c].answer, seen |-> {status}]
          /\ probes[c].at = "reading"
      <4>1. probes[c] \in ProbeRecord /\ probes'[c] = [probes[c] EXCEPT !.request = r, !.seen = {status}]
        BY <3>1
      <4>2. probes[c].at = "reading"
        BY <2>3 DEF RequestArrives
      <4> HIDE DEF NodeInv, ProbesSee
      <4> DEFINE now == {status}
      <4> HIDE DEF now
      <4>3. probes'[c] = [at |-> probes[c].at, request |-> r, answer |-> probes[c].answer, seen |-> now]
        <5>1. probes'[c] = [probes[c] EXCEPT !.request = r, !.seen = now]
          BY <4>1 DEF now
        <5>2. probes[c] = [at |-> probes[c].at, request |-> probes[c].request, answer |-> probes[c].answer,
                           seen |-> probes[c].seen]
          BY <4>1 DEF ProbeRecord
        <5> QED
          BY <5>1, <5>2
      <4> QED
        BY <4>2, <4>3 DEF now
    <3>3. probes'[c] \in ProbeRecord
      BY <3>2 DEF ProbeRecord
    <3>4. \A d \in Connections : d # c => probes'[d] = probes[d]
      BY <3>1
    <3>5. probes' \in [Connections -> ProbeRecord]
      BY <3>1, <3>3, <3>4
    <3> QED
      BY <2>1, <2>2, <3>2, <3>4, <3>5 DEF ReadyTruthful
  <2>4. CASE handle_probe_connection(c)
    <3>1. probes[c].request \in Requests /\ status \in probes[c].seen
      BY <2>4 DEF handle_probe_connection
    <3>2. probes'[c] = [probes[c] EXCEPT !.at = "writing",
                                         !.answer = route_probe_request_bytes(probes[c].request, server.kind, status)]
      BY <2>4 DEF handle_probe_connection, ProbeRecord
    <3>3. \A d \in Connections : d # c => probes'[d] = probes[d]
      BY <2>4 DEF handle_probe_connection
    <3>4. probes' \in [Connections -> ProbeRecord]
      BY <2>4, <3>1, AnswerTrue DEF handle_probe_connection, ProbeRecord
    <3> DEFINE a == route_probe_request_bytes(probes[c].request, server.kind, status)
    <3>5. /\ server.kind = "Health" /\ probes[c].request.path = "/ready" /\ a = 200 => status = "Ok"
          /\ server.kind = "Health" /\ probes[c].request.path = "/ready" /\ a = 503 => status = "Degraded"
      BY <3>1, AnswerTrue
    <3>6. probes'[c].answer = a /\ probes'[c].request = probes[c].request /\ probes'[c].seen = probes[c].seen
          /\ probes'[c].at = "writing"
      BY <3>2 DEF ProbeRecord
    <3> HIDE DEF a
    <3> QED
      BY <2>1, <2>2, <3>1, <3>3, <3>4, <3>5, <3>6 DEF ReadyTruthful
  <2>5. CASE read_times_out(c) \/ write_ends(c)
    <3>1. probes' = [probes EXCEPT ![c].at = "closed"]
      BY <2>5 DEF read_times_out, write_ends
    <3>2. probes'[c] = [at |-> "closed", request |-> probes[c].request, answer |-> probes[c].answer,
                        seen |-> probes[c].seen]
      BY <3>1 DEF ProbeRecord
    <3>3. probes'[c] \in ProbeRecord
      BY <3>2 DEF ProbeRecord
    <3>4. \A d \in Connections : d # c => probes'[d] = probes[d]
      BY <3>1
    <3>5. probes' \in [Connections -> ProbeRecord]
      BY <3>1, <3>3, <3>4
    <3> QED
      BY <2>1, <2>2, <3>2, <3>4, <3>5 DEF ReadyTruthful
  <2> QED
    BY <1>2, <2>3, <2>4, <2>5 DEF ProbeStep
<1> QED
  BY <1>1, <1>2

\* A step of all probes at once: the server ends, or the status changes.
LEMMA AllProbesStep ==
    ASSUME NodeInv, TasksAborted \/ StatusChanges
    PROVE  NodeInv'
<1> USE DEF NodeInv, ProbesSee
<1>1. UNCHANGED <<server, heart, outcomes>> /\ status' \in {"Ok", "Degraded"}
  BY DEF TasksAborted, StatusChanges
<1>2. FailuresCounted' /\ ServicesEndForCause'
  BY <1>1 DEF FailuresCounted, ServicesEndForCause, InARow
<1>3. CASE TasksAborted
  <2>1. probes' \in [Connections -> ProbeRecord]
    BY <1>3 DEF TasksAborted, ProbeRecord
  <2> QED
    BY <1>1, <1>2, <1>3, <2>1 DEF TasksAborted, ReadyTruthful, ProbeRecord
<1>4. CASE StatusChanges
  <2>1. probes' \in [Connections -> ProbeRecord]
    BY <1>1, <1>4 DEF StatusChanges, ProbeRecord
  <2> QED
    BY <1>1, <1>2, <1>4, <2>1 DEF StatusChanges, ReadyTruthful, ProbeRecord
<1> QED
  BY <1>3, <1>4

-----------------------------------------------------------------------------
(* The commands of the host *)

ReaderRecord == [content : Nat, read : Nat, too_large : BOOLEAN, ended : BOOLEAN]

Keeps(r) == /\ r.content = AtMost(r.read, OUTPUT_LIMIT_BYTES)
            /\ r.too_large <=> r.read > OUTPUT_LIMIT_BYTES

\* A reader has kept what the limit allows of all it has read, and has ended
\* only after the child, with nothing left in its pipe.
CommandInv ==
    /\ child \in {"running", "stuck", "ended"} /\ grandchild \in BOOLEAN
    /\ caller \in {"waiting", "joining", "ok", "too large", "timed out", "failed"}
    /\ pipe \in [Streams -> Nat] /\ output \in [Streams -> Nat] /\ reader \in [Streams -> ReaderRecord]
    /\ \A s \in Streams : Keeps(reader[s]) /\ (reader[s].ended => pipe[s] = 0 /\ child = "ended")
    /\ caller \notin {"waiting", "failed"} => child = "ended"
    /\ caller \in {"ok", "too large"} => \A s \in Streams : reader[s].ended
    /\ caller = "ok" => \A s \in Streams : ~reader[s].too_large
    /\ caller = "too large" => \E s \in Streams : reader[s].too_large

\* A read, of any length the pipe has.
LEMMA ReadStep ==
    ASSUME CommandInv, NEW s \in Streams, read_limited_command_stream(s)
    PROVE  CommandInv'
<1> USE CommandAssumption
<1>1. PICK n \in 1 .. AtMost(pipe[s], ReadBytes) :
         /\ pipe' = [pipe EXCEPT ![s] = @ - n]
         /\ reader' = [reader EXCEPT ![s].content = AtMost(@ + n, OUTPUT_LIMIT_BYTES), ![s].read = @ + n,
                                     ![s].too_large = @ \/ Exceeds(reader[s].content, n)]
  BY DEF read_limited_command_stream
<1>2. pipe[s] \in Nat /\ reader[s] \in ReaderRecord /\ Keeps(reader[s]) /\ (reader[s].ended => pipe[s] = 0)
  BY DEF CommandInv
<1>3. n \in Nat /\ n > 0 /\ n <= pipe[s]
  BY <1>2 DEF AtMost
<1>4. UNCHANGED <<child, output, grandchild, caller>>
  BY DEF read_limited_command_stream
<1>5. ~reader[s].ended
  BY <1>2, <1>3
<1>6. /\ reader'[s] = [content |-> AtMost(reader[s].content + n, OUTPUT_LIMIT_BYTES), read |-> reader[s].read + n,
                       too_large |-> reader[s].too_large \/ Exceeds(reader[s].content, n), ended |-> reader[s].ended]
      /\ \A x \in Streams : x # s => reader'[x] = reader[x] /\ pipe'[x] = pipe[x]
      /\ pipe'[s] = pipe[s] - n
  BY <1>1, <1>2 DEF CommandInv, ReaderRecord
<1>7. reader[s].read \in Nat /\ reader[s].content \in Nat /\ reader[s].too_large \in BOOLEAN
      /\ reader[s].ended \in BOOLEAN
  BY <1>2 DEF ReaderRecord
<1>8. reader'[s].too_large <=> reader[s].too_large \/ Exceeds(reader[s].content, n)
  <2> DEFINE large == reader[s].too_large \/ Exceeds(reader[s].content, n)
  <2> HIDE DEF large
  <2>1. reader'[s].too_large = large
    BY <1>6 DEF large
  <2> QED
    BY <2>1, Zenon DEF large
<1>9. reader'[s].content = AtMost(reader[s].content + n, OUTPUT_LIMIT_BYTES) /\ reader'[s].read = reader[s].read + n
  BY <1>6
<1>10. Keeps(reader'[s])
  <2>1. reader[s].too_large \/ Exceeds(reader[s].content, n) <=> reader[s].read + n > OUTPUT_LIMIT_BYTES
    BY <1>2, <1>3, <1>7 DEF Keeps, AtMost, Exceeds
  <2>2. AtMost(reader[s].content + n, OUTPUT_LIMIT_BYTES) = AtMost(reader[s].read + n, OUTPUT_LIMIT_BYTES)
    BY <1>2, <1>3, <1>7 DEF Keeps, AtMost
  <2> QED
    BY <2>1, <2>2, <1>8, <1>9 DEF Keeps
<1>11. reader'[s] \in ReaderRecord
  <2>1. AtMost(reader[s].content + n, OUTPUT_LIMIT_BYTES) \in Nat /\ reader[s].read + n \in Nat
    BY <1>3, <1>7 DEF AtMost
  <2>2. (reader[s].too_large \/ Exceeds(reader[s].content, n)) \in BOOLEAN
    BY Zenon
  <2> QED
    BY <1>6, <1>7, <2>1, <2>2 DEF ReaderRecord
<1>12. pipe' \in [Streams -> Nat] /\ reader' \in [Streams -> ReaderRecord]
  <2>1. pipe' = [x \in Streams |-> pipe'[x]] /\ reader' = [x \in Streams |-> reader'[x]]
    BY <1>1 DEF CommandInv
  <2>2. \A x \in Streams : pipe'[x] \in Nat /\ reader'[x] \in ReaderRecord
    <3>1. \A x \in Streams : pipe[x] \in Nat /\ reader[x] \in ReaderRecord
      BY DEF CommandInv
    <3>2. pipe[s] - n \in Nat
      BY <1>2, <1>3
    <3> QED
      BY <1>6, <1>11, <3>1, <3>2
  <2> QED
    BY <2>1, <2>2
<1>13. reader'[s].ended = reader[s].ended
  BY <1>6
<1>14. \A x \in Streams : Keeps(reader'[x])
  BY <1>6, <1>10 DEF CommandInv
<1>15. \A x \in Streams : reader'[x].ended => pipe'[x] = 0 /\ child' = "ended"
  BY <1>4, <1>5, <1>6, <1>13 DEF CommandInv
<1>16. caller \notin {"ok", "too large"}
  BY <1>5 DEF CommandInv
<1> QED
  BY <1>4, <1>12, <1>14, <1>15, <1>16 DEF CommandInv

\* The other steps of the child, its readers and its caller.
LEMMA CommandStep ==
    ASSUME CommandInv, [CommandNext]_commandVars
    PROVE  CommandInv'
<1> USE DEF CommandInv
<1>1. ASSUME NEW s \in Streams, ChildWrites(s) PROVE CommandInv'
  <2>1. pipe' \in [Streams -> Nat] /\ output' \in [Streams -> Nat]
    <3>1. output[s] \in Nat /\ pipe[s] \in Nat /\ output[s] > 0
      BY <1>1 DEF ChildWrites
    <3>2. output[s] - 1 \in Nat /\ pipe[s] + 1 \in Nat
      <4> HIDE DEF CommandInv
      <4> QED
        BY <3>1
    <3> QED
      BY <1>1, <3>2 DEF ChildWrites
  <2> QED
    BY <1>1, <2>1 DEF ChildWrites
<1>2. CASE ChildEnds \/ ChildHangs \/ GrandchildEnds
  BY <1>2 DEF ChildEnds, ChildHangs, GrandchildEnds
<1>3. ASSUME NEW s \in Streams, reader_ends(s) PROVE CommandInv'
  <2>1. reader[s] \in ReaderRecord /\ reader' = [reader EXCEPT ![s].ended = TRUE]
    BY <1>3 DEF reader_ends
  <2>2. reader'[s] = [content |-> reader[s].content, read |-> reader[s].read, too_large |-> reader[s].too_large,
                      ended |-> TRUE]
    BY <2>1 DEF ReaderRecord
  <2>3. reader'[s] \in ReaderRecord
    BY <2>1, <2>2 DEF ReaderRecord
  <2>4. reader'[s].too_large = reader[s].too_large /\ reader'[s].content = reader[s].content
        /\ reader'[s].read = reader[s].read
    <3> HIDE DEF CommandInv
    <3> QED
      BY <2>2
  <2>5. \A x \in Streams : x # s => reader'[x] = reader[x]
    BY <2>1
  <2>6. reader' \in [Streams -> ReaderRecord]
    BY <2>1, <2>3, <2>5
  <2>7. \A x \in Streams : Keeps(reader'[x]) /\ reader'[x].too_large = reader[x].too_large
    BY <2>4, <2>5 DEF Keeps
  <2>8. \A x \in Streams : reader[x].ended => x # s
    BY <1>3 DEF reader_ends
  <2> QED
    BY <1>3, <2>5, <2>6, <2>7, <2>8 DEF reader_ends
<1>4. CASE wait_for_command
  BY <1>4 DEF wait_for_command
<1>5. CASE join_limited_reader \/ join_fails
  BY <1>5 DEF join_limited_reader, join_fails
<1>6. CASE UNCHANGED commandVars
  BY <1>6 DEF commandVars
<1> QED
  BY <1>1, <1>2, <1>3, <1>4, <1>5, <1>6, ReadStep DEF CommandNext, ReaderStep

\* What operators see of a node is true, for any number of connections, any
\* requests and any limits: a service ends only for a cause, ready means ready
\* (probe.rs, run_heartbeat), and the output of a command is all of it or is
\* refused for a reason (run_command_with_limited_output).
THEOREM OperatorsSeeTruth == NodeSpec /\ CommandSpec => []NodeTruthful
<1>1. NodeInv /\ [NodeNext]_nodeVars => NodeInv'
  <2>1. NodeInv /\ UNCHANGED nodeVars => NodeInv'
    BY DEF nodeVars, NodeInv, FailuresCounted, ProbesSee, ServicesEndForCause, ReadyTruthful, InARow
  <2> QED
    BY <2>1, ServiceStep, ProbeStepInv, AllProbesStep DEF NodeNext
<1>2. CommandInit => CommandInv
  <2> SUFFICES ASSUME CommandInit PROVE CommandInv
    OBVIOUS
  <2>1. \A s \in Streams : reader[s] = [content |-> 0, read |-> 0, too_large |-> FALSE, ended |-> FALSE]
    BY DEF CommandInit
  <2>2. \A s \in Streams : reader[s] \in ReaderRecord /\ Keeps(reader[s]) /\ ~reader[s].ended
    <3> SUFFICES ASSUME NEW s \in Streams PROVE reader[s] \in ReaderRecord /\ Keeps(reader[s]) /\ ~reader[s].ended
      OBVIOUS
    <3>1. reader[s] \in ReaderRecord
      <4> DEFINE no == FALSE
      <4>1. no \in BOOLEAN
        BY Zenon
      <4> HIDE DEF no
      <4>2. reader[s] = [content |-> 0, read |-> 0, too_large |-> no, ended |-> no]
        BY <2>1 DEF no
      <4> QED
        BY <4>1, <4>2 DEF ReaderRecord
    <3>2. reader[s].content = 0 /\ reader[s].read = 0 /\ reader[s].too_large = FALSE /\ reader[s].ended = FALSE
      BY <2>1
    <3>3. AtMost(0, OUTPUT_LIMIT_BYTES) = 0 /\ ~(0 > OUTPUT_LIMIT_BYTES)
      BY CommandAssumption DEF AtMost
    <3> QED
      BY <3>1, <3>2, <3>3 DEF Keeps
  <2>3. pipe \in [Streams -> Nat] /\ output \in [Streams -> Nat] /\ reader \in [Streams -> ReaderRecord]
    BY <2>2, CommandAssumption DEF CommandInit
  <2> QED
    BY <2>2, <2>3 DEF CommandInit, CommandInv
<1>3. NodeInv /\ CommandInv => NodeTruthful
  <2>1. CommandInv => OutputExact
    <3> SUFFICES ASSUME CommandInv PROVE OutputExact
      OBVIOUS
    <3>1. \A s \in Streams : /\ ~reader[s].too_large => reader[s].content = reader[s].read
                             /\ reader[s].too_large => reader[s].read > OUTPUT_LIMIT_BYTES
      <4> SUFFICES ASSUME NEW s \in Streams
                   PROVE  /\ ~reader[s].too_large => reader[s].content = reader[s].read
                          /\ reader[s].too_large => reader[s].read > OUTPUT_LIMIT_BYTES
        OBVIOUS
      <4>1. Keeps(reader[s]) /\ reader[s].read \in Nat
        BY DEF CommandInv, ReaderRecord
      <4> QED
        BY <4>1, CommandAssumption DEF Keeps, AtMost
    <3> QED
      BY <3>1 DEF CommandInv, OutputExact
  <2> QED
    BY <2>1 DEF NodeInv, NodeTruthful
<1> QED
  BY <1>1, <1>2, <1>3, NodeInitInv, CommandStep, PTL DEF NodeSpec, CommandSpec
===============================================================================
