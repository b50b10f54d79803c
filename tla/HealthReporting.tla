-------------------------- MODULE HealthReporting --------------------------
(***************************************************************************)
(* How the NBI collector reports to the runtime health registry            *)
(* (nettrap-cli/src/nbi/health.rs, nbi/fanout.rs, nbi.rs and the fanout's  *)
(* update_runtime_health).                                                 *)
(*                                                                         *)
(* Producers, the local and the export worker, the supervisor and the      *)
(* shutdown path all report concurrently.  A report bumps an atomic        *)
(* counter, reads the registry handle, copies the counters into a          *)
(* snapshot, hands the snapshot to the registry and then calls one setter: *)
(* five steps during which every other task may run.  The script of the    *)
(* steps a task still has to take is its entry of todo.                    *)
(***************************************************************************)
EXTENDS RuntimeHealth, Sequences

CONSTANTS
    Reporters,        \* tasks that report
    FailureLimit      \* DISTRIBUTED_EXPORT_FAILURE_LIMIT

ASSUME ReportingAssumption == FailureLimit \in Nat

VARIABLES
    health,       \* the registry
    attached,     \* NbiCollector.runtime_health is Some
    localTarget,  \* has_local_persistence_target()
    fanoutHealth, \* the active fanout's FanoutRuntimeHealth is Active
    lastError,    \* EventFanout.last_observed_error is Some
    failures,     \* EventFanout.consecutive_failures
    counters,     \* the collector's atomics
    todo,         \* [Reporters -> steps still to take]
    snap          \* [Reporters -> the snapshot taken]

healthVars == <<health, attached, localTarget, fanoutHealth, lastError, failures,
          counters, todo, snap>>

Counters == [export_dropped : 0..MaxCount, export_rejected : 0..MaxCount,
             export_unknown : 0..MaxCount, local_lost : 0..MaxCount]

Steps == {"write", "sync_local", "attach_fanout", "seed", "decide", "check", "publish", "snapshot",
          "update", "export_loss", "export_degraded", "export_running",
          "nbi_loss", "nbi_degraded", "nbi_running", "nbi_disabled"}

HealthTypeOK ==
    /\ health \in RuntimeHealthState
    /\ attached \in BOOLEAN /\ localTarget \in BOOLEAN
    /\ fanoutHealth \in BOOLEAN /\ lastError \in BOOLEAN
    /\ failures \in 0..FailureLimit
    /\ counters \in Counters
    /\ todo \in [Reporters -> Seq(Steps)]
    /\ snap \in [Reporters -> Counters]

Zero == [export_dropped |-> 0, export_rejected |-> 0, export_unknown |-> 0, local_lost |-> 0]

HealthInit ==
    /\ health = NewHealth
    /\ attached = FALSE
    /\ localTarget \in BOOLEAN
    /\ fanoutHealth = FALSE
    /\ lastError = FALSE
    /\ failures = 0
    /\ counters = Zero
    /\ todo = [r \in Reporters |-> <<>>]
    /\ snap = [r \in Reporters |-> Zero]

Idle(r) == todo[r] = <<>>

ReportAt(r, step) == ~Idle(r) /\ Head(todo[r]) = step

-----------------------------------------------------------------------------
(* The start of a report: the counter, and what the task does next. *)

Shared(setter)    == <<"check", "snapshot", "update", setter>>
Published(setter) == <<"publish", "update", "check", setter>>

\* atomic_fetch_add_saturating(counter, 1), then the rest of the report.
Bump(r, counter, script) ==
    /\ Idle(r)
    /\ counters[counter] < MaxCount
    /\ counters' = [counters EXCEPT ![counter] = @ + 1]
    /\ todo' = [todo EXCEPT ![r] = script]
    /\ UNCHANGED <<health, attached, localTarget, fanoutHealth, lastError, failures, snap>>

Report(r, script) ==
    /\ Idle(r)
    /\ todo' = [todo EXCEPT ![r] = script]
    /\ UNCHANGED <<health, attached, localTarget, fanoutHealth, lastError, failures, counters, snap>>

note_export_delivery_loss_shared(r) == Bump(r, "export_dropped", Shared("export_loss"))

note_export_delivery_unknown_shared(r) == Bump(r, "export_unknown", Shared("export_degraded"))

record_shutdown_export_loss(r) == Bump(r, "export_dropped", Published("export_loss"))

drop_export_event(r) == Bump(r, "export_rejected", Published("export_degraded"))

note_export_flush_issue_shared(r) == Report(r, Shared("export_degraded"))

drop_local_event(r) == localTarget /\ Bump(r, "local_lost", Published("nbi_loss"))

\* persist_local_record failed on every target, or on one of two.
note_local_persist_issue_shared(r) ==
    /\ localTarget
    /\ \/ Bump(r, "local_lost", Shared("nbi_loss"))
       \/ Report(r, Shared("nbi_degraded"))

\* run_local_worker after a record that reached every configured target.
local_record_persisted(r) ==
    localTarget /\ Report(r, <<"check", "nbi_running", "snapshot", "update">>)

\* update_runtime_health of the fanout with runtime health None or Active.
update_runtime_health(r, ok) ==
    /\ Idle(r)
    /\ lastError' = ~ok
    /\ IF fanoutHealth
       THEN /\ failures' = IF ok THEN 0 ELSE IF failures < FailureLimit THEN failures + 1 ELSE failures
            /\ todo' = [todo EXCEPT ![r] = IF ok THEN <<"export_running">>
                                           ELSE IF failures' >= FailureLimit
                                                THEN <<"export_degraded">> ELSE <<>>]
       ELSE UNCHANGED <<failures, todo>>
    /\ UNCHANGED <<health, attached, localTarget, fanoutHealth, counters, snap>>

Attaching == \E q \in Reporters : "write" \in {todo[q][i] : i \in DOMAIN todo[q]}

\* Mutant: the earlier counts are read before the handle is published.
attach_runtime_health_mutant(r) ==
    /\ ~attached /\ ~Attaching
    /\ Report(r, <<"seed", "write", "sync_local", "attach_fanout", "decide", "publish", "update">>)

\* NbiCollector::attach_runtime_health, called once at startup.
attach_runtime_health(r) ==
    /\ ~attached /\ ~Attaching
    /\ Report(r, <<"write", "sync_local", "attach_fanout", "seed", "decide", "publish", "update">>)

\* attach_database: a persistence target appears, then the pipeline state follows.
\* with_database runs it during startup, before any listener can record.
attach_database(r) ==
    /\ counters = Zero /\ \A q \in Reporters : Idle(q)
    /\ ~localTarget
    /\ localTarget' = TRUE
    /\ todo' = [todo EXCEPT ![r] = <<"check", "sync_local">>]
    /\ UNCHANGED <<health, attached, fanoutHealth, lastError, failures, counters, snap>>

-----------------------------------------------------------------------------
(* One step of a report. *)

Setter(h, s) ==
    CASE s = "export_loss"     -> set_distributed_export_loss(h)
      [] s = "export_degraded" -> set_distributed_export_degraded(h)
      [] s = "export_running"  -> set_distributed_export_running(h)
      [] s = "nbi_loss"        -> set_nbi_pipeline_loss(h)
      [] s = "nbi_degraded"    -> set_nbi_pipeline_degraded(h)
      [] s = "nbi_running"     -> set_nbi_pipeline_running(h)
      [] s = "nbi_disabled"    -> set_nbi_pipeline_disabled(h)

Setters == {"export_loss", "export_degraded", "export_running",
            "nbi_loss", "nbi_degraded", "nbi_running", "nbi_disabled"}

Advance(r) == todo' = [todo EXCEPT ![r] = Tail(@)]

\* if let Some(runtime_health) = ...read().clone(): nothing more to do without one.
CheckAttached(r) ==
    /\ ReportAt(r, "check")
    /\ todo' = [todo EXCEPT ![r] = IF attached THEN Tail(@) ELSE <<>>]
    /\ UNCHANGED <<health, attached, localTarget, fanoutHealth, lastError, failures, counters, snap>>

\* publish_runtime_health: without a registry its update is skipped.
publish_runtime_health(r) ==
    /\ ReportAt(r, "publish")
    /\ IF attached
       THEN Advance(r) /\ snap' = [snap EXCEPT ![r] = counters]
       ELSE /\ todo' = [todo EXCEPT ![r] = Tail(Tail(@))]
            /\ UNCHANGED snap
    /\ UNCHANGED <<health, attached, localTarget, fanoutHealth, lastError, failures, counters>>

\* WorkerHealthRefs::snapshot.
TakeSnapshot(r) ==
    /\ ReportAt(r, "snapshot") \/ ReportAt(r, "seed")
    /\ Advance(r)
    /\ snap' = [snap EXCEPT ![r] = counters]
    /\ UNCHANGED <<health, attached, localTarget, fanoutHealth, lastError, failures, counters>>

ApplySnapshot(r) ==
    /\ ReportAt(r, "update")
    /\ Advance(r)
    /\ health' = update_nbi_collector(health,
                     [export_rejected |-> snap[r].export_rejected,
                      export_unknown  |-> snap[r].export_unknown])
    /\ UNCHANGED <<attached, localTarget, fanoutHealth, lastError, failures, counters, snap>>

CallSetter(r) ==
    /\ ~Idle(r) /\ Head(todo[r]) \in Setters
    /\ Advance(r)
    /\ health' = Setter(health, Head(todo[r]))
    /\ UNCHANGED <<attached, localTarget, fanoutHealth, lastError, failures, counters, snap>>

WriteHandle(r) ==
    /\ ReportAt(r, "write")
    /\ Advance(r)
    /\ attached' = TRUE
    /\ UNCHANGED <<health, localTarget, fanoutHealth, lastError, failures, counters, snap>>

sync_local_persistence_health(r) ==
    /\ ReportAt(r, "sync_local")
    /\ todo' = [todo EXCEPT ![r][1] = IF localTarget THEN "nbi_running" ELSE "nbi_disabled"]
    /\ UNCHANGED <<health, attached, localTarget, fanoutHealth, lastError, failures, counters, snap>>

\* EventFanout::attach_runtime_health of the active fanout.
fanout_attach_runtime_health(r) ==
    /\ ReportAt(r, "attach_fanout")
    /\ Advance(r)
    /\ fanoutHealth' = TRUE
    /\ health' = IF lastError THEN set_distributed_export_degraded(health)
                              ELSE set_distributed_export_running(health)
    /\ UNCHANGED <<attached, localTarget, lastError, failures, counters, snap>>

\* attach_runtime_health replays what was lost before the registry was there.
ReplayEarlierLoss(r) ==
    /\ ReportAt(r, "decide")
    /\ Advance(r)
    /\ health' = IF snap[r].export_dropped > 0 THEN set_distributed_export_loss(health)
                 ELSE IF snap[r].export_unknown > 0 \/ snap[r].export_rejected > 0
                 THEN set_distributed_export_degraded(health)
                 ELSE health
    /\ UNCHANGED <<attached, localTarget, fanoutHealth, lastError, failures, counters, snap>>

StartReport(r) ==
    \/ note_export_delivery_loss_shared(r)
    \/ note_export_delivery_unknown_shared(r)
    \/ record_shutdown_export_loss(r)
    \/ drop_export_event(r)
    \/ note_export_flush_issue_shared(r)
    \/ drop_local_event(r)
    \/ note_local_persist_issue_shared(r)
    \/ local_record_persisted(r)
    \/ \E ok \in BOOLEAN : update_runtime_health(r, ok)
    \/ attach_runtime_health(r)
    \/ attach_database(r)

Step(r) ==
    \/ CheckAttached(r) \/ publish_runtime_health(r) \/ TakeSnapshot(r)
    \/ ApplySnapshot(r) \/ CallSetter(r) \/ WriteHandle(r)
    \/ sync_local_persistence_health(r) \/ fanout_attach_runtime_health(r)
    \/ ReplayEarlierLoss(r)

HealthNext == \E r \in Reporters : StartReport(r) \/ Step(r)

HealthSpec == HealthInit /\ [][HealthNext]_healthVars

-----------------------------------------------------------------------------
(* Properties *)

Quiet == \A r \in Reporters : Idle(r)

\* Once nobody is half-way through a report, an export loss that was ever
\* counted (before or after the registry was attached) is latched and shown
\* as Degraded: attach_runtime_health and the reports cannot miss each other.
ExportLossVisible ==
    Quiet /\ attached /\ counters.export_dropped > 0
        => health.export_latched /\ health.export = Degraded

\* A local loss that reached the registry is never masked again by the
\* successes, the partial failures or the syncs of the other tasks.
NbiLossNotMasked ==
    [][health.nbi_latched => health'.nbi_latched /\ health'.nbi = Degraded]_healthVars
=============================================================================
