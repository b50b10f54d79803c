--------------------------- MODULE RuntimeHealth ---------------------------
(***************************************************************************)
(* The runtime health registry (nettrap-engine/src/health.rs).             *)
(*                                                                         *)
(* One RwLock guards the whole state, so every setter is one atomic step.  *)
(* Each setter is an operator from a registry value to the next one; the   *)
(* modules that extend this one say which task calls which setter when.    *)
(* Error texts are left out: an error is present exactly when the state of *)
(* the component says so, and no decision of the registry reads its words. *)
(***************************************************************************)
EXTENDS Naturals, FiniteSets

CONSTANTS
    Listeners,     \* names of the configured listeners
    MaxCount       \* bound on the collector's counters in a snapshot

ASSUME MaxCountAssumption == MaxCount \in Nat

Disabled == "Disabled"
Starting == "Starting"
Running  == "Running"
Degraded == "Degraded"
Failed   == "Failed"
Stopped  == "Stopped"

ComponentState == {Disabled, Starting, Running, Degraded, Failed, Stopped}

Unregistered == "Unregistered"

\* The counters of a collector snapshot that the registry's decisions read.
CollectorSnapshot == [export_rejected : 0..MaxCount, export_unknown : 0..MaxCount]

RuntimeHealthState ==
    [ startup_complete     : BOOLEAN,
      fatal_error          : BOOLEAN,
      allow_zero_listeners : BOOLEAN,
      listeners            : [Listeners -> {Unregistered, Starting, Running, Failed, Stopped}],
      interceptor          : {Disabled, Starting, Running, Failed, Stopped},
      api                  : {Disabled, Running, Failed},
      export               : {Disabled, Starting, Running, Degraded},
      nbi                  : {Disabled, Running, Degraded},
      collector            : CollectorSnapshot,
      export_latched       : BOOLEAN,
      nbi_latched          : BOOLEAN ]

NewHealth ==
    [ startup_complete     |-> FALSE,
      fatal_error          |-> FALSE,
      allow_zero_listeners |-> FALSE,
      listeners            |-> [l \in Listeners |-> Unregistered],
      interceptor          |-> Disabled,
      api                  |-> Disabled,
      export               |-> Disabled,
      nbi                  |-> Disabled,
      collector            |-> [export_rejected |-> 0, export_unknown |-> 0],
      export_latched       |-> FALSE,
      nbi_latched          |-> FALSE ]

-----------------------------------------------------------------------------
(* Listeners, interceptor and API. *)

register_listener(h, l) == [h EXCEPT !.listeners[l] = Starting]

Registered(h) == {l \in Listeners : h.listeners[l] # Unregistered}

mark_listener_running(h, l) ==
    IF l \in Registered(h) THEN [h EXCEPT !.listeners[l] = Running] ELSE h

\* An unknown name leaves the table alone but still raises the fatal error.
mark_listener_failed(h, l) ==
    [h EXCEPT !.listeners[l] = IF l \in Registered(h) THEN Failed ELSE @,
              !.fatal_error = TRUE]

mark_listener_stopped(h, l) ==
    IF l \in Registered(h) THEN [h EXCEPT !.listeners[l] = Stopped] ELSE h

mark_startup_complete(h) == [h EXCEPT !.startup_complete = TRUE]

set_fatal_error(h) == [h EXCEPT !.fatal_error = TRUE]

set_allow_zero_listeners(h, allow) == [h EXCEPT !.allow_zero_listeners = allow]

set_interceptor(h, s) == [h EXCEPT !.interceptor = s]

set_interceptor_failed(h) == [h EXCEPT !.interceptor = Failed, !.fatal_error = TRUE]

set_api(h, s) == [h EXCEPT !.api = s]

set_api_failed(h) == [h EXCEPT !.api = Failed, !.fatal_error = TRUE]

-----------------------------------------------------------------------------
(* Distributed export: a loss is latched for good; unknown and rejected    *)
(* events of the last collector snapshot keep the component degraded.      *)

sticky_distributed_export_error(h) ==
    \/ h.export_latched
    \/ h.collector.export_unknown > 0
    \/ h.collector.export_rejected > 0

\* set_distributed_export_{disabled,starting,running}: the three setters
\* differ only in the state they write when nothing is sticky.
SetExportUnlessSticky(h, s) ==
    IF h.export_latched THEN h
    ELSE [h EXCEPT !.export = IF sticky_distributed_export_error(h) THEN Degraded ELSE s]

set_distributed_export_disabled(h) == SetExportUnlessSticky(h, Disabled)
set_distributed_export_starting(h) == SetExportUnlessSticky(h, Starting)
set_distributed_export_running(h)  == SetExportUnlessSticky(h, Running)

set_distributed_export_degraded(h) ==
    IF h.export_latched THEN h ELSE [h EXCEPT !.export = Degraded]

set_distributed_export_loss(h) ==
    [h EXCEPT !.export_latched = TRUE, !.export = Degraded]

\* Mutant: a snapshot without rejections is taken as a recovery.
update_nbi_collector_mutant(h, snapshot) ==
    [h EXCEPT !.collector = snapshot, !.export = "Unknown"]

update_nbi_collector(h, snapshot) ==
    LET stored == [h EXCEPT !.collector = snapshot]
    IN  IF ~stored.export_latched /\ sticky_distributed_export_error(stored)
        THEN [stored EXCEPT !.export = Degraded]
        ELSE stored

-----------------------------------------------------------------------------
(* Local NBI pipeline. *)

\* Mutant: a later success clears a latched loss.
set_nbi_pipeline_running_mutant(h) == [h EXCEPT !.nbi = Running]

set_nbi_pipeline_running(h) ==
    IF h.nbi_latched THEN h ELSE [h EXCEPT !.nbi = Running]

\* Unlike the export setters this one clears the loss latch.
set_nbi_pipeline_disabled(h) == [h EXCEPT !.nbi = Disabled, !.nbi_latched = FALSE]

set_nbi_pipeline_degraded(h) ==
    IF h.nbi_latched THEN h ELSE [h EXCEPT !.nbi = Degraded]

set_nbi_pipeline_loss(h) == [h EXCEPT !.nbi_latched = TRUE, !.nbi = Degraded]

-----------------------------------------------------------------------------
(* The status the API reports, first match wins. *)

compute_status(h) ==
    LET states == {h.listeners[l] : l \in Registered(h)}
    IN  CASE \/ h.fatal_error
             \/ h.interceptor = Failed
             \/ h.api = Failed
             \/ Failed \in states -> "Error"
          [] OTHER ->
        CASE \/ ~h.startup_complete
             \/ h.interceptor = Starting
             \/ h.api = Starting
             \/ Starting \in states -> "Starting"
          [] OTHER ->
        CASE \/ states = {} /\ ~h.allow_zero_listeners
             \/ states \ {Running} # {}
             \/ h.export = Degraded
             \/ h.nbi = Degraded -> "Degraded"
          [] OTHER ->
             IF /\ h.interceptor \in {Disabled, Running}
                /\ h.api \in {Disabled, Running}
                /\ h.export \in {Disabled, Running, Starting}
                /\ h.nbi \in {Disabled, Running}
             THEN "Ok" ELSE "Degraded"

=============================================================================
