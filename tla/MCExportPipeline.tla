------------------------- MODULE MCExportPipeline --------------------------
(***************************************************************************)
(* The export pipeline, and the reports on the runtime's health that the   *)
(* tasks of the collector make while it runs.  The reports read counters   *)
(* only, which change in any order, so a behaviour is of one of the two    *)
(* (part) and the other idles.                                             *)
(***************************************************************************)
EXTENDS ExportPipeline, HealthReporting

VARIABLE part
allVars == <<part, vars, healthVars>>

MCInit == /\ part \in {"pipeline", "health"} /\ Init /\ HealthInit
          /\ part = "pipeline" => localTarget
Pipeline(A) == part = "pipeline" /\ A /\ UNCHANGED <<part, healthVars>>
PipelineNext == Pipeline(Next)
ReportsNext == part = "health" /\ HealthNext /\ UNCHANGED <<part, vars>>
MCFairness ==
    /\ WF_allVars(Pipeline(run_export_worker)) /\ WF_allVars(Pipeline(execute_shutdown))
    /\ WF_allVars(Pipeline(reconcile_export_worker_interruption(Sup)))
    /\ \A e \in Events : WF_allVars(Pipeline(pc[e] # "new" /\ enqueue_export_record(e)))
MCSpec == MCInit /\ [][PipelineNext \/ ReportsNext]_allVars /\ MCFairness

(* The shutdown leaves nothing behind (CleanStop: no worker, command or    *)
(* record once execute_shutdown has ended), and queue, counters and        *)
(* registry stay within their bounds on the way.                           *)
StopsClean == TypeOK /\ HealthTypeOK /\ CleanStop
=============================================================================
