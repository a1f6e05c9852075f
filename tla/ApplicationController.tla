------------------------ MODULE ApplicationController ------------------------
(***************************************************************************)
(* The Application reconciler (internal/controller/core/application) and   *)
(* one component of its application: creating it, running its workflow,    *)
(* updating it and reporting how the run ended, one API call at a time.    *)
(***************************************************************************)
EXTENDS ComponentObject, FiniteSets

CONSTANTS SecondSource,     \* versions that have the second of two sources
          CallsFail,        \* whether rendering the module and API calls may fail
          MaxEdits,         \* edits of the application, and
          MaxTurns          \* turns of a finished run, at most

ASSUME SecondSourceAssumption == SecondSource \subseteq Specs
ASSUME CallsFailAssumption == CallsFail \in BOOLEAN
ASSUME BoundsAssumption == MaxEdits \in Nat /\ MaxTurns \in Nat

VARIABLES want,             \* version of the component in the application's spec
          appCache,         \* cached application: [want, fresh]
          wfl,              \* the component's Workflow: absent, stored or cached
          runs,             \* stored WorkflowRuns
          runCache,         \* cached WorkflowRuns
          apc,              \* where the worker is in ReconcileComponent
          target,           \* the version it reconciles towards
          wflr,             \* the WorkflowRun it has created or looked up
          aqueue,           \* the application's key is in the work queue
          edits, turns      \* how often the user still edits, and runs still turn

applicationVars ==
    <<want, appCache, wfl, runs, runCache, apc, target, wflr, aqueue, edits, turns>>

RunStates == {"absent", "none", "running", "succeeded", "failed"}
NoRuns == [r \in 1 .. MaxRuns |-> "absent"]
Created == {r \in 1 .. MaxRuns : runs[r] # "absent"}
Source(s) == s \in SecondSource

ApplicationTypeOK ==
    /\ want \in Specs
    /\ appCache \in [want : Specs, fresh : BOOLEAN]
    /\ wfl \in {"absent", "stored", "cached"}
    /\ runs \in [1 .. MaxRuns -> RunStates] /\ runCache \in [1 .. MaxRuns -> RunStates]
    /\ apc \in {"idle", "creating", "create", "workflow", "trigger", "run", "notTriggered",
                "label", "createFailed", "updating", "retrigger", "rerun", "notRetriggered",
                "updateFailed", "update", "lookup", "running", "succeeded", "failed", "pending", "status"}
    /\ target \in {0} \cup Specs
    /\ wflr \in 0 .. MaxRuns
    /\ aqueue \in BOOLEAN
    /\ edits \in 0 .. MaxEdits /\ turns \in 0 .. MaxTurns

ApplicationInit ==
    /\ want = 1 /\ appCache = [want |-> 1, fresh |-> TRUE]
    /\ wfl = "absent" /\ runs = NoRuns /\ runCache = NoRuns
    /\ apc = "idle" /\ target = 0 /\ wflr = 0 /\ aqueue = TRUE
    /\ edits \in 0 .. MaxEdits /\ turns \in 0 .. MaxTurns

\* Everything but the worker's own position.
Elsewhere == <<want, appCache, wfl, runs, runCache, edits, turns>>

Go(pc) == apc' = pc /\ UNCHANGED <<target, wflr, aqueue>>

Done(err) == apc' = "idle" /\ target' = 0 /\ wflr' = 0 /\ aqueue' = (aqueue \/ err)

\* ApplyStatus on the Application, whose status nobody else writes.
AppStatus(from, next) ==
    /\ apc = from
    /\ \/ /\ appCache.fresh
          /\ appCache' \in {appCache, [appCache EXCEPT !.fresh = FALSE]}
          /\ next
       \/ ~appCache.fresh /\ Done(TRUE) /\ UNCHANGED appCache
    /\ UNCHANGED <<objectVars, want, wfl, runs, runCache, edits, turns>>

\* setConditionWorkflow, and setConditionReady of this controller.
setCondition(from, wf, ready, next, failed) ==
    /\ apc = from
    /\ \/ ApplyStatus("application", wf, ready) /\ next
       \/ ApplyStatusFails /\ failed /\ UNCHANGED objectVars
    /\ UNCHANGED Elsewhere

setConditionWorkflow(from, wf, next, failed) ==
    setCondition(from, wf, obj["application"].ready, next, failed)

(***************************************************************************)
(* Reconcile and ReconcileComponent up to the choice of what to do.        *)
(***************************************************************************)
ReconcileApplication ==
    /\ apc = "idle" /\ aqueue
    /\ aqueue' = FALSE /\ target' = appCache.want /\ wflr' = 0
    /\ \/ /\ cache.spec = 0
          /\ apc' = "creating" /\ UNCHANGED objectVars
       \/ /\ cache.spec # 0
          /\ apc' = IF cache.spec = appCache.want THEN "lookup"
                    ELSE IF Source(cache.spec) # Source(appCache.want) THEN "updating" ELSE "update"
          /\ obj' = [obj EXCEPT !["application"] = cache]
          /\ UNCHANGED <<comp, cache>>
    /\ UNCHANGED Elsewhere

(***************************************************************************)
(* createComponent.                                                        *)
(***************************************************************************)
SetRenderingComponent == AppStatus("creating", Go("create"))

\* Create fails when the cache had missed a component that exists.
CreateComponent ==
    /\ apc = "create"
    /\ \/ /\ comp.spec = 0
          /\ Written("application", [Absent EXCEPT !.spec = target])
          /\ Go("workflow")
       \/ comp.spec # 0 /\ Go("createFailed") /\ UNCHANGED objectVars
    /\ UNCHANGED Elsewhere

\* setComponentWorkflow renders the module and applies its Workflow.
SetComponentWorkflow ==
    /\ apc = "workflow"
    /\ \/ wfl' = "stored" /\ Go("trigger")
       \/ CallsFail /\ Go("createFailed") /\ UNCHANGED wfl
    /\ UNCHANGED <<objectVars, want, appCache, runs, runCache, edits, turns>>

SetTriggered == setConditionWorkflow("trigger", "triggered", Go("run"), Go("createFailed"))

\* runComponentWorkflow creates a run, numbered in the order of creation.
NextRun == Cardinality(Created) + 1

\* Mutant: the number of the next run is taken after the creation.
CreateRunMisnumbered(pc) ==
    /\ wfl = "cached" /\ NextRun <= MaxRuns
    /\ runs' = [runs EXCEPT ![NextRun] = "none"]
    /\ wflr' = NextRun + 1 /\ apc' = pc /\ UNCHANGED <<target, aqueue>>

CreateRun(pc) ==
    /\ wfl = "cached" /\ NextRun <= MaxRuns
    /\ runs' = [runs EXCEPT ![NextRun] = "none"]
    /\ wflr' = NextRun /\ apc' = pc /\ UNCHANGED <<target, aqueue>>

\* A Workflow that is not in the cache counts as "no workflow": the component is
\* updated without a label and no error is returned.
RunComponentWorkflow ==
    /\ apc = "run"
    /\ \/ CreateRun("label")
       \/ wfl # "cached" /\ Go("label") /\ UNCHANGED runs
       \/ CallsFail /\ Go("notTriggered") /\ UNCHANGED runs
    /\ UNCHANGED <<objectVars, want, appCache, wfl, runCache, edits, turns>>

SetNotTriggered ==
    setConditionWorkflow("notTriggered", "notTriggered", Go("createFailed"), Go("createFailed"))

LabelComponent ==
    /\ apc = "label"
    /\ \/ /\ Update("application", obj["application"].spec,
                    IF wflr = 0 THEN obj["application"].label ELSE wflr)
          /\ Go("status")
       \/ UpdateFails("application") /\ Go("createFailed") /\ UNCHANGED objectVars
    /\ UNCHANGED Elsewhere

SetRenderingComponentFailed == AppStatus("createFailed", Done(TRUE))

(***************************************************************************)
(* updateComponent.                                                        *)
(***************************************************************************)
SetRerendering == AppStatus("updating", Go("retrigger"))

SetRetriggered == setConditionWorkflow("retrigger", "triggered", Go("rerun"), Done(TRUE))

\* Here a Workflow that is not found is an error like any other.
RerunComponentWorkflow ==
    /\ apc = "rerun"
    /\ \/ CreateRun("update")
       \/ (wfl # "cached" \/ CallsFail) /\ Go("notRetriggered") /\ UNCHANGED runs
    /\ UNCHANGED <<objectVars, want, appCache, wfl, runCache, edits, turns>>

SetNotRetriggered ==
    setConditionWorkflow("notRetriggered", "notTriggered", Go("updateFailed"), Done(TRUE))

SetRerenderingFailed == AppStatus("updateFailed", Done(TRUE))

UpdateComponent ==
    /\ apc = "update"
    /\ \/ /\ Update("application", target, IF wflr = 0 THEN obj["application"].label ELSE wflr)
          /\ Go("lookup")
       \/ UpdateFails("application") /\ Done(TRUE) /\ UNCHANGED objectVars
    /\ UNCHANGED Elsewhere

(***************************************************************************)
(* The rest of ReconcileComponent, and the end of ReconcileComponents.     *)
(***************************************************************************)
\* The run is looked up while the Workflow condition says that it was triggered
\* (with either status) or is running; a run that is not found is only logged.
Lookup(reasons, r) ==
    /\ apc = "lookup"
    /\ IF obj["application"].wf \in reasons /\ r # 0
          /\ runCache[r] \in {"running", "succeeded", "failed"}
       THEN apc' = runCache[r] /\ wflr' = r
       ELSE apc' = "status" /\ wflr' = 0
    /\ UNCHANGED <<objectVars, Elsewhere, target, aqueue>>

\* Mutant: only a running workflow is looked up.
LookupRunRunning == Lookup({"running"}, obj["application"].label)

\* Mutant: the newest run is taken for the component's.
LookupRunNewest ==
    Lookup({"triggered", "notTriggered", "running"}, Cardinality({r \in 1 .. MaxRuns : runCache[r] # "absent"}))

LookupRun == Lookup({"triggered", "notTriggered", "running"}, obj["application"].label)

\* updateWorkflowRunConditions, for the condition the run was read with.
ReportRun ==
    \/ setConditionWorkflow("running", "running", Go("status"), Done(TRUE))
    \/ setConditionWorkflow("failed", "failed", Go("status"), Done(TRUE))
    \/ setConditionWorkflow("succeeded", "succeed", Go("pending"), Done(TRUE))

SetPending ==
    setCondition("pending", obj["application"].wf, "pending", Go("status"), Done(TRUE))

SetStatus == AppStatus("status", Done(FALSE))

ApplicationReconcile ==
    \/ ReconcileApplication
    \/ SetRenderingComponent \/ CreateComponent \/ SetComponentWorkflow \/ SetTriggered
    \/ RunComponentWorkflow \/ SetNotTriggered \/ LabelComponent
    \/ SetRenderingComponentFailed
    \/ SetRerendering \/ SetRetriggered \/ RerunComponentWorkflow \/ SetNotRetriggered
    \/ SetRerenderingFailed \/ UpdateComponent
    \/ LookupRun \/ ReportRun \/ SetPending \/ SetStatus

(***************************************************************************)
(* Informers, the user and the WorkflowRun controller.                     *)
(***************************************************************************)
LatestApp == [want |-> want, fresh |-> TRUE]

\* Mutant: a change of the application does not queue it.
SyncApplicationSilent ==
    /\ appCache # LatestApp
    /\ appCache' = LatestApp /\ UNCHANGED aqueue
    /\ UNCHANGED <<objectVars, want, wfl, runs, runCache, apc, target, wflr, edits, turns>>

SyncApplication ==
    /\ appCache # LatestApp
    /\ appCache' = LatestApp /\ aqueue' = TRUE
    /\ UNCHANGED <<objectVars, want, wfl, runs, runCache, apc, target, wflr, edits, turns>>

SyncRun(r) ==
    /\ runCache[r] # runs[r]
    /\ runCache' = [runCache EXCEPT ![r] = runs[r]] /\ aqueue' = TRUE
    /\ UNCHANGED <<objectVars, want, appCache, wfl, runs, apc, target, wflr, edits, turns>>

SyncWorkflow ==
    /\ wfl = "stored" /\ wfl' = "cached"
    /\ UNCHANGED <<objectVars, want, appCache, runs, runCache, apc, target, wflr, aqueue, edits, turns>>

\* The user stores another version, which may be one that was there before.
EditApplication ==
    /\ edits > 0 /\ edits' = edits - 1
    /\ want' \in Specs \ {want} /\ appCache' = [appCache EXCEPT !.fresh = FALSE]
    /\ UNCHANGED <<objectVars, wfl, runs, runCache, apc, target, wflr, aqueue, turns>>

\* Owns(Component): a change of the component queues its application.
SyncOwnedComponent ==
    /\ SyncCache
    /\ aqueue' = TRUE
    /\ UNCHANGED <<want, appCache, wfl, runs, runCache, apc, target, wflr, edits, turns>>

\* The WorkflowRun controller: the run is marked running, then finished.
RunMoves(r) ==
    /\ \/ runs[r] = "none" /\ runs' = [runs EXCEPT ![r] = "running"]
       \/ runs[r] = "running" /\ \E c \in {"succeeded", "failed"} : runs' = [runs EXCEPT ![r] = c]
    /\ UNCHANGED <<objectVars, want, appCache, wfl, runCache, apc, target, wflr, aqueue, edits, turns>>

\* Its loop over the jobs can store a condition over a Finished one: another
\* job has failed or completed, or is active.
RunTurns(r) ==
    /\ turns > 0 /\ turns' = turns - 1
    /\ runs[r] \in {"succeeded", "failed"}
    /\ \E c \in {"running", "succeeded", "failed"} \ {runs[r]} : runs' = [runs EXCEPT ![r] = c]
    /\ UNCHANGED <<objectVars, want, appCache, wfl, runCache, apc, target, wflr, aqueue, edits>>

ApplicationEnvironment ==
    \/ SyncApplication \/ SyncWorkflow \/ EditApplication
    \/ \E r \in 1 .. MaxRuns : SyncRun(r) \/ RunMoves(r) \/ RunTurns(r)
==============================================================================
