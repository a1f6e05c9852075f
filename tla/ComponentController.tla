------------------------- MODULE ComponentController -------------------------
(***************************************************************************)
(* The Component reconciler (internal/controller/core/component): it       *)
(* applies again what it rendered last, renders the specification, records *)
(* the rendering in an annotation and applies it, and keeps the Ready      *)
(* condition.  Its own status writes wake it up again.                     *)
(***************************************************************************)
EXTENDS ComponentObject

CONSTANTS Resources,        \* number of resources in a rendering, in its order
          Order,            \* orderMap of each one's kind, 0 if it is not in the map
          Annotations,      \* whether the component may come with and without any
          MaxFaults         \* renderings and applications that may fail

ASSUME ResourcesAssumption == Resources \in Nat \ {0}
ASSUME OrderAssumption == Order \in [1 .. Resources -> Nat]
ASSUME AnnotationsAssumption == Annotations \in SUBSET BOOLEAN \ {{}}
ASSUME FaultsAssumption == MaxFaults \in Nat

VARIABLES annotated,        \* the component was created with annotations
          cpc,              \* where the worker is in Reconcile
          applySet,         \* specification whose rendering it is to apply
          todo,             \* the resources of it that are still to be applied
          cqueue,           \* the component's key is in the work queue
          deployed,         \* version of each resource in the cluster
          faults            \* faults left

componentVars == <<annotated, cpc, applySet, todo, cqueue, deployed, faults>>

ComponentTypeOK ==
    /\ annotated \in BOOLEAN
    /\ cpc \in {"idle", "deployed", "reapply", "rendering", "render", "renderFailed",
                "succeed", "apply", "deployFailed"}
    /\ applySet \in {0} \cup Specs /\ todo \subseteq 1 .. Resources
    /\ cqueue \in BOOLEAN
    /\ deployed \in [1 .. Resources -> {0} \cup Specs]
    /\ faults \in 0 .. MaxFaults

ComponentInit ==
    /\ annotated \in Annotations
    /\ cpc = "idle" /\ applySet = 0 /\ todo = {} /\ cqueue = FALSE
    /\ deployed = [r \in 1 .. Resources |-> 0]
    /\ faults = MaxFaults

Fault == faults > 0 /\ faults' = faults - 1

\* Reconcile returns: the copy is dropped; after an error the key is queued.
Return(err) ==
    /\ cpc' = "idle" /\ applySet' = 0 /\ todo' = {}
    /\ cqueue' = (cqueue \/ err)

\* setConditionReady: nothing is written when the copy already says so.
\* Reconcile goes on at pc `next', or returns the error.
setConditionReady(reason, next) ==
    LET c == obj["component"]
        Go == IF next = "error" THEN Return(TRUE) ELSE cpc' = next /\ UNCHANGED <<applySet, todo, cqueue>>
    IN  /\ UNCHANGED <<deployed, faults>>
        /\ \/ c.ready = reason /\ Go /\ UNCHANGED objectVars
           \/ c.ready # reason /\ ApplyStatus("component", c.wf, reason) /\ Go
           \/ c.ready # reason /\ ApplyStatusFails /\ Return(TRUE) /\ UNCHANGED objectVars

\* Mutant: the resources are not sorted.
BeforeUnsorted(q, r) == q < r

\* The order of sort.SliceStable.
Before(q, r) == Order[q] < Order[r] \/ (Order[q] = Order[r] /\ q < r)

\* applyResources, one ApplyObject at a time in that order; the first resource
\* that is refused ends it, and after the last one the apply set is cleared.
applyResources(from, next) ==
    /\ cpc = from
    /\ \/ \E r \in todo :
             /\ \A q \in todo \ {r} : Before(r, q)
             /\ deployed' = [deployed EXCEPT ![r] = applySet]
             /\ \/ /\ todo # {r} /\ todo' = todo \ {r}
                   /\ UNCHANGED <<cpc, applySet, cqueue>>
                \/ todo = {r} /\ next = "idle" /\ Return(FALSE)
                \/ /\ todo = {r} /\ next # "idle" /\ cpc' = next
                   /\ applySet' = 0 /\ todo' = {} /\ UNCHANGED cqueue
             /\ UNCHANGED faults
       \/ Fault /\ cpc' = "deployFailed" /\ UNCHANGED <<applySet, todo, cqueue, deployed>>
    /\ UNCHANGED objectVars

ReconcileComponent ==
    /\ cpc = "idle" /\ cqueue
    /\ cqueue' = FALSE /\ cpc' = "deployed"
    /\ obj' = [obj EXCEPT !["component"] = cache]
    /\ UNCHANGED <<comp, cache, applySet, todo, deployed, faults>>

\* Mutant: once something is recorded it is all that is ever applied.
ReconcileDeployedObjectsOnly ==
    /\ cpc = "deployed"
    /\ \/ /\ obj["component"].ann = 0
          /\ cpc' = "rendering" /\ UNCHANGED <<applySet, todo>>
       \/ /\ obj["component"].ann # 0
          /\ cpc' = "apply" /\ applySet' = obj["component"].ann /\ todo' = 1 .. Resources
    /\ UNCHANGED <<objectVars, cqueue, deployed, faults>>

\* What the annotation records is applied again, before anything is rendered,
\* unless the annotation or the module is unreadable.
ReconcileDeployedObjects ==
    /\ cpc = "deployed"
    /\ \/ /\ obj["component"].ann = 0
          /\ cpc' = "rendering"
          /\ UNCHANGED <<applySet, todo, cqueue, faults>>
       \/ /\ obj["component"].ann # 0
          /\ cpc' = "reapply" /\ applySet' = obj["component"].ann /\ todo' = 1 .. Resources
          /\ UNCHANGED <<cqueue, faults>>
       \/ obj["component"].ann # 0 /\ Fault /\ Return(TRUE)
    /\ UNCHANGED <<objectVars, deployed>>

ApplyRecorded == applyResources("reapply", "rendering")

SetRendering == cpc = "rendering" /\ setConditionReady("rendering", "render")

\* Mutant: the rendering is applied before it is recorded.
renderComponentUnrecorded ==
    /\ cpc = "render" /\ annotated
    /\ applySet' = obj["component"].spec /\ todo' = 1 .. Resources /\ cpc' = "succeed"
    /\ UNCHANGED <<objectVars, cqueue, deployed, faults>>

\* Rendering what the copy specifies, and recording it.  Without annotations
\* the assignment to the nil map panics, which the manager turns into an error.
renderComponent ==
    /\ cpc = "render"
    /\ \/ /\ annotated
          /\ Patch("component", obj["component"].spec)
          /\ applySet' = obj["component"].spec /\ todo' = 1 .. Resources /\ cpc' = "succeed"
          /\ UNCHANGED <<cqueue, deployed, faults>>
       \/ /\ ~annotated
          /\ Return(TRUE)
          /\ UNCHANGED <<objectVars, deployed, faults>>
       \/ /\ Fault /\ cpc' = "renderFailed"
          /\ UNCHANGED <<objectVars, applySet, todo, cqueue, deployed>>

SetRenderingFailed == cpc = "renderFailed" /\ setConditionReady("renderingFailed", "error")

SetRenderingSucceed == cpc = "succeed" /\ setConditionReady("renderingSucceed", "apply")

\* Mutant: the component is reported as running once it is applied.
ApplyRenderedRunning == cpc = "apply" /\ setConditionReady("running", "error")

ApplyRendered == applyResources("apply", "idle")

SetDeployingFailed == cpc = "deployFailed" /\ setConditionReady("deployingFailed", "error")

ComponentReconcile ==
    /\ \/ ReconcileComponent \/ ReconcileDeployedObjects \/ ApplyRecorded
       \/ SetRendering \/ renderComponent
       \/ SetRenderingFailed \/ SetRenderingSucceed \/ ApplyRendered \/ SetDeployingFailed
    /\ UNCHANGED annotated

\* For(Component): a change of the object queues its key.
SyncComponent ==
    /\ SyncCache
    /\ cqueue' = TRUE
    /\ UNCHANGED <<annotated, cpc, applySet, todo, deployed, faults>>

\* RequeueAfter, and the informers' resync.
RequeueComponent ==
    /\ ~cqueue /\ cache.spec # 0
    /\ cqueue' = TRUE
    /\ UNCHANGED <<objectVars, annotated, cpc, applySet, todo, deployed, faults>>

\* The manager dies and starts again: it lists everything anew.
CrashComponent ==
    /\ Fault
    /\ cpc' = "idle" /\ applySet' = 0 /\ todo' = {} /\ cqueue' = (comp.spec # 0)
    /\ cache' = CopyOf(comp)
    /\ UNCHANGED <<comp, obj, annotated, deployed>>
==============================================================================
