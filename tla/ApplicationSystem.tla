-------------------------- MODULE ApplicationSystem --------------------------
(***************************************************************************)
(* The application controller with another writer of the component: all    *)
(* that the component controller does to the object it shares, whatever    *)
(* its reasons, at most MaxWrites times.                                   *)
(***************************************************************************)
EXTENDS ApplicationController

CONSTANT MaxWrites
ASSUME MaxWritesAssumption == MaxWrites \in Nat

VARIABLES writes,           \* writes of the other controller left
          former            \* what the label was before it last changed

vars == <<objectVars, applicationVars, writes, former>>

TypeOK ==
    /\ ObjectTypeOK /\ ApplicationTypeOK
    /\ writes \in 0 .. MaxWrites /\ former \in 0 .. MaxRuns

Init == ObjectInit /\ ApplicationInit /\ writes \in 0 .. MaxWrites /\ former = 0

\* A label that a step replaces is kept in former.
Remember == former' = IF comp'.label = comp.label THEN former ELSE comp.label

\* A step that is not the other controller's.
Own(A) == A /\ Remember /\ UNCHANGED writes

\* It takes a copy from the cache, and later writes the copy's status back with
\* another Ready condition, or patches the annotation.
OtherReads ==
    /\ writes > 0 /\ cache.spec # 0
    /\ obj' = [obj EXCEPT !["component"] = cache]
    /\ UNCHANGED <<comp, cache, applicationVars, writes, former>>

OtherWrites ==
    /\ writes > 0 /\ writes' = writes - 1 /\ obj["component"].spec # 0
    /\ \/ ApplyStatus("component", obj["component"].wf, "rendering")
       \/ Patch("component", obj["component"].spec)
    /\ UNCHANGED <<applicationVars, former>>

Next ==
    \/ Own(ApplicationReconcile \/ ApplicationEnvironment \/ SyncOwnedComponent)
    \/ OtherReads \/ OtherWrites

Spec == Init /\ [][Next]_vars

\* The worker goes on, watches deliver, runs end.
Fairness ==
    /\ WF_vars(Own(ApplicationReconcile))
    /\ WF_vars(Own(SyncApplication))
    /\ WF_vars(Own(SyncWorkflow))
    /\ WF_vars(Own(SyncOwnedComponent))
    /\ \A r \in 1 .. MaxRuns : /\ WF_vars(Own(SyncRun(r)))
                               /\ WF_vars(Own(RunMoves(r)))

FairSpec == Spec /\ Fairness

\* The component's source changes only together with its label, which then
\* names a run made for the change: a comparison with a copy that is out of date
\* never lets a new source, or the return of an old one, slip in without a run.
SourceMovesWithRun ==
    [][(comp.spec # 0 /\ Source(comp'.spec) # Source(comp.spec))
         => (comp'.label > comp.label /\ comp'.label \in Created)]_vars

\* The label names a run that exists, and only ever a newer one: no update
\* with an outdated copy puts an older run back.
LabelNamesNewest ==
    [][comp'.label >= comp.label /\ comp'.label <= Cardinality(Created')]_vars

\* What is reported of a run is reported of one that the component is labelled
\* with, or was before its last label: the cache that the label is read from is
\* never further behind, and of a run that was created in vain, because the
\* update with its name met a conflict, nothing is ever reported.
ReportsLabelledRun ==
    [][(apc \in {"running", "succeeded", "failed"} /\ apc' # apc /\ comp' # comp)
         => wflr \in {comp.label, former}]_vars

\* The component ends up with the application's specification.
SpecConverges == <>[](comp.spec = want)

\* A component that is labelled with a run does not stay triggered or running:
\* runs end, and every look at a run that comes too early, or at a copy that is
\* out of date, is followed by another.  A status of the other controller from
\* before the run can take the condition away, and then nobody looks any more.
ResultIsReported ==
    (comp.label # 0 /\ comp.wf \in {"triggered", "running"})
        ~> (comp.wf \in {"succeed", "failed"} \/ (comp.label # 0 /\ comp.wf = "none"))

\* The comment in ReconcileComponent: if the component does not exist, create
\* it and run its workflow.
CreatedRunsItsWorkflow == (comp.spec # 0) ~> (Created # {})
==============================================================================
