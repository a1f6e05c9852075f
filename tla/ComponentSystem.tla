--------------------------- MODULE ComponentSystem ---------------------------
(***************************************************************************)
(* The component controller with another writer of the component: what the *)
(* application controller does to the object it shares.                    *)
(***************************************************************************)
EXTENDS ComponentController

VARIABLE recorded           \* history: renderings the annotation has held

vars == <<objectVars, componentVars, recorded>>

TypeOK == ObjectTypeOK /\ ComponentTypeOK /\ recorded \in SUBSET Specs

Init == ObjectInit /\ ComponentInit /\ recorded = {}

\* The application controller creates the component, gives it the next
\* specification, and moves its Workflow condition on.
OtherUpdates ==
    /\ comp.spec < MaxSpec
    /\ Written("application", [comp EXCEPT !.spec = comp.spec + 1])
    /\ UNCHANGED componentVars

OtherSetsStatus ==
    /\ \/ comp.wf = "none" /\ ApplyStatus("application", "triggered", comp.ready)
       \/ comp.wf = "triggered" /\ ApplyStatus("application", "succeed", "pending")
    /\ UNCHANGED componentVars

Next ==
    /\ \/ ComponentReconcile \/ SyncComponent \/ RequeueComponent \/ CrashComponent
       \/ OtherUpdates \/ OtherSetsStatus
    /\ recorded' = recorded \cup ({comp'.ann} \ {0})

Spec == Init /\ [][Next]_vars

\* The worker goes on, the watch delivers, keys are requeued after a while, and
\* the component is created and brought up to its last specification.
Recording == recorded' = recorded \cup ({comp'.ann} \ {0})
Fairness ==
    /\ WF_vars(ComponentReconcile /\ Recording)
    /\ WF_vars(SyncComponent /\ Recording)
    /\ WF_vars(RequeueComponent /\ Recording)
    /\ WF_vars(OtherUpdates /\ Recording)

FairSpec == Spec /\ Fairness

\* Nothing reaches the cluster that the annotation has not recorded first, so
\* that a restart between the two still knows what may be there.
RecordedBeforeApplied ==
    \A r \in 1 .. Resources : deployed[r] \in {0} \cup recorded

\* A resource is brought to a rendering only when every one that orderMap puts
\* before it is there, in that same rendering, whatever the order it is rendered
\* in and wherever earlier applications have failed or the manager has died.
AppliedInOrder ==
    [][\A q, r \in 1 .. Resources :
           deployed'[r] # deployed[r] /\ Order[q] < Order[r] => deployed[q] = deployed'[r]]_vars

\* In the end the cluster runs the specification of a component that came with
\* annotations, although the controller's own status writes keep waking it with
\* copies that are out of date, and after failed applications and crashes.
DeployedEventually ==
    annotated => <>[](\A r \in 1 .. Resources : deployed[r] = comp.spec)
==============================================================================
