--------------------------- MODULE ComponentObject ---------------------------
(***************************************************************************)
(* One Component as the API server stores it, the manager's cache of it    *)
(* and the copies the two controllers hold, with the three ways in which   *)
(* they write it: ApplyStatus (internal/controller/core/common), Update    *)
(* and Patch.  A copy is `fresh' while its resource version is the stored  *)
(* one.                                                                    *)
(*                                                                         *)
(*   spec   version of the specification (0: the component does not exist) *)
(*   label  number of the WorkflowRun named by the label (0: none)         *)
(*   ann    specification whose rendering the annotation holds (0: none)   *)
(*   wf     Workflow condition, ready: Ready condition                     *)
(***************************************************************************)
EXTENDS Naturals

CONSTANT MaxSpec            \* versions of the specification: 1..MaxSpec
CONSTANT MaxRuns            \* WorkflowRuns that are created at most

ASSUME MaxSpecAssumption == MaxSpec \in Nat \ {0}
ASSUME MaxRunsAssumption == MaxRuns \in Nat

VARIABLES comp,             \* the stored object
          cache,            \* the manager's informer cache
          obj               \* the in-memory copy of each controller

objectVars == <<comp, cache, obj>>

Controllers == {"application", "component"}
Specs == 1 .. MaxSpec

\* The Workflow condition's reason; WorkflowTriggered comes with status True
\* or, when the run could not be created, False.
WfStates == {"none", "triggered", "notTriggered", "running", "succeed", "failed"}

\* The reason of the Ready condition.  Deploying, DeployingSucceed and Running
\* are declared too, but nothing stores them: updateStatus is not called.
ReadyStates == {"none", "pending", "rendering", "renderingFailed",
                "renderingSucceed", "deployingFailed"}

Component == [spec : {0} \cup Specs, label : 0 .. MaxRuns, ann : {0} \cup Specs,
              wf : WfStates, ready : ReadyStates]
Copy == [spec : {0} \cup Specs, label : 0 .. MaxRuns, ann : {0} \cup Specs,
         wf : WfStates, ready : ReadyStates, fresh : BOOLEAN]

\* A copy of c, read or written just now.
CopyOf(c) == [spec |-> c.spec, label |-> c.label, ann |-> c.ann,
              wf |-> c.wf, ready |-> c.ready, fresh |-> TRUE]

Absent == [spec |-> 0, label |-> 0, ann |-> 0, wf |-> "none", ready |-> "none"]
NoCopy == [CopyOf(Absent) EXCEPT !.fresh = FALSE]

ObjectTypeOK ==
    /\ comp \in Component
    /\ cache \in Copy
    /\ obj \in [Controllers -> Copy]

ObjectInit ==
    /\ comp = Absent
    /\ cache = CopyOf(Absent)
    /\ obj = [c \in Controllers |-> NoCopy]

Stale(c) == [c EXCEPT !.fresh = FALSE]

\* Controller c's call has been accepted: `new' is stored and, with the answer,
\* becomes c's copy.  Unless nothing changed (a condition's time counts seconds)
\* every other copy is out of date.
Written(c, new) ==
    /\ comp' = new
    /\ \/ /\ cache' = Stale(cache)
          /\ obj' = [d \in Controllers |-> IF d = c THEN CopyOf(new) ELSE Stale(obj[d])]
       \/ /\ comp = new
          /\ cache' = cache
          /\ obj' = [obj EXCEPT ![c] = CopyOf(new)]

\* ApplyStatus stores the caller's whole status under the resource version that
\* the cache gives it, so it succeeds when the cache is up to date.
ApplyStatus(c, wf, ready) ==
    /\ cache.spec # 0 /\ cache.fresh
    /\ Written(c, [comp EXCEPT !.wf = wf, !.ready = ready])

\* It fails when the object is not in the cache yet, or when every one of its
\* attempts meets a conflict.
ApplyStatusFails == cache.spec = 0 \/ ~cache.fresh

\* Mutant: an update that does not send the resource version.
UpdateBlind(c, spec, label) == Written(c, [comp EXCEPT !.spec = spec, !.label = label])

\* Update of specification and labels under the copy's own resource version.
Update(c, spec, label) ==
    /\ obj[c].fresh
    /\ Written(c, [comp EXCEPT !.spec = spec, !.label = label])

UpdateFails(c) == ~obj[c].fresh

\* A merge patch of the annotation carries no resource version; its answer
\* brings the stored object, status included, into the copy.
Patch(c, ann) == Written(c, [comp EXCEPT !.ann = ann])

\* The watch brings the stored object into the cache.
SyncCache ==
    /\ cache # CopyOf(comp)
    /\ cache' = CopyOf(comp)
    /\ UNCHANGED <<comp, obj>>
==============================================================================
