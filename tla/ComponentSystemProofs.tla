------------------------ MODULE ComponentSystemProofs ------------------------
(***************************************************************************)
(* Safety of the Component reconciler, for any number of specifications,   *)
(* resources of any kinds and faults, whether or not components have       *)
(* annotations.                                                            *)
(***************************************************************************)
EXTENDS ComponentSystem, TLAPS

(***************************************************************************)
(* The inductive invariant.                                                *)
(***************************************************************************)
\* The cache knows of no component before there is one.
CachedAfterStored == comp.spec = 0 => cache = CopyOf(comp)

\* What is queued or reconciled is in the cache, the worker has a copy of it, and
\* what it is to apply has been rendered.
WorksOnSomething ==
    /\ cqueue \/ cpc # "idle" => cache.spec # 0
    /\ cpc # "idle" => obj["component"].spec # 0
    /\ cpc \in {"succeed", "apply", "reapply"} => applySet # 0

\* While it applies a rendering, what is not left to be applied is in the cluster.
AppliedSoFar ==
    /\ cpc = "succeed" => todo = 1 .. Resources
    /\ cpc \in {"apply", "reapply"} => \A r \in (1 .. Resources) \ todo : deployed[r] = applySet

\* An annotation, wherever it was copied, and a rendering about to be applied are
\* ones that the component has held.
AnnotationsRecorded ==
    /\ comp.ann \in {0} \cup recorded /\ cache.ann \in {0} \cup recorded
    /\ \A c \in Controllers : obj[c].ann \in {0} \cup recorded
    /\ applySet \in {0} \cup recorded

IndInv ==
    /\ TypeOK /\ CachedAfterStored /\ WorksOnSomething /\ AppliedSoFar
    /\ AnnotationsRecorded /\ RecordedBeforeApplied

(***************************************************************************)
(* Copies of the component.                                                *)
(***************************************************************************)
\* A copy says what its original says,
LEMMA CopyFields ==
  ASSUME NEW c \in Component
  PROVE  /\ CopyOf(c) \in Copy /\ CopyOf(c).spec = c.spec /\ CopyOf(c).ann = c.ann
         /\ CopyOf(c).label = c.label /\ CopyOf(c).wf = c.wf /\ CopyOf(c).ready = c.ready
  BY DEF CopyOf, Copy, Component

\* also when it is out of date.
LEMMA StaleFields ==
  ASSUME NEW c \in Copy
  PROVE  /\ Stale(c) \in Copy /\ Stale(c).spec = c.spec /\ Stale(c).ann = c.ann
         /\ Stale(c).wf = c.wf /\ Stale(c).ready = c.ready
  BY DEF Stale, Copy

\* An accepted write reaches the writer's copy and takes only the freshness from
\* the others.
LEMMA WrittenFields ==
  ASSUME ObjectTypeOK, NEW c \in Controllers, NEW new \in Component, Written(c, new)
  PROVE  /\ comp' = new /\ ObjectTypeOK'
         /\ cache'.spec = cache.spec /\ cache'.ann = cache.ann
         /\ obj'[c] = CopyOf(new)
         /\ \A d \in Controllers \ {c} : obj'[d].spec = obj[d].spec /\ obj'[d].ann = obj[d].ann
  <1>0. cache \in Copy /\ obj \in [Controllers -> Copy] /\ CopyOf(new) \in Copy
    BY CopyFields DEF ObjectTypeOK
  <1>1. comp' = new
    BY DEF Written
  <1>2. CASE /\ cache' = Stale(cache)
             /\ obj' = [d \in Controllers |-> IF d = c THEN CopyOf(new) ELSE Stale(obj[d])]
    BY <1>0, <1>1, <1>2, StaleFields DEF ObjectTypeOK
  <1>3. CASE cache' = cache /\ obj' = [obj EXCEPT ![c] = CopyOf(new)]
    BY <1>0, <1>1, <1>3 DEF ObjectTypeOK
  <1>. QED
    BY <1>2, <1>3 DEF Written

(***************************************************************************)
(* The steps.                                                              *)
(***************************************************************************)
\* Before the component is created.
LEMMA InitInd == Init => IndInv
  <1> SUFFICES ASSUME Init PROVE IndInv
    OBVIOUS
  <1>0. ObjectInit /\ ComponentInit /\ recorded = {}
    BY DEF Init
  <1>1. Absent \in Component /\ Absent.spec = 0 /\ Absent.ann = 0
    BY MaxRunsAssumption DEF Absent, Component, WfStates, ReadyStates
  <1>2. CopyOf(Absent) \in Copy /\ CopyOf(Absent).spec = 0 /\ CopyOf(Absent).ann = 0
    BY <1>1, CopyFields
  <1>3. NoCopy \in Copy /\ NoCopy.ann = 0
    BY <1>2 DEF NoCopy, Copy
  <1>4. ObjectTypeOK
    BY <1>0, <1>1, <1>2, <1>3 DEF ObjectInit, ObjectTypeOK
  <1>5. annotated \in BOOLEAN
    BY <1>0, AnnotationsAssumption DEF ComponentInit
  <1>6. ComponentTypeOK
    <2>1. cqueue \in BOOLEAN
      BY <1>0 DEF ComponentInit
    <2>. QED
      BY <1>0, <1>5, <2>1, FaultsAssumption DEF ComponentInit, ComponentTypeOK
  <1>7. CachedAfterStored
    BY <1>0 DEF ObjectInit, CachedAfterStored
  <1>8. WorksOnSomething
    BY <1>0 DEF ComponentInit, WorksOnSomething
  <1>a. AppliedSoFar
    BY <1>0 DEF ComponentInit, AppliedSoFar
  <1>9. AnnotationsRecorded
    BY <1>0, <1>1, <1>2, <1>3 DEF ObjectInit, ComponentInit, AnnotationsRecorded
  <1>10. RecordedBeforeApplied
    BY <1>0 DEF ComponentInit, RecordedBeforeApplied
  <1>. QED
    BY <1>0, <1>4, <1>6, <1>7, <1>8, <1>9, <1>10, <1>a DEF IndInv, TypeOK

\* A step that stores nothing records nothing.
LEMMA StillRecorded ==
  ASSUME IndInv, Recording, UNCHANGED comp
  PROVE  recorded' = recorded
  BY DEF IndInv, AnnotationsRecorded, Recording

\* A step that writes neither the component nor the cluster.
LEMMA WorkerStep ==
  ASSUME IndInv, Recording, ComponentTypeOK', ObjectTypeOK', WorksOnSomething', AppliedSoFar',
         UNCHANGED <<comp, cache, deployed>>,
         \A c \in Controllers : obj'[c].ann \in {obj[c].ann, cache.ann},
         applySet' \in {0, applySet, obj["component"].ann}
  PROVE  IndInv'
  <1>0. recorded' = recorded
    BY StillRecorded
  <1>1. TypeOK'
    BY <1>0 DEF IndInv, TypeOK
  <1>2. CachedAfterStored'
    BY DEF IndInv, CachedAfterStored, CopyOf
  <1>3. AnnotationsRecorded'
    BY <1>0 DEF IndInv, AnnotationsRecorded, Controllers
  <1>4. RecordedBeforeApplied'
    BY <1>0 DEF IndInv, RecordedBeforeApplied
  <1>. QED
    BY <1>1, <1>2, <1>3, <1>4 DEF IndInv

\* A step in which controller c writes the component, but not its annotation, and
\* nothing is applied.
LEMMA StoreStep ==
  ASSUME IndInv, Recording, NEW c \in Controllers, NEW new \in Component, Written(c, new),
         new.spec # 0, new.ann = comp.ann,
         ComponentTypeOK', AppliedSoFar', cpc' \in {"succeed", "apply", "reapply"} => applySet' # 0,
         cqueue' \/ cpc' # "idle" => cache.spec # 0,
         cpc' # "idle" => obj["component"].spec # 0,
         applySet' \in {0, applySet}, UNCHANGED deployed
  PROVE  IndInv'
  <1>0. ObjectTypeOK /\ AnnotationsRecorded
    BY DEF IndInv, TypeOK
  <1>1. /\ comp' = new /\ ObjectTypeOK'
        /\ cache'.spec = cache.spec /\ cache'.ann = cache.ann
        /\ obj'[c] = CopyOf(new)
        /\ \A d \in Controllers \ {c} : obj'[d].spec = obj[d].spec /\ obj'[d].ann = obj[d].ann
    BY <1>0, WrittenFields
  <1>2. obj'[c].spec = new.spec /\ obj'[c].ann = comp.ann
    BY <1>1, CopyFields
  <1>3. recorded' = recorded
    BY <1>0, <1>1 DEF Recording, AnnotationsRecorded
  <1>4. TypeOK'
    BY <1>1, <1>3 DEF IndInv, TypeOK
  <1>5. CachedAfterStored'
    BY <1>1 DEF CachedAfterStored
  <1>6. WorksOnSomething'
    BY <1>1, <1>2 DEF WorksOnSomething, Controllers
  <1>7. AnnotationsRecorded'
    BY <1>0, <1>1, <1>2, <1>3 DEF AnnotationsRecorded
  <1>8. RecordedBeforeApplied'
    BY <1>3 DEF IndInv, RecordedBeforeApplied
  <1>. QED
    BY <1>4, <1>5, <1>6, <1>7, <1>8 DEF IndInv

\* The worker's variables after a step that leaves the cluster and the faults.
LEMMA ReturnType ==
  ASSUME ComponentTypeOK, NEW err \in BOOLEAN, Return(err)
  PROVE  /\ cpc' = "idle" /\ applySet' = 0 /\ todo' = {} /\ cqueue' \in BOOLEAN
         /\ cqueue' => cqueue \/ err
  BY DEF ComponentTypeOK, Return

\* A fault is taken from those that are left.
LEMMA FaultType ==
  ASSUME ComponentTypeOK, faults' = faults \/ Fault
  PROVE  faults' \in 0 .. MaxFaults
  BY FaultsAssumption DEF ComponentTypeOK, Fault

\* setConditionReady, wherever Reconcile calls it.
LEMMA ConditionInd ==
  ASSUME IndInv, Recording, UNCHANGED annotated, cpc # "idle",
         NEW reason \in ReadyStates, NEW next \in {"render", "error", "apply"},
         next = "apply" => applySet # 0 /\ todo = 1 .. Resources,
         setConditionReady(reason, next)
  PROVE  IndInv'
  <1> DEFINE c == obj["component"]
             Go == IF next = "error" THEN Return(TRUE)
                                     ELSE cpc' = next /\ UNCHANGED <<applySet, todo, cqueue>>
  <1>0. /\ ObjectTypeOK /\ ComponentTypeOK /\ WorksOnSomething /\ CachedAfterStored
        /\ comp \in Component /\ c \in Copy
    BY DEF IndInv, TypeOK, ObjectTypeOK, Controllers
  <1>1. /\ UNCHANGED <<deployed, faults>>
        /\ \/ Go /\ UNCHANGED objectVars
           \/ ApplyStatus("component", c.wf, reason) /\ Go
           \/ Return(TRUE) /\ UNCHANGED objectVars
    BY DEF setConditionReady
  <1>2. Go \/ Return(TRUE)
    BY <1>1
  <1>3. /\ cpc' \in {"idle", "render", "apply"} /\ applySet' \in {0, applySet}
        /\ cpc' = "apply" => applySet' # 0 /\ todo' = 1 .. Resources
        /\ todo' \in {{}, todo}
    BY <1>2 DEF Return
  <1>4. cqueue' \in BOOLEAN
    BY <1>0, <1>2, ReturnType DEF ComponentTypeOK
  <1>5. ComponentTypeOK'
    BY <1>0, <1>1, <1>3, <1>4 DEF ComponentTypeOK
  <1>6. cache.spec # 0 /\ obj["component"].spec # 0
    BY <1>0 DEF WorksOnSomething
  <1>a. AppliedSoFar'
    BY <1>3 DEF AppliedSoFar
  <1>7. CASE UNCHANGED objectVars
    <2>1. WorksOnSomething'
      BY <1>3, <1>6, <1>7 DEF WorksOnSomething, objectVars
    <2>2. ObjectTypeOK'
      BY <1>0, <1>7 DEF ObjectTypeOK, objectVars
    <2>. QED
      BY <1>1, <1>3, <1>5, <1>7, <1>a, <2>1, <2>2, WorkerStep DEF objectVars
  <1>8. CASE ApplyStatus("component", c.wf, reason)
    <2> DEFINE new == [comp EXCEPT !.wf = c.wf, !.ready = reason]
    <2>1. new \in Component /\ new.spec = comp.spec /\ new.ann = comp.ann
      BY <1>0 DEF Component, Copy
    <2>2. Written("component", new)
      BY <1>8 DEF ApplyStatus
    <2>3. comp.spec # 0
      BY <1>0, <1>6, CopyFields DEF CachedAfterStored
    <2>4. "component" \in Controllers
      BY DEF Controllers
    <2> HIDE DEF new
    <2>. QED
      BY <1>1, <1>3, <1>5, <1>6, <1>a, <2>1, <2>2, <2>3, <2>4, StoreStep
  <1>. QED
    BY <1>1, <1>7, <1>8

\* A step of applyResources either applies the next resource or fails.
LEMMA ApplyFacts ==
  ASSUME ComponentTypeOK, NEW from \in {"apply", "reapply"}, NEW next \in {"idle", "rendering"},
         applyResources(from, next)
  PROVE  /\ cpc = from /\ UNCHANGED <<comp, cache, obj>> /\ cqueue' \in BOOLEAN
         /\ cqueue' => cqueue
         /\ \/ \E r \in todo :
                 /\ \A q \in todo \ {r} : Before(r, q)
                 /\ deployed' = [deployed EXCEPT ![r] = applySet]
                 /\ todo' = todo \ {r} /\ faults' = faults
                 /\ \/ cpc' = cpc /\ applySet' = applySet
                    \/ cpc' \in {"idle", "rendering"} /\ applySet' = 0
            \/ /\ Fault /\ cpc' = "deployFailed" /\ UNCHANGED <<applySet, todo, deployed>>
  <1>0. cqueue \in BOOLEAN
    BY DEF ComponentTypeOK
  <1>1. cpc = from /\ UNCHANGED <<comp, cache, obj>>
    BY DEF applyResources, objectVars
  <1>2. CASE Fault /\ cpc' = "deployFailed" /\ UNCHANGED <<applySet, todo, cqueue, deployed>>
    BY <1>0, <1>1, <1>2
  <1>3. ASSUME NEW r \in todo,
               /\ \A q \in todo \ {r} : Before(r, q)
               /\ deployed' = [deployed EXCEPT ![r] = applySet]
               /\ \/ /\ todo # {r} /\ todo' = todo \ {r}
                     /\ UNCHANGED <<cpc, applySet, cqueue>>
                  \/ todo = {r} /\ next = "idle" /\ Return(FALSE)
                  \/ /\ todo = {r} /\ next # "idle" /\ cpc' = next
                     /\ applySet' = 0 /\ todo' = {} /\ UNCHANGED cqueue
               /\ UNCHANGED faults
        PROVE  /\ \A q \in todo \ {r} : Before(r, q)
               /\ deployed' = [deployed EXCEPT ![r] = applySet]
               /\ todo' = todo \ {r} /\ faults' = faults
               /\ cqueue' \in BOOLEAN /\ (cqueue' => cqueue)
               /\ \/ cpc' = cpc /\ applySet' = applySet
                  \/ cpc' \in {"idle", "rendering"} /\ applySet' = 0
    <2>1. CASE todo # {r} /\ todo' = todo \ {r} /\ UNCHANGED <<cpc, applySet, cqueue>>
      BY <1>0, <1>3, <2>1
    <2>2. CASE todo = {r} /\ next = "idle" /\ Return(FALSE)
      BY <1>0, <1>3, <2>2, ReturnType
    <2>3. CASE /\ todo = {r} /\ next # "idle" /\ cpc' = next
               /\ applySet' = 0 /\ todo' = {} /\ UNCHANGED cqueue
      BY <1>0, <1>3, <2>3
    <2>. QED
      BY <1>3, <2>1, <2>2, <2>3
  <1>. QED
    BY <1>1, <1>2, <1>3 DEF applyResources

\* applyResources, of the annotation and of the rendering.
LEMMA ApplyInd ==
  ASSUME IndInv, Recording, UNCHANGED annotated,
         NEW from \in {"apply", "reapply"}, NEW next \in {"idle", "rendering"},
         applyResources(from, next)
  PROVE  IndInv'
  <1>0. /\ ObjectTypeOK /\ ComponentTypeOK /\ WorksOnSomething /\ CachedAfterStored
        /\ AppliedSoFar /\ RecordedBeforeApplied /\ AnnotationsRecorded
        /\ deployed \in [1 .. Resources -> {0} \cup Specs] /\ todo \subseteq 1 .. Resources
        /\ applySet \in {0} \cup Specs
    BY DEF IndInv, TypeOK, ComponentTypeOK
  <1>1. /\ cpc = from /\ UNCHANGED <<comp, cache, obj>> /\ cqueue' \in BOOLEAN
        /\ cqueue' => cqueue
        /\ \/ \E r \in todo :
                /\ deployed' = [deployed EXCEPT ![r] = applySet]
                /\ todo' = todo \ {r} /\ faults' = faults
                /\ \/ cpc' = cpc /\ applySet' = applySet
                   \/ cpc' \in {"idle", "rendering"} /\ applySet' = 0
           \/ /\ Fault /\ cpc' = "deployFailed" /\ UNCHANGED <<applySet, todo, deployed>>
    BY <1>0, ApplyFacts
  <1>2. /\ cpc' \in {"idle", "rendering", "deployFailed", cpc} /\ applySet' \in {0, applySet}
        /\ cpc' = cpc => applySet' = applySet
        /\ todo' \subseteq todo
        /\ faults' = faults \/ Fault
        /\ deployed' = deployed \/ \E r \in todo : deployed' = [deployed EXCEPT ![r] = applySet]
    BY <1>1
  <1>3. deployed' \in [1 .. Resources -> {0} \cup Specs]
    BY <1>0, <1>2
  <1>4. faults' \in 0 .. MaxFaults
    BY <1>0, <1>2, FaultType
  <1>5. ComponentTypeOK'
    BY <1>0, <1>1, <1>2, <1>3, <1>4 DEF ComponentTypeOK
  <1>6. ObjectTypeOK' /\ CachedAfterStored'
    BY <1>0, <1>1 DEF ObjectTypeOK, CachedAfterStored, CopyOf
  <1>7. recorded' = recorded
    BY <1>1, StillRecorded
  <1>8. WorksOnSomething'
    BY <1>0, <1>1, <1>2 DEF WorksOnSomething
  <1>9. AnnotationsRecorded'
    BY <1>0, <1>1, <1>2, <1>7 DEF AnnotationsRecorded
  <1>10. RecordedBeforeApplied'
    BY <1>0, <1>2, <1>7 DEF RecordedBeforeApplied, AnnotationsRecorded
  <1>11. AppliedSoFar'
    <2>1. CASE cpc' \in {"idle", "rendering", "deployFailed"}
      BY <2>1 DEF AppliedSoFar
    <2>2. CASE cpc' = from
      <3>1. PICK r \in todo : /\ deployed' = [deployed EXCEPT ![r] = applySet]
                              /\ todo' = todo \ {r} /\ applySet' = applySet
        BY <1>1, <2>2
      <3>. QED
        BY <1>0, <1>1, <2>2, <3>1 DEF AppliedSoFar
    <2>. QED
      BY <1>1, <1>2, <2>1, <2>2
  <1>. QED
    BY <1>5, <1>6, <1>7, <1>8, <1>9, <1>10, <1>11 DEF IndInv, TypeOK

\* The start of Reconcile, and the steps on the way to the rendering.
LEMMA ReconcileInd ==
  ASSUME IndInv, Recording, UNCHANGED annotated, ReconcileComponent \/ ReconcileDeployedObjects
  PROVE  IndInv'
  <1>0. /\ ObjectTypeOK /\ ComponentTypeOK /\ WorksOnSomething /\ AnnotationsRecorded
        /\ obj \in [Controllers -> Copy] /\ cache \in Copy /\ "component" \in Controllers
    BY DEF IndInv, TypeOK, ObjectTypeOK, Controllers
  <1>1. CASE ReconcileComponent
    <2>1. /\ cqueue /\ cqueue' = FALSE /\ cpc' = "deployed"
          /\ obj' = [obj EXCEPT !["component"] = cache]
          /\ UNCHANGED <<comp, cache, applySet, todo, deployed, faults>>
      BY <1>1 DEF ReconcileComponent
    <2>2. ObjectTypeOK'
      BY <1>0, <2>1 DEF ObjectTypeOK
    <2>3. cqueue' \in BOOLEAN
      BY <2>1
    <2>4. ComponentTypeOK'
      BY <1>0, <2>1, <2>3 DEF ComponentTypeOK
    <2>5. cache.spec # 0
      BY <1>0, <2>1 DEF WorksOnSomething
    <2>6. WorksOnSomething' /\ AppliedSoFar'
      BY <1>0, <2>1, <2>5 DEF WorksOnSomething, AppliedSoFar
    <2>. QED
      BY <1>0, <2>1, <2>2, <2>4, <2>6, WorkerStep
  <1>2. CASE ReconcileDeployedObjects
    <2>1. cpc = "deployed" /\ UNCHANGED <<comp, cache, obj, deployed>>
      BY <1>2 DEF ReconcileDeployedObjects, objectVars
    <2>2. \/ cpc' = "rendering" /\ UNCHANGED <<applySet, todo, cqueue, faults>>
          \/ /\ cpc' = "reapply" /\ applySet' = obj["component"].ann /\ applySet' # 0
             /\ todo' = 1 .. Resources /\ UNCHANGED <<cqueue, faults>>
          \/ Fault /\ Return(TRUE)
      BY <1>2 DEF ReconcileDeployedObjects
    <2>3. obj["component"].ann \in {0} \cup Specs
      BY <1>0 DEF Copy
    <2>4. cqueue' \in BOOLEAN /\ faults' \in 0 .. MaxFaults
      <3>1. cqueue' \in BOOLEAN
        BY <1>0, <2>2, ReturnType DEF ComponentTypeOK
      <3>2. faults' = faults \/ Fault
        BY <2>2
      <3>. QED
        BY <1>0, <3>1, <3>2, FaultType
    <2>5. /\ cpc' \in {"rendering", "reapply", "idle"} /\ todo' \subseteq 1 .. Resources
          /\ applySet' \in {0, applySet, obj["component"].ann}
          /\ cpc' = "reapply" => applySet' # 0 /\ todo' = 1 .. Resources
      BY <1>0, <2>2, ReturnType DEF ComponentTypeOK
    <2>6. ComponentTypeOK'
      BY <1>0, <2>1, <2>3, <2>4, <2>5 DEF ComponentTypeOK
    <2>7. ObjectTypeOK' /\ AppliedSoFar'
      BY <1>0, <2>1, <2>5 DEF ObjectTypeOK, AppliedSoFar
    <2>8. WorksOnSomething'
      BY <1>0, <2>1, <2>5 DEF WorksOnSomething
    <2>. QED
      BY <2>1, <2>5, <2>6, <2>7, <2>8, WorkerStep
  <1>. QED
    BY <1>1, <1>2

\* A rendering is recorded before the worker goes on with it.
LEMMA RenderInd ==
  ASSUME IndInv, Recording, UNCHANGED annotated, renderComponent
  PROVE  IndInv'
  <1> DEFINE spec == obj["component"].spec
  <1>0. /\ ObjectTypeOK /\ ComponentTypeOK /\ WorksOnSomething /\ AnnotationsRecorded
        /\ CachedAfterStored /\ comp \in Component /\ recorded \in SUBSET Specs
        /\ obj["component"] \in Copy /\ "component" \in Controllers /\ cpc = "render"
    BY DEF IndInv, TypeOK, ObjectTypeOK, Controllers, renderComponent
  <1>1. spec # 0 /\ spec \in Specs /\ cache.spec # 0 /\ comp.spec # 0
    BY <1>0, CopyFields DEF WorksOnSomething, CachedAfterStored, Copy
  <1>2. CASE /\ Patch("component", spec) /\ applySet' = spec /\ todo' = 1 .. Resources
             /\ cpc' = "succeed" /\ UNCHANGED <<cqueue, deployed, faults>>
    <2> DEFINE new == [comp EXCEPT !.ann = spec]
    <2>1. new \in Component /\ new.spec = comp.spec /\ new.ann = spec
      BY <1>0, <1>1 DEF Component
    <2>2. Written("component", new)
      BY <1>2 DEF Patch
    <2> HIDE DEF new
    <2>3. /\ comp' = new /\ ObjectTypeOK'
          /\ cache'.spec = cache.spec /\ cache'.ann = cache.ann
          /\ obj'["component"] = CopyOf(new)
          /\ \A d \in Controllers \ {"component"} : obj'[d].spec = obj[d].spec /\ obj'[d].ann = obj[d].ann
      BY <1>0, <2>1, <2>2, WrittenFields
    <2>4. obj'["component"].spec = comp.spec /\ obj'["component"].ann = spec
      BY <2>1, <2>3, CopyFields
    <2>5. recorded' = recorded \cup {spec}
      BY <1>1, <2>1, <2>3 DEF Recording
    <2> HIDE DEF spec
    <2>6. TypeOK'
      BY <1>0, <1>1, <1>2, <2>3, <2>5 DEF TypeOK, ComponentTypeOK
    <2>7. CachedAfterStored' /\ WorksOnSomething' /\ AppliedSoFar'
      BY <1>1, <1>2, <2>1, <2>3, <2>4 DEF CachedAfterStored, WorksOnSomething, AppliedSoFar
    <2>8. AnnotationsRecorded'
      BY <1>0, <1>2, <2>1, <2>3, <2>4, <2>5 DEF AnnotationsRecorded
    <2>9. RecordedBeforeApplied'
      BY <1>2, <2>5 DEF IndInv, RecordedBeforeApplied
    <2>. QED
      BY <2>6, <2>7, <2>8, <2>9 DEF IndInv
  <1>3. CASE Return(TRUE) /\ UNCHANGED <<objectVars, deployed, faults>>
    <2>1. cpc' = "idle" /\ applySet' = 0 /\ todo' = {} /\ cqueue' \in BOOLEAN
      BY <1>0, <1>3, ReturnType
    <2>2. ComponentTypeOK'
      BY <1>0, <1>3, <2>1 DEF ComponentTypeOK
    <2>3. ObjectTypeOK' /\ WorksOnSomething' /\ AppliedSoFar'
      BY <1>0, <1>1, <1>3, <2>1 DEF ObjectTypeOK, WorksOnSomething, AppliedSoFar, objectVars
    <2>. QED
      BY <1>3, <2>1, <2>2, <2>3, WorkerStep DEF objectVars
  <1>4. CASE Fault /\ cpc' = "renderFailed" /\ UNCHANGED <<objectVars, applySet, todo, cqueue, deployed>>
    <2>1. faults' \in 0 .. MaxFaults
      BY <1>0, <1>4, FaultsAssumption DEF Fault, ComponentTypeOK
    <2>2. ComponentTypeOK'
      BY <1>0, <1>4, <2>1 DEF ComponentTypeOK
    <2>3. ObjectTypeOK' /\ WorksOnSomething' /\ AppliedSoFar'
      BY <1>0, <1>4 DEF ObjectTypeOK, WorksOnSomething, AppliedSoFar, objectVars
    <2>. QED
      BY <1>4, <2>2, <2>3, WorkerStep DEF objectVars
  <1>. QED
    BY <1>2, <1>3, <1>4 DEF renderComponent

\* All of Reconcile.
LEMMA ComponentReconcileInd ==
  ASSUME IndInv, Recording, ComponentReconcile
  PROVE  IndInv'
  <1>0. UNCHANGED annotated /\ WorksOnSomething /\ AppliedSoFar
    BY DEF ComponentReconcile, IndInv, TypeOK
  <1>1. CASE ReconcileComponent \/ ReconcileDeployedObjects
    BY <1>0, <1>1, ReconcileInd
  <1>2. CASE SetRendering
    BY <1>0, <1>2, ConditionInd DEF SetRendering, ReadyStates
  <1>3. CASE renderComponent
    BY <1>0, <1>3, RenderInd
  <1>4. CASE SetRenderingFailed
    BY <1>0, <1>4, ConditionInd DEF SetRenderingFailed, ReadyStates
  <1>5. CASE SetRenderingSucceed
    BY <1>0, <1>5, ConditionInd DEF SetRenderingSucceed, ReadyStates, WorksOnSomething, AppliedSoFar
  <1>6. CASE ApplyRecorded \/ ApplyRendered
    BY <1>0, <1>6, ApplyInd DEF ApplyRecorded, ApplyRendered
  <1>7. CASE SetDeployingFailed
    BY <1>0, <1>7, ConditionInd DEF SetDeployingFailed, ReadyStates
  <1>. QED
    BY <1>1, <1>2, <1>3, <1>4, <1>5, <1>6, <1>7 DEF ComponentReconcile

\* The watch and the work queue, and a restart of the manager.
LEMMA EnvironmentInd ==
  ASSUME IndInv, Recording, SyncComponent \/ RequeueComponent \/ CrashComponent
  PROVE  IndInv'
  <1>0. /\ ObjectTypeOK /\ ComponentTypeOK /\ WorksOnSomething /\ AnnotationsRecorded
        /\ CachedAfterStored /\ comp \in Component /\ cache \in Copy
    BY DEF IndInv, TypeOK, ObjectTypeOK
  <1>a. /\ UNCHANGED <<comp, obj, annotated, deployed>> /\ recorded' = recorded
    BY StillRecorded DEF SyncComponent, SyncCache, RequeueComponent, objectVars, CrashComponent
  <1>b. CopyOf(comp) \in Copy /\ CopyOf(comp).spec = comp.spec /\ CopyOf(comp).ann = comp.ann
    BY <1>0, CopyFields
  <1>1. /\ cache' = cache \/ cache' = CopyOf(comp)
        /\ \/ cpc' = cpc /\ applySet' = applySet /\ todo' = todo
           \/ cpc' = "idle" /\ applySet' = 0 /\ todo' = {}
    BY DEF SyncComponent, SyncCache, RequeueComponent, objectVars, CrashComponent
  <1>2. cqueue' \in BOOLEAN /\ faults' \in 0 .. MaxFaults
    <2>1. cqueue' \in BOOLEAN
      BY DEF SyncComponent, RequeueComponent, CrashComponent
    <2>2. faults' = faults \/ Fault
      BY DEF SyncComponent, RequeueComponent, CrashComponent
    <2>. QED
      BY <1>0, <2>1, <2>2, FaultType
  <1>3. cqueue' \/ cpc' # "idle" => cache'.spec # 0
    <2>1. CASE SyncComponent
      <3>1. cache # CopyOf(comp) /\ cache' = CopyOf(comp)
        BY <2>1 DEF SyncComponent, SyncCache
      <3>. QED
        BY <1>0, <1>b, <3>1 DEF CachedAfterStored
    <2>2. CASE RequeueComponent
      BY <2>2 DEF RequeueComponent, objectVars
    <2>3. CASE CrashComponent
      BY <1>b, <2>3 DEF CrashComponent
    <2>. QED
      BY <2>1, <2>2, <2>3
  <1>4. ObjectTypeOK'
    BY <1>0, <1>1, <1>a, <1>b DEF ObjectTypeOK
  <1>5. ComponentTypeOK'
    BY <1>0, <1>1, <1>2, <1>a DEF ComponentTypeOK
  <1>6. CachedAfterStored'
    BY <1>0, <1>1, <1>a DEF CachedAfterStored, CopyOf
  <1>7. WorksOnSomething'
    BY <1>0, <1>1, <1>3, <1>a DEF WorksOnSomething
  <1>8. AnnotationsRecorded'
    BY <1>0, <1>1, <1>a, <1>b DEF AnnotationsRecorded
  <1>9. RecordedBeforeApplied' /\ AppliedSoFar'
    BY <1>1, <1>a DEF IndInv, RecordedBeforeApplied, AppliedSoFar
  <1>. QED
    BY <1>4, <1>5, <1>6, <1>7, <1>8, <1>9, <1>a DEF IndInv, TypeOK

\* What the application controller does to the component.
LEMMA OtherInd ==
  ASSUME IndInv, Recording, OtherUpdates \/ OtherSetsStatus
  PROVE  IndInv'
  <1>0. /\ ComponentTypeOK /\ WorksOnSomething /\ CachedAfterStored /\ comp \in Component
        /\ "application" \in Controllers
    BY DEF IndInv, TypeOK, ObjectTypeOK, Controllers
  <1>1. UNCHANGED <<annotated, cpc, applySet, todo, cqueue, deployed, faults>>
    BY DEF OtherUpdates, OtherSetsStatus, componentVars
  <1>2. ComponentTypeOK'
    BY <1>0, <1>1 DEF ComponentTypeOK
  <1>3. ASSUME NEW new \in Component, Written("application", new), new.spec # 0, new.ann = comp.ann
        PROVE  IndInv'
    <2>1. /\ cpc' \in {"succeed", "apply", "reapply"} => applySet' # 0
          /\ cqueue' \/ cpc' # "idle" => cache.spec # 0
          /\ cpc' # "idle" => obj["component"].spec # 0
      BY <1>0, <1>1 DEF WorksOnSomething
    <2>2. AppliedSoFar'
      BY <1>1 DEF IndInv, AppliedSoFar
    <2>. QED
      BY <1>0, <1>1, <1>2, <1>3, <2>1, <2>2, StoreStep
  <1>4. CASE OtherUpdates
    <2> DEFINE new == [comp EXCEPT !.spec = comp.spec + 1]
    <2>1. comp.spec + 1 \in Specs
      BY <1>0, <1>4, MaxSpecAssumption DEF OtherUpdates, Component, Specs
    <2>2. new \in Component /\ new.spec # 0 /\ new.ann = comp.ann
      BY <1>0, <2>1 DEF Component, Specs
    <2>3. Written("application", new)
      BY <1>4 DEF OtherUpdates
    <2> HIDE DEF new
    <2>. QED
      BY <1>3, <2>2, <2>3
  <1>5. CASE OtherSetsStatus
    <2>1. PICK wf \in WfStates, ready \in ReadyStates : ApplyStatus("application", wf, ready)
      BY <1>0, <1>5 DEF OtherSetsStatus, Component, WfStates, ReadyStates
    <2> DEFINE new == [comp EXCEPT !.wf = wf, !.ready = ready]
    <2>2. comp.spec # 0
      BY <1>0, <2>1, CopyFields DEF ApplyStatus, CachedAfterStored
    <2>3. new \in Component /\ new.spec # 0 /\ new.ann = comp.ann
      BY <1>0, <2>2 DEF Component
    <2>4. Written("application", new)
      BY <2>1 DEF ApplyStatus
    <2> HIDE DEF new
    <2>. QED
      BY <1>3, <2>3, <2>4
  <1>. QED
    BY <1>4, <1>5

\* Every step keeps the invariant.
LEMMA NextInd == IndInv /\ [Next]_vars => IndInv'
  <1> SUFFICES ASSUME IndInv, [Next]_vars PROVE IndInv'
    OBVIOUS
  <1>1. CASE Next
    BY <1>1, ComponentReconcileInd, EnvironmentInd, OtherInd DEF Next, Recording
  <1>2. CASE UNCHANGED vars
    <2>1. UNCHANGED <<comp, cache, obj, annotated, cpc, applySet, todo, cqueue, deployed, faults, recorded>>
      BY <1>2 DEF vars, objectVars, componentVars
    <2>2. TypeOK'
      BY <2>1 DEF IndInv, TypeOK, ObjectTypeOK, ComponentTypeOK
    <2>3. CachedAfterStored' /\ WorksOnSomething' /\ AnnotationsRecorded'
      BY <2>1 DEF IndInv, CachedAfterStored, CopyOf, WorksOnSomething, AnnotationsRecorded
    <2>4. RecordedBeforeApplied' /\ AppliedSoFar'
      BY <2>1 DEF IndInv, RecordedBeforeApplied, AppliedSoFar
    <2>. QED
      BY <2>2, <2>3, <2>4 DEF IndInv
  <1>. QED
    BY <1>1, <1>2

\* The invariant holds from the start of the manager on.
THEOREM Invariance == Spec => []IndInv
  BY InitInd, NextInd, PTL DEF Spec

(***************************************************************************)
(* The results.                                                            *)
(***************************************************************************)
\* The component, its copies and the worker have their type.
THEOREM TypeCorrect == Spec => []TypeOK
  <1>1. IndInv => TypeOK
    BY DEF IndInv
  <1>. QED
    BY <1>1, Invariance, PTL

\* renderComponent patches the annotation before anything of the rendering is
\* applied, and what ReconcileDeployedObjects applies again was recorded too.
THEOREM AppliesWhatIsRecorded == Spec => []RecordedBeforeApplied
  <1>1. IndInv => RecordedBeforeApplied
    BY DEF IndInv
  <1>. QED
    BY <1>1, Invariance, PTL

\* Sorting by orderMap makes applyResources bring a resource to a rendering only
\* after everything that the map puts before it: what it has applied stays, in that
\* rendering, until it is through, and what comes first is never left to the end.
THEOREM AppliesInOrder == Spec => AppliedInOrder
  <1> DEFINE InOrder == \A q, r \in 1 .. Resources :
                deployed'[r] # deployed[r] /\ Order[q] < Order[r] => deployed[q] = deployed'[r]
  <1>1. ASSUME IndInv, [Next]_vars PROVE InOrder
    <2>1. CASE deployed' = deployed
      BY <2>1
    <2>2. ASSUME NEW from \in {"apply", "reapply"}, NEW next \in {"idle", "rendering"},
                 applyResources(from, next)
          PROVE  InOrder
      <3>1. ComponentTypeOK /\ AppliedSoFar
        BY <1>1 DEF IndInv, TypeOK
      <3>2. CASE \E r \in todo : /\ \A q \in todo \ {r} : Before(r, q)
                                /\ deployed' = [deployed EXCEPT ![r] = applySet]
        <4>1. PICK r \in todo : /\ \A q \in todo \ {r} : Before(r, q)
                                /\ deployed' = [deployed EXCEPT ![r] = applySet]
          BY <3>2
        <4>2. /\ todo \subseteq 1 .. Resources
              /\ deployed \in [1 .. Resources -> {0} \cup Specs] /\ cpc = from
          BY <2>2, <3>1, ApplyFacts DEF ComponentTypeOK
        <4>3. SUFFICES ASSUME NEW q \in 1 .. Resources, Order[q] < Order[r]
                       PROVE  deployed[q] = applySet
          BY <4>1, <4>2
        <4>4. q # r /\ ~Before(r, q)
          BY <4>2, <4>3, OrderAssumption DEF Before
        <4>5. q \notin todo
          BY <4>1, <4>4
        <4>. QED
          BY <3>1, <4>2, <4>5 DEF AppliedSoFar
      <3>3. CASE deployed' = deployed
        BY <3>3
      <3>. QED
        BY <2>2, <3>1, <3>2, <3>3, ApplyFacts
    <2>3. CASE ApplyRecorded \/ ApplyRendered
      BY <2>2, <2>3 DEF ApplyRecorded, ApplyRendered
    <2>4. CASE ~(ApplyRecorded \/ ApplyRendered)
      <3>1. deployed' = deployed
        BY <1>1, <2>4
        DEF Next, vars, componentVars, ComponentReconcile, ReconcileComponent, ReconcileDeployedObjects,
            SetRendering, renderComponent, SetRenderingFailed, SetRenderingSucceed, SetDeployingFailed,
            setConditionReady, SyncComponent, RequeueComponent, CrashComponent, OtherUpdates,
            OtherSetsStatus
      <3>. QED
        BY <2>1, <3>1
    <2>. QED
      BY <2>3, <2>4
  <1>. QED
    BY <1>1, Invariance, PTL DEF Spec, AppliedInOrder
==============================================================================
