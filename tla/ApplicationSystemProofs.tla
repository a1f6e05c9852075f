------------------------ MODULE ApplicationSystemProofs ------------------------
(***************************************************************************)
(* Safety of the Application reconciler beside another writer of the       *)
(* component, for any number of specifications, runs and writes, any       *)
(* assignment of sources, and whether or not calls fail.                   *)
(***************************************************************************)
EXTENDS ApplicationSystem, FiniteSetTheorems, TLAPS

(***************************************************************************)
(* The inductive invariant.                                                *)
(***************************************************************************)
\* A copy that is up to date says what is stored.  Before the component is
\* created nobody has a copy of it, and the cache knows that.
CopiesTrue ==
    /\ comp.spec = 0 => comp = Absent /\ cache = CopyOf(comp)
    /\ cache.fresh => cache = CopyOf(comp)
    /\ \A c \in Controllers : /\ obj[c].fresh => obj[c] = CopyOf(comp)
                              /\ obj[c].fresh \/ obj[c].spec # 0 => comp.spec # 0

\* Runs are numbered without a gap, and the label is the number of one of them.
RunsNumbered ==
    /\ \E n \in 0 .. MaxRuns : Created = 1 .. n
    /\ comp.label \in {0} \cup Created

\* Where no run has been created for this reconciliation yet.
BeforeRun == {"creating", "create", "workflow", "trigger", "run"}

\* What the worker relies on: a run it has created is newer than the label, and
\* where it updates the component without one the source stays the same.
WorkerSound ==
    /\ apc # "idle" => target \in Specs
    /\ apc \in BeforeRun => wflr = 0
    /\ apc \in {"label", "update"} => wflr = 0 \/ (wflr \in Created /\ wflr > comp.label)
    /\ apc = "update" => wflr # 0 \/ Source(obj["application"].spec) = Source(target)

IndInv == TypeOK /\ CopiesTrue /\ RunsNumbered /\ WorkerSound

\* What a step may do to the component: the label never goes back, and the source
\* changes only together with it.
Moves ==
    /\ comp'.label >= comp.label
    /\ (comp.spec # 0 /\ Source(comp'.spec) # Source(comp.spec))
         => (comp'.label > comp.label /\ comp'.label \in Created)

(***************************************************************************)
(* Copies of the component.                                                *)
(***************************************************************************)
\* A copy says what its original says,
LEMMA CopyFields ==
  ASSUME NEW c \in Component
  PROVE  /\ CopyOf(c) \in Copy /\ CopyOf(c).fresh = TRUE /\ CopyOf(c).spec = c.spec
         /\ CopyOf(c).label = c.label
  BY DEF CopyOf, Copy, Component

\* also when it is out of date.
LEMMA StaleFields ==
  ASSUME NEW c \in Copy
  PROVE  /\ Stale(c) \in Copy /\ Stale(c).fresh = FALSE /\ Stale(c).spec = c.spec
         /\ Stale(c).label = c.label
  BY DEF Stale, Copy

\* Before the component is created.
LEMMA AbsentFields ==
  /\ Absent \in Component /\ Absent.spec = 0 /\ Absent.label = 0
  /\ NoCopy \in Copy /\ NoCopy.fresh = FALSE /\ NoCopy.spec = 0
  <1>1. Absent \in Component /\ Absent.spec = 0 /\ Absent.label = 0
    BY MaxRunsAssumption DEF Absent, Component, WfStates, ReadyStates
  <1>2. CopyOf(Absent) \in Copy /\ CopyOf(Absent).spec = 0
    BY <1>1, CopyFields
  <1>. QED
    BY <1>1, <1>2 DEF NoCopy, Copy

\* An accepted write reaches the writer's copy; the other copies keep what they
\* say, and lose their freshness unless nothing changed.
LEMMA WrittenFields ==
  ASSUME ObjectTypeOK, NEW c \in Controllers, NEW new \in Component, Written(c, new)
  PROVE  /\ comp' = new /\ ObjectTypeOK'
         /\ cache'.spec = cache.spec /\ cache'.label = cache.label
         /\ cache'.fresh => cache' = cache /\ comp = new
         /\ obj'[c] = CopyOf(new)
         /\ \A d \in Controllers \ {c} :
              /\ obj'[d].spec = obj[d].spec /\ obj'[d].label = obj[d].label
              /\ obj'[d].fresh => obj'[d] = obj[d] /\ comp = new
  <1>0. cache \in Copy /\ obj \in [Controllers -> Copy] /\ CopyOf(new) \in Copy
    BY CopyFields DEF ObjectTypeOK
  <1>1. comp' = new
    BY DEF Written
  <1>2. CASE /\ cache' = Stale(cache)
             /\ obj' = [d \in Controllers |-> IF d = c THEN CopyOf(new) ELSE Stale(obj[d])]
    BY <1>0, <1>1, <1>2, StaleFields DEF ObjectTypeOK
  <1>3. CASE comp = new /\ cache' = cache /\ obj' = [obj EXCEPT ![c] = CopyOf(new)]
    BY <1>0, <1>1, <1>3 DEF ObjectTypeOK
  <1>. QED
    BY <1>2, <1>3 DEF Written

\* So a write of a component that exists keeps the copies true.
LEMMA WrittenCopies ==
  ASSUME ObjectTypeOK, CopiesTrue, NEW c \in Controllers, NEW new \in Component,
         Written(c, new), new.spec # 0
  PROVE  CopiesTrue'
  <1>1. /\ comp' = new
        /\ cache'.fresh => cache' = cache /\ comp = new
        /\ obj'[c] = CopyOf(new)
        /\ \A d \in Controllers \ {c} : obj'[d].fresh => obj'[d] = obj[d] /\ comp = new
    BY WrittenFields
  <1>2. cache'.fresh => cache' = CopyOf(new)
    <2> SUFFICES ASSUME cache'.fresh PROVE cache' = CopyOf(new)
      OBVIOUS
    <2>1. cache' = cache /\ comp = new
      BY <1>1
    <2>2. cache.fresh
      BY <2>1
    <2>. QED
      BY <2>1, <2>2 DEF CopiesTrue
  <1>3. ASSUME NEW d \in Controllers, obj'[d].fresh PROVE obj'[d] = CopyOf(new)
    <2>1. CASE d = c
      BY <1>1, <2>1
    <2>2. CASE d # c
      <3>1. obj'[d] = obj[d] /\ comp = new
        BY <1>1, <1>3, <2>2
      <3>2. obj[d].fresh
        BY <1>3, <3>1
      <3>. QED
        BY <3>1, <3>2 DEF CopiesTrue
    <2>. QED
      BY <2>1, <2>2
  <1>4. CopyOf(comp') = CopyOf(new)
    BY <1>1
  <1>5. CopyOf(comp)' = CopyOf(comp')
    BY DEF CopyOf
  <1>. QED
    BY <1>1, <1>2, <1>3, <1>4, <1>5 DEF CopiesTrue

(***************************************************************************)
(* Runs.                                                                   *)
(***************************************************************************)
\* There are as many runs as the last one's number says, and the next one is new.
LEMMA RunNumbers ==
  ASSUME RunsNumbered
  PROVE  /\ Cardinality(Created) \in Nat /\ Created = 1 .. Cardinality(Created)
         /\ NextRun = Cardinality(Created) + 1 /\ NextRun \notin Created
  <1>1. PICK n \in 0 .. MaxRuns : Created = 1 .. n
    BY DEF RunsNumbered
  <1>2. n \in Nat
    BY <1>1, MaxRunsAssumption
  <1>3. Cardinality(1 .. n) = IF 1 > n THEN 0 ELSE n - 1 + 1
    BY <1>2, FS_Interval
  <1>4. Cardinality(Created) = n
    BY <1>1, <1>2, <1>3
  <1>. QED
    BY <1>1, <1>2, <1>4 DEF NextRun

(***************************************************************************)
(* The steps, by what they write.                                          *)
(***************************************************************************)
\* Before anything happens.
LEMMA InitInd == Init => IndInv
  <1> SUFFICES ASSUME Init PROVE IndInv
    OBVIOUS
  <1>0. ObjectInit /\ ApplicationInit /\ writes \in 0 .. MaxWrites /\ former = 0
    BY DEF Init
  <1>1. CopyOf(Absent) \in Copy /\ CopyOf(Absent).spec = 0
    BY AbsentFields, CopyFields
  <1>2. /\ comp = Absent /\ cache = CopyOf(Absent) /\ CopyOf(comp) = CopyOf(Absent)
        /\ \A c \in Controllers : obj[c] = NoCopy
    BY <1>0 DEF ObjectInit
  <1>3. ObjectTypeOK
    BY <1>0, <1>1, AbsentFields DEF ObjectInit, ObjectTypeOK
  <1>4. NoRuns \in [1 .. MaxRuns -> RunStates] /\ \A r \in 1 .. MaxRuns : NoRuns[r] = "absent"
    BY DEF NoRuns, RunStates
  <1>5. ApplicationTypeOK
    <2>1. aqueue \in BOOLEAN
      BY <1>0 DEF ApplicationInit
    <2>2. 1 \in Specs /\ appCache \in [want : Specs, fresh : BOOLEAN]
      BY <1>0, MaxSpecAssumption DEF ApplicationInit, Specs
    <2>. QED
      BY <1>0, <1>4, <2>1, <2>2, MaxRunsAssumption, BoundsAssumption
      DEF ApplicationInit, ApplicationTypeOK
  <1>6. CopiesTrue
    BY <1>2, AbsentFields DEF CopiesTrue
  <1>7. RunsNumbered
    <2>1. Created = {}
      BY <1>0, <1>4 DEF ApplicationInit, Created
    <2>2. 1 .. 0 = {} /\ 0 \in 0 .. MaxRuns
      BY MaxRunsAssumption
    <2>. QED
      BY <1>2, <2>1, <2>2, AbsentFields DEF RunsNumbered
  <1>9. WorkerSound
    BY <1>0 DEF ApplicationInit, WorkerSound, BeforeRun
  <1>. QED
    BY <1>0, <1>3, <1>5, <1>6, <1>7, <1>9, MaxRunsAssumption DEF IndInv, TypeOK

\* Where the worker relies on nothing but the version it reconciles towards.
Unbound == {"createFailed", "notTriggered", "updating", "retrigger", "rerun", "notRetriggered",
            "updateFailed", "lookup", "pending", "status"}

\* The worker goes on to such a place, or towards the creation of a run, or ends.
Continues ==
    \/ \E pc \in Unbound : Go(pc)
    \/ \E pc \in BeforeRun : apc \in BeforeRun /\ Go(pc)
    \/ \E err \in BOOLEAN : Done(err)

\* That asks nothing of the component and the runs.
LEMMA ContinuesSound ==
  ASSUME ApplicationTypeOK, WorkerSound, apc # "idle", Continues,
         appCache' \in [want : Specs, fresh : BOOLEAN], wfl' \in {"absent", "stored", "cached"},
         UNCHANGED <<want, runs, runCache, edits, turns>>
  PROVE  ApplicationTypeOK' /\ WorkerSound'
  <1>1. target \in Specs
    BY DEF WorkerSound
  <1>2. aqueue' \in BOOLEAN
    <2>1. aqueue \in BOOLEAN
      BY DEF ApplicationTypeOK
    <2>2. aqueue' = aqueue \/ \E err \in BOOLEAN : aqueue' = (aqueue \/ err)
      BY DEF Continues, Go, Done
    <2>. QED
      BY <2>1, <2>2
  <1>3. CASE \E pc \in Unbound : Go(pc)
    <2>1. apc' \in Unbound /\ target' = target /\ wflr' = wflr
      BY <1>3 DEF Go
    <2>. QED
      BY <1>1, <1>2, <2>1 DEF ApplicationTypeOK, WorkerSound, Unbound, BeforeRun
  <1>4. CASE \E pc \in BeforeRun : apc \in BeforeRun /\ Go(pc)
    <2>1. apc \in BeforeRun /\ apc' \in BeforeRun /\ target' = target /\ wflr' = wflr
      BY <1>4 DEF Go
    <2>. QED
      BY <1>1, <1>2, <2>1 DEF ApplicationTypeOK, WorkerSound, BeforeRun
  <1>5. CASE \E err \in BOOLEAN : Done(err)
    <2>1. apc' = "idle" /\ target' = 0 /\ wflr' = 0
      BY <1>5 DEF Done
    <2>. QED
      BY <1>2, <2>1, MaxRunsAssumption DEF ApplicationTypeOK, WorkerSound, BeforeRun
  <1>. QED
    BY <1>3, <1>4, <1>5 DEF Continues

\* What is remembered is a label.
LEMMA FormerType ==
  ASSUME TypeOK, Remember
  PROVE  former' \in 0 .. MaxRuns
  BY DEF TypeOK, ObjectTypeOK, Component, Remember

\* A step that leaves the component and the runs alone.
LEMMA StillStep ==
  ASSUME IndInv, Remember, UNCHANGED <<comp, cache, obj, runs, runCache, writes>>,
         ApplicationTypeOK', WorkerSound'
  PROVE  IndInv' /\ Moves
  <1>1. TypeOK'
    BY FormerType DEF IndInv, TypeOK, ObjectTypeOK
  <1>2. CopiesTrue'
    BY DEF IndInv, CopiesTrue, CopyOf
  <1>3. RunsNumbered'
    BY DEF IndInv, RunsNumbered, Created
  <1>4. Moves
    BY DEF IndInv, TypeOK, ObjectTypeOK, Component, Moves
  <1>. QED
    BY <1>1, <1>2, <1>3, <1>4 DEF IndInv

\* A step in which controller c takes its copy from the cache.
LEMMA ReadStep ==
  ASSUME IndInv, NEW c \in Controllers, cache.spec # 0, obj' = [obj EXCEPT ![c] = cache],
         Remember, UNCHANGED <<comp, cache, runs, runCache, writes>>, ApplicationTypeOK', WorkerSound'
  PROVE  IndInv' /\ Moves
  <1>0. /\ CopiesTrue /\ RunsNumbered /\ writes \in 0 .. MaxWrites
        /\ obj \in [Controllers -> Copy] /\ cache \in Copy /\ comp \in Component
    BY DEF IndInv, TypeOK, ObjectTypeOK
  <1>1. TypeOK'
    BY <1>0, FormerType DEF IndInv, TypeOK, ObjectTypeOK
  <1>2. \A d \in Controllers : obj'[d] \in {obj[d], cache}
    BY <1>0
  <1>3. CopiesTrue'
    <2>1. comp.spec # 0
      BY <1>0, CopyFields DEF CopiesTrue
    <2>2. CopyOf(comp)' = CopyOf(comp)
      BY DEF CopyOf
    <2>3. ASSUME NEW d \in Controllers, obj'[d].fresh PROVE obj'[d] = CopyOf(comp)
      BY <1>0, <1>2, <2>3 DEF CopiesTrue
    <2>. QED
      BY <1>0, <2>1, <2>2, <2>3 DEF CopiesTrue
  <1>4. RunsNumbered'
    BY <1>0 DEF RunsNumbered, Created
  <1>6. Moves
    BY <1>0 DEF Moves, Component
  <1>. QED
    BY <1>1, <1>3, <1>4, <1>6 DEF IndInv

\* A step in which a run is created or moves on.
LEMMA RunStep ==
  ASSUME IndInv, Remember, UNCHANGED <<comp, cache, obj, runCache, writes>>,
         RunsNumbered', ApplicationTypeOK', WorkerSound'
  PROVE  IndInv' /\ Moves
  <1>0. CopiesTrue /\ ObjectTypeOK /\ writes \in 0 .. MaxWrites
    BY DEF IndInv, TypeOK
  <1>1. TypeOK'
    BY <1>0, FormerType DEF IndInv, TypeOK, ObjectTypeOK
  <1>2. CopiesTrue'
    BY <1>0 DEF CopiesTrue, CopyOf
  <1>4. Moves
    BY <1>0 DEF ObjectTypeOK, Component, Moves
  <1>. QED
    BY <1>1, <1>2, <1>4 DEF IndInv

\* A step in which controller c writes the component.
LEMMA WriteStep ==
  ASSUME IndInv, NEW c \in Controllers, NEW new \in Component, Written(c, new),
         new.spec # 0, Remember,
         \/ new.label = comp.label /\ (comp.spec # 0 => Source(new.spec) = Source(comp.spec))
         \/ new.label \in Created /\ new.label > comp.label,
         UNCHANGED <<runs, runCache>>, writes' \in 0 .. MaxWrites,
         ApplicationTypeOK', WorkerSound'
  PROVE  IndInv' /\ Moves
  <1>0. ObjectTypeOK /\ CopiesTrue /\ RunsNumbered /\ comp \in Component
    BY DEF IndInv, TypeOK, ObjectTypeOK
  <1>1. /\ comp' = new /\ ObjectTypeOK'
    BY <1>0, WrittenFields
  <1>2. TypeOK'
    BY <1>1, FormerType DEF IndInv, TypeOK
  <1>3. CopiesTrue'
    BY <1>0, WrittenCopies
  <1>4. RunsNumbered'
    BY <1>0, <1>1 DEF RunsNumbered, Created
  <1>6. Moves
    BY <1>0, <1>1 DEF Moves, Component
  <1>. QED
    BY <1>2, <1>3, <1>4, <1>6 DEF IndInv

\* A step of the worker that sets a condition of the component.
LEMMA ConditionStep ==
  ASSUME IndInv, UNCHANGED writes, Remember, UNCHANGED Elsewhere, apc # "idle", Continues,
         NEW wf \in WfStates, NEW ready \in ReadyStates,
         ApplyStatus("application", wf, ready) \/ UNCHANGED objectVars
  PROVE  IndInv' /\ Moves
  <1>0. /\ ApplicationTypeOK /\ WorkerSound /\ CopiesTrue /\ comp \in Component
        /\ writes \in 0 .. MaxWrites /\ "application" \in Controllers
    BY DEF IndInv, TypeOK, ObjectTypeOK, Controllers
  <1>1. /\ appCache' \in [want : Specs, fresh : BOOLEAN] /\ wfl' \in {"absent", "stored", "cached"}
        /\ UNCHANGED <<want, runs, runCache, edits, turns>>
    BY <1>0 DEF ApplicationTypeOK, Elsewhere
  <1>2. ApplicationTypeOK' /\ WorkerSound'
    BY <1>0, <1>1, ContinuesSound
  <1>3. CASE UNCHANGED objectVars
    BY <1>1, <1>2, <1>3, StillStep DEF objectVars
  <1>4. CASE ApplyStatus("application", wf, ready)
    <2> DEFINE new == [comp EXCEPT !.wf = wf, !.ready = ready]
    <2>1. new \in Component /\ new.spec = comp.spec /\ new.label = comp.label
      BY <1>0 DEF Component
    <2>2. Written("application", new) /\ cache.spec # 0
      BY <1>4 DEF ApplyStatus
    <2>3. comp.spec # 0
      BY <1>0, <2>2, CopyFields DEF CopiesTrue
    <2>4. writes' \in 0 .. MaxWrites
      BY <1>0
    <2> HIDE DEF new
    <2>. QED
      BY <1>0, <1>1, <1>2, <2>1, <2>2, <2>3, <2>4, WriteStep
  <1>. QED
    BY <1>3, <1>4

\* A step of the worker that sets the status of the application.
LEMMA AppStatusStep ==
  ASSUME IndInv, UNCHANGED writes, Remember, apc # "idle", Continues,
         appCache' \in {appCache, [appCache EXCEPT !.fresh = FALSE]},
         UNCHANGED <<objectVars, want, wfl, runs, runCache, edits, turns>>
  PROVE  IndInv' /\ Moves
  <1>0. ApplicationTypeOK /\ WorkerSound
    BY DEF IndInv, TypeOK
  <1>1. appCache' \in [want : Specs, fresh : BOOLEAN] /\ wfl' \in {"absent", "stored", "cached"}
    BY <1>0 DEF ApplicationTypeOK
  <1>2. ApplicationTypeOK' /\ WorkerSound'
    BY <1>0, <1>1, ContinuesSound
  <1>. QED
    BY <1>2, StillStep DEF objectVars

(***************************************************************************)
(* The steps of ReconcileComponent.                                        *)
(***************************************************************************)
\* The steps that set the status of the application.
LEMMA StatusInd ==
  ASSUME IndInv, UNCHANGED writes, Remember,
         \/ SetRenderingComponent \/ SetRenderingComponentFailed
         \/ SetRerendering \/ SetRerenderingFailed \/ SetStatus
  PROVE  IndInv' /\ Moves
  <1>1. ASSUME NEW from \in {"creating", "createFailed", "updating", "updateFailed", "status"},
               apc = from,
               \/ appCache' \in {appCache, [appCache EXCEPT !.fresh = FALSE]} /\ Continues
               \/ Done(TRUE) /\ UNCHANGED appCache,
               UNCHANGED <<objectVars, want, wfl, runs, runCache, edits, turns>>
        PROVE  IndInv' /\ Moves
    <2>1. Continues
      BY <1>1 DEF Continues
    <2>2. apc # "idle" /\ appCache' \in {appCache, [appCache EXCEPT !.fresh = FALSE]}
      BY <1>1
    <2>. QED
      BY <1>1, <2>1, <2>2, AppStatusStep
  <1>2. CASE SetRenderingComponent
    <2>1. apc = "creating" /\ (Go("create") => Continues)
      BY <1>2 DEF SetRenderingComponent, AppStatus, Continues, BeforeRun
    <2>. QED
      BY <1>1, <1>2, <2>1 DEF SetRenderingComponent, AppStatus
  <1>3. CASE SetRerendering
    <2>1. Go("retrigger") => Continues
      BY DEF Continues, Unbound
    <2>. QED
      BY <1>1, <1>3, <2>1 DEF SetRerendering, AppStatus
  <1>4. Done(TRUE) \/ Done(FALSE) => Continues
    BY DEF Continues
  <1>5. CASE SetRenderingComponentFailed \/ SetRerenderingFailed \/ SetStatus
    BY <1>1, <1>4, <1>5 DEF SetRenderingComponentFailed, SetRerenderingFailed, SetStatus, AppStatus
  <1>. QED
    BY <1>2, <1>3, <1>5

\* setConditionWorkflow, where the condition is one that the runs back.
LEMMA WorkflowStep ==
  ASSUME IndInv, UNCHANGED writes, Remember, apc # "idle", Continues,
         NEW wf \in WfStates,
         ApplyStatus("application", wf, obj["application"].ready) \/ UNCHANGED objectVars,
         UNCHANGED Elsewhere
  PROVE  IndInv' /\ Moves
  <1>1. obj["application"].ready \in ReadyStates
    BY DEF IndInv, TypeOK, ObjectTypeOK, Controllers, Copy
  <1>. QED
    BY <1>1, ConditionStep

\* The steps that set a condition of the component.
LEMMA ConditionInd ==
  ASSUME IndInv, UNCHANGED writes, Remember,
         \/ SetTriggered \/ SetNotTriggered \/ SetRetriggered \/ SetNotRetriggered
         \/ ReportRun \/ SetPending
  PROVE  IndInv' /\ Moves
  <1>0. WorkerSound /\ obj["application"] \in Copy /\ "application" \in Controllers
    BY DEF IndInv, TypeOK, ObjectTypeOK, Controllers
  <1>1. /\ \A pc \in Unbound : Go(pc) => Continues
        /\ apc \in BeforeRun /\ Go("run") => Continues
        /\ Done(TRUE) => Continues
    BY DEF Continues, BeforeRun
  <1>2. CASE SetTriggered \/ SetRetriggered
    <2>1. Continues
      BY <1>1, <1>2 DEF SetTriggered, SetRetriggered, setConditionWorkflow, setCondition,
                        Unbound, BeforeRun
    <2>2. apc # "idle"
      BY <1>2 DEF SetTriggered, SetRetriggered, setConditionWorkflow, setCondition
    <2>3. /\ ApplyStatus("application", "triggered", obj["application"].ready) \/ UNCHANGED objectVars
          /\ UNCHANGED Elsewhere
      BY <1>2 DEF SetTriggered, SetRetriggered, setConditionWorkflow, setCondition
    <2>4. "triggered" \in WfStates
      BY DEF WfStates
    <2>. QED
      BY <2>1, <2>2, <2>3, <2>4, WorkflowStep
  <1>3. CASE SetNotTriggered \/ SetNotRetriggered
    <2>1. Continues
      BY <1>1, <1>3 DEF SetNotTriggered, SetNotRetriggered, setConditionWorkflow, setCondition, Unbound
    <2>2. apc # "idle"
      BY <1>3 DEF SetNotTriggered, SetNotRetriggered, setConditionWorkflow, setCondition
    <2>3. /\ ApplyStatus("application", "notTriggered", obj["application"].ready) \/ UNCHANGED objectVars
          /\ UNCHANGED Elsewhere
      BY <1>3 DEF SetNotTriggered, SetNotRetriggered, setConditionWorkflow, setCondition
    <2>4. "notTriggered" \in WfStates
      BY DEF WfStates
    <2>. QED
      BY <2>1, <2>2, <2>3, <2>4, WorkflowStep
  <1>4. CASE ReportRun
    <2>1. Continues
      BY <1>1, <1>4 DEF ReportRun, setConditionWorkflow, setCondition, Unbound
    <2>2. apc # "idle"
      BY <1>4 DEF ReportRun, setConditionWorkflow, setCondition
    <2>3. PICK wf \in {"running", "failed", "succeed"} :
             /\ ApplyStatus("application", wf, obj["application"].ready) \/ UNCHANGED objectVars
             /\ UNCHANGED Elsewhere
      BY <1>4 DEF ReportRun, setConditionWorkflow, setCondition
    <2>4. wf \in WfStates
      BY DEF WfStates
    <2>. QED
      BY <2>1, <2>2, <2>3, <2>4, WorkflowStep
  <1>5. CASE SetPending
    <2>1. Continues
      BY <1>1, <1>5 DEF SetPending, setCondition, Unbound
    <2>2. apc # "idle"
      BY <1>5 DEF SetPending, setCondition
    <2>3. /\ ApplyStatus("application", obj["application"].wf, "pending") \/ UNCHANGED objectVars
          /\ UNCHANGED Elsewhere
      BY <1>5 DEF SetPending, setCondition
    <2>4. obj["application"].wf \in WfStates /\ "pending" \in ReadyStates
      BY <1>0 DEF Copy, ReadyStates
    <2>. QED
      BY <2>1, <2>2, <2>3, <2>4, ConditionStep
  <1>. QED
    BY <1>2, <1>3, <1>4, <1>5

\* Reconcile takes its copy of the component from the cache.
LEMMA ReconcileInd ==
  ASSUME IndInv, UNCHANGED writes, Remember, ReconcileApplication
  PROVE  IndInv' /\ Moves
  <1>0. /\ ApplicationTypeOK /\ obj \in [Controllers -> Copy] /\ "application" \in Controllers
    BY DEF IndInv, TypeOK, ObjectTypeOK, Controllers
  <1>1. /\ aqueue' = FALSE /\ target' = appCache.want /\ wflr' = 0
        /\ UNCHANGED <<comp, cache, want, appCache, wfl, runs, runCache, edits, turns>>
    BY DEF ReconcileApplication, objectVars, Elsewhere
  <1>2. /\ apc' \in {"creating", "lookup", "updating", "update"}
        /\ apc' = "update" => Source(cache.spec) = Source(appCache.want)
                              /\ obj' = [obj EXCEPT !["application"] = cache]
        /\ \/ UNCHANGED obj
           \/ cache.spec # 0 /\ obj' = [obj EXCEPT !["application"] = cache]
    BY DEF ReconcileApplication, objectVars, Elsewhere
  <1>3. target' \in Specs
    BY <1>0, <1>1 DEF ApplicationTypeOK
  <1>4. ApplicationTypeOK'
    <2>1. aqueue' \in BOOLEAN
      BY <1>1
    <2>. QED
      BY <1>0, <1>1, <1>2, <1>3, <2>1, MaxRunsAssumption DEF ApplicationTypeOK
  <1>5. WorkerSound'
    <2>1. apc' = "update" => Source(obj'["application"].spec) = Source(target')
      BY <1>0, <1>1, <1>2
    <2>. QED
      BY <1>1, <1>2, <1>3, <2>1 DEF WorkerSound, BeforeRun
  <1>6. CASE UNCHANGED obj
    BY <1>1, <1>4, <1>5, <1>6, StillStep
  <1>7. CASE cache.spec # 0 /\ obj' = [obj EXCEPT !["application"] = cache]
    BY <1>0, <1>1, <1>4, <1>5, <1>7, ReadStep
  <1>. QED
    BY <1>2, <1>6, <1>7

\* createComponent creates the component without a label or a condition.
LEMMA CreateInd ==
  ASSUME IndInv, UNCHANGED writes, Remember, CreateComponent
  PROVE  IndInv' /\ Moves
  <1>0. /\ ApplicationTypeOK /\ WorkerSound /\ CopiesTrue /\ comp \in Component
        /\ "application" \in Controllers /\ writes \in 0 .. MaxWrites /\ apc = "create"
    BY DEF IndInv, TypeOK, ObjectTypeOK, Controllers, CreateComponent
  <1>1. /\ appCache' \in [want : Specs, fresh : BOOLEAN] /\ wfl' \in {"absent", "stored", "cached"}
        /\ UNCHANGED <<want, runs, runCache, edits, turns>>
    BY <1>0 DEF ApplicationTypeOK, CreateComponent, Elsewhere
  <1>2. Continues
    BY <1>0 DEF CreateComponent, Continues, BeforeRun, Unbound
  <1>3. ApplicationTypeOK' /\ WorkerSound'
    BY <1>0, <1>1, <1>2, ContinuesSound
  <1>4. CASE UNCHANGED objectVars
    BY <1>1, <1>3, <1>4, StillStep DEF objectVars
  <1>5. CASE comp.spec = 0 /\ Written("application", [Absent EXCEPT !.spec = target])
    <2> DEFINE new == [Absent EXCEPT !.spec = target]
    <2>1. target \in Specs /\ target # 0
      BY <1>0 DEF WorkerSound, Specs
    <2>2. new \in Component /\ new.spec = target /\ new.label = 0
      BY <2>1, AbsentFields DEF Component
    <2>3. comp.label = 0
      BY <1>0, <1>5, AbsentFields DEF CopiesTrue
    <2>5. Written("application", new) /\ writes' \in 0 .. MaxWrites
      BY <1>0, <1>5
    <2> HIDE DEF new
    <2>. QED
      BY <1>0, <1>1, <1>3, <1>5, <2>1, <2>2, <2>3, <2>5, WriteStep
  <1>. QED
    BY <1>4, <1>5 DEF CreateComponent

\* setComponentWorkflow.
LEMMA ComponentWorkflowInd ==
  ASSUME IndInv, UNCHANGED writes, Remember, SetComponentWorkflow
  PROVE  IndInv' /\ Moves
  <1>0. ApplicationTypeOK /\ WorkerSound /\ apc = "workflow"
    BY DEF IndInv, TypeOK, SetComponentWorkflow
  <1>1. /\ appCache' \in [want : Specs, fresh : BOOLEAN] /\ wfl' \in {"absent", "stored", "cached"}
        /\ UNCHANGED <<comp, cache, obj, want, runs, runCache, edits, turns>>
    BY <1>0 DEF ApplicationTypeOK, SetComponentWorkflow, objectVars
  <1>2. Continues
    BY <1>0 DEF SetComponentWorkflow, Continues, BeforeRun, Unbound
  <1>3. ApplicationTypeOK' /\ WorkerSound'
    BY <1>0, <1>1, <1>2, ContinuesSound
  <1>. QED
    BY <1>1, <1>3, StillStep

\* A run that is created takes the next number, which is newer than the label.
LEMMA CreateRunInd ==
  ASSUME IndInv, UNCHANGED writes, Remember, NEW pc \in {"label", "update"}, CreateRun(pc), apc # "idle",
         UNCHANGED <<objectVars, want, appCache, wfl, runCache, edits, turns>>
  PROVE  IndInv' /\ Moves
  <1>0. /\ ApplicationTypeOK /\ WorkerSound /\ RunsNumbered /\ comp \in Component
        /\ runs \in [1 .. MaxRuns -> RunStates] /\ MaxRuns \in Nat
    BY MaxRunsAssumption DEF IndInv, TypeOK, ObjectTypeOK, ApplicationTypeOK
  <1> DEFINE n == Cardinality(Created)
  <1>1. n \in Nat /\ Created = 1 .. n /\ NextRun = n + 1 /\ NextRun \notin Created
    BY <1>0, RunNumbers
  <1>2. /\ NextRun <= MaxRuns /\ runs' = [runs EXCEPT ![NextRun] = "none"]
        /\ wflr' = NextRun /\ apc' = pc /\ target' = target /\ aqueue' = aqueue
        /\ UNCHANGED <<comp, cache, obj>>
    BY DEF CreateRun, objectVars
  <1> HIDE DEF n
  <1>3. n + 1 \in 1 .. MaxRuns
    BY <1>0, <1>1, <1>2
  <1>4. runs[n + 1] = "absent"
    BY <1>1, <1>3 DEF Created
  <1>5. runs' \in [1 .. MaxRuns -> RunStates]
    BY <1>0, <1>1, <1>2 DEF RunStates
  <1>6. Created' = 1 .. (n + 1)
    <2>1. \A r \in 1 .. MaxRuns : runs'[r] # "absent" <=> (r \in Created \/ r = n + 1)
      BY <1>0, <1>1, <1>2, <1>3 DEF Created
    <2>2. Created' = {r \in 1 .. MaxRuns : runs'[r] # "absent"}
      BY DEF Created
    <2>. QED
      BY <1>0, <1>1, <1>3, <2>1, <2>2
  <1>7. RunsNumbered'
    BY <1>0, <1>1, <1>2, <1>3, <1>6 DEF RunsNumbered
  <1>9. ApplicationTypeOK'
    BY <1>0, <1>1, <1>2, <1>3, <1>5 DEF ApplicationTypeOK
  <1>10. WorkerSound'
    <2>1. target' \in Specs /\ wflr' = n + 1 /\ apc' \in {"label", "update"}
      BY <1>0, <1>1, <1>2 DEF WorkerSound
    <2>2. wflr' \in Created' /\ wflr' > comp'.label /\ wflr' # 0
      BY <1>0, <1>1, <1>2, <1>6, <2>1 DEF RunsNumbered
    <2>. QED
      BY <2>1, <2>2 DEF WorkerSound, BeforeRun
  <1>. QED
    BY <1>2, <1>7, <1>9, <1>10, RunStep

\* runComponentWorkflow, of a new and of an updated component.
LEMMA RunInd ==
  ASSUME IndInv, UNCHANGED writes, Remember, RunComponentWorkflow \/ RerunComponentWorkflow
  PROVE  IndInv' /\ Moves
  <1>0. /\ ApplicationTypeOK /\ WorkerSound /\ apc \in {"run", "rerun"}
        /\ UNCHANGED <<objectVars, want, appCache, wfl, runCache, edits, turns>>
    BY DEF IndInv, TypeOK, RunComponentWorkflow, RerunComponentWorkflow
  <1>1. CASE CreateRun("label") \/ CreateRun("update")
    BY <1>0, <1>1, CreateRunInd
  <1>2. CASE apc = "run" /\ Go("label") /\ UNCHANGED runs
    <2>1. /\ apc' = "label" /\ target' = target /\ wflr' = wflr /\ aqueue' = aqueue
          /\ UNCHANGED <<comp, cache, obj>>
      BY <1>0, <1>2 DEF Go, objectVars
    <2>2. ApplicationTypeOK'
      BY <1>0, <1>2, <2>1 DEF ApplicationTypeOK
    <2>3. WorkerSound'
      BY <1>0, <1>2, <2>1 DEF WorkerSound, BeforeRun
    <2>. QED
      BY <1>0, <1>2, <2>1, <2>2, <2>3, StillStep
  <1>3. CASE (Go("notTriggered") \/ Go("notRetriggered")) /\ UNCHANGED runs
    <2>1. Continues
      BY <1>3 DEF Continues, Unbound
    <2>2. /\ appCache' \in [want : Specs, fresh : BOOLEAN] /\ wfl' \in {"absent", "stored", "cached"}
          /\ apc # "idle"
      BY <1>0 DEF ApplicationTypeOK
    <2>3. ApplicationTypeOK' /\ WorkerSound'
      BY <1>0, <1>3, <2>1, <2>2, ContinuesSound
    <2>. QED
      BY <1>0, <1>3, <2>3, StillStep DEF objectVars
  <1>. QED
    BY <1>1, <1>2, <1>3 DEF RunComponentWorkflow, RerunComponentWorkflow

\* The two updates of the component: the copy is up to date, so the label that is
\* kept is the stored one, and a label that is not kept is that of a newer run.
LEMMA UpdateInd ==
  ASSUME IndInv, UNCHANGED writes, Remember, LabelComponent \/ UpdateComponent
  PROVE  IndInv' /\ Moves
  <1> DEFINE o == obj["application"]
             label == IF wflr = 0 THEN o.label ELSE wflr
  <1>0. /\ ApplicationTypeOK /\ WorkerSound /\ CopiesTrue /\ comp \in Component
        /\ "application" \in Controllers /\ o \in Copy /\ writes \in 0 .. MaxWrites
        /\ writes' = writes
    BY DEF IndInv, TypeOK, ObjectTypeOK, Controllers
  <1>1. /\ apc \in {"label", "update"} /\ UNCHANGED <<want, appCache, wfl, runs, runCache, edits, turns>>
    BY DEF LabelComponent, UpdateComponent, Elsewhere
  <1>2. Continues
    BY DEF LabelComponent, UpdateComponent, Continues, Unbound
  <1>3. ApplicationTypeOK' /\ WorkerSound'
    <2>1. /\ appCache' \in [want : Specs, fresh : BOOLEAN] /\ wfl' \in {"absent", "stored", "cached"}
          /\ apc # "idle"
      BY <1>0, <1>1 DEF ApplicationTypeOK
    <2>. QED
      BY <1>0, <1>1, <1>2, <2>1, ContinuesSound
  <1>4. CASE UNCHANGED objectVars
    BY <1>1, <1>3, <1>4, StillStep DEF objectVars
  <1>5. ASSUME NEW spec \in Specs, Update("application", spec, label),
               wflr # 0 \/ Source(spec) = Source(o.spec)
        PROVE  IndInv' /\ Moves
    <2> DEFINE new == [comp EXCEPT !.spec = spec, !.label = label]
    <2>1. o = CopyOf(comp)
      BY <1>0, <1>5 DEF Update, CopiesTrue
    <2>2. o.label = comp.label /\ o.spec = comp.spec
      BY <1>0, <2>1, CopyFields
    <2>3. label \in 0 .. MaxRuns
      BY <1>0 DEF ApplicationTypeOK, Copy
    <2>4. \/ label = comp.label /\ Source(spec) = Source(comp.spec)
          \/ label \in Created /\ label > comp.label
      BY <1>0, <1>1, <1>5, <2>2 DEF WorkerSound
    <2>5. Written("application", new)
      BY <1>5 DEF Update
    <2> HIDE DEF label
    <2>6. new \in Component /\ new.spec = spec /\ new.label = label
      BY <1>0, <2>3 DEF Component
    <2>7. spec # 0
      BY DEF Specs
    <2> HIDE DEF new
    <2>. QED
      BY <1>0, <1>1, <1>3, <2>4, <2>5, <2>6, <2>7, WriteStep
  <1>6. CASE apc = "label" /\ Update("application", o.spec, label)
    <2>1. o = CopyOf(comp) /\ comp.spec # 0
      BY <1>0, <1>6 DEF Update, CopiesTrue
    <2>2. o.spec \in Specs
      BY <1>0, <2>1, CopyFields DEF Copy
    <2>. QED
      BY <1>5, <1>6, <2>2
  <1>7. CASE apc = "update" /\ Update("application", target, label)
    <2>1. target \in Specs /\ (wflr # 0 \/ Source(target) = Source(o.spec))
      BY <1>0, <1>7 DEF WorkerSound
    <2>. QED
      BY <1>5, <1>7, <2>1
  <1>. QED
    BY <1>4, <1>6, <1>7 DEF LabelComponent, UpdateComponent

\* The run that the label names is looked up in the cache.
LEMMA LookupInd ==
  ASSUME IndInv, UNCHANGED writes, Remember, LookupRun
  PROVE  IndInv' /\ Moves
  <1> DEFINE label == obj["application"].label
  <1>0. /\ ApplicationTypeOK /\ WorkerSound /\ label \in 0 .. MaxRuns /\ MaxRuns \in Nat
    BY MaxRunsAssumption DEF IndInv, TypeOK, ObjectTypeOK, Controllers, Copy
  <1>1. /\ apc = "lookup" /\ target' = target /\ aqueue' = aqueue
        /\ UNCHANGED <<comp, cache, obj, want, appCache, wfl, runs, runCache, edits, turns>>
    BY DEF LookupRun, Lookup, objectVars, Elsewhere
  <1>2. apc' \in {"status", "running", "succeeded", "failed"} /\ wflr' \in {0, label}
    BY DEF LookupRun, Lookup
  <1>3. ApplicationTypeOK'
    BY <1>0, <1>1, <1>2 DEF ApplicationTypeOK
  <1>4. WorkerSound'
    BY <1>0, <1>1, <1>2 DEF WorkerSound, BeforeRun
  <1>. QED
    BY <1>1, <1>3, <1>4, StillStep

\* All of ReconcileComponent.
LEMMA ApplicationReconcileInd ==
  ASSUME IndInv, UNCHANGED writes, Remember, ApplicationReconcile
  PROVE  IndInv' /\ Moves
  BY StatusInd, ConditionInd, ReconcileInd, CreateInd, ComponentWorkflowInd, RunInd, UpdateInd,
     LookupInd DEF ApplicationReconcile

(***************************************************************************)
(* The steps of the others.                                                *)
(***************************************************************************)
\* The worker stays where it is, and so do the runs and what it relies on.
LEMMA WorkerStays ==
  ASSUME WorkerSound, UNCHANGED <<apc, target, wflr, runs>>,
         comp'.label = comp.label, obj'["application"].spec = obj["application"].spec
  PROVE  WorkerSound'
  <1>1. Created' = Created
    BY DEF Created
  <1>. QED
    BY <1>1 DEF WorkerSound

\* The watches, the user and the WorkflowRun controller.
LEMMA EnvironmentInd ==
  ASSUME IndInv, UNCHANGED writes, Remember, ApplicationEnvironment
  PROVE  IndInv' /\ Moves
  <1>0. /\ ObjectTypeOK /\ ApplicationTypeOK /\ CopiesTrue /\ RunsNumbered
        /\ WorkerSound /\ writes \in 0 .. MaxWrites /\ comp \in Component
        /\ runs \in [1 .. MaxRuns -> RunStates] /\ runCache \in [1 .. MaxRuns -> RunStates]
    BY DEF IndInv, TypeOK, ObjectTypeOK, ApplicationTypeOK
  <1>1. CASE SyncApplication \/ SyncWorkflow \/ EditApplication
    <2>1. UNCHANGED <<comp, cache, obj, runs, runCache, apc, target, wflr, turns>>
      BY <1>1 DEF SyncApplication, SyncWorkflow, EditApplication, objectVars
    <2>2. want' \in Specs
      BY <1>0, <1>1, MaxSpecAssumption DEF SyncApplication, SyncWorkflow, EditApplication,
                                           ApplicationTypeOK, Specs
    <2>3. appCache' \in [want : Specs, fresh : BOOLEAN]
      <3>1. \/ appCache' = [want |-> want, fresh |-> TRUE]
            \/ appCache' = appCache
            \/ appCache' = [appCache EXCEPT !.fresh = FALSE]
        BY <1>1 DEF SyncApplication, SyncWorkflow, EditApplication, LatestApp
      <3>2. want \in Specs /\ appCache \in [want : Specs, fresh : BOOLEAN]
        BY <1>0 DEF ApplicationTypeOK
      <3>3. CASE appCache' = [want |-> want, fresh |-> TRUE]
        BY <3>2, <3>3
      <3>4. CASE appCache' = appCache
        BY <3>2, <3>4
      <3>5. CASE appCache' = [appCache EXCEPT !.fresh = FALSE]
        BY <3>2, <3>5
      <3>. QED
        BY <3>1, <3>3, <3>4, <3>5
    <2>4. wfl' \in {"absent", "stored", "cached"}
      BY <1>0, <1>1 DEF SyncApplication, SyncWorkflow, EditApplication, ApplicationTypeOK
    <2>5. aqueue' \in BOOLEAN
      <3>1. aqueue' = aqueue \/ aqueue' = TRUE
        BY <1>1 DEF SyncApplication, SyncWorkflow, EditApplication
      <3>. QED
        BY <1>0, <3>1 DEF ApplicationTypeOK
    <2>6. ApplicationTypeOK'
      <3>1. edits' \in 0 .. MaxEdits
        BY <1>0, <1>1, BoundsAssumption DEF SyncApplication, SyncWorkflow, EditApplication,
                                            ApplicationTypeOK
      <3>. QED
        BY <1>0, <2>1, <2>2, <2>3, <2>4, <2>5, <3>1 DEF ApplicationTypeOK
    <2>7. WorkerSound'
      BY <1>0, <2>1, WorkerStays
    <2>. QED
      BY <2>1, <2>6, <2>7, StillStep
  <1>2. ASSUME NEW r \in 1 .. MaxRuns, SyncRun(r) PROVE IndInv' /\ Moves
    <2>1. /\ runCache' = [runCache EXCEPT ![r] = runs[r]] /\ aqueue' = TRUE
          /\ UNCHANGED <<comp, cache, obj, want, appCache, wfl, runs, apc, target, wflr, edits, turns>>
      BY <1>2 DEF SyncRun, objectVars
    <2>2. aqueue' \in BOOLEAN
      BY <2>1
    <2>3. ApplicationTypeOK'
      BY <1>0, <2>1, <2>2 DEF ApplicationTypeOK
    <2>4. WorkerSound'
      BY <1>0, <2>1, WorkerStays
    <2>5. CopiesTrue' /\ RunsNumbered'
      BY <1>0, <2>1 DEF CopiesTrue, CopyOf, RunsNumbered, Created
    <2>7. TypeOK'
      BY <1>0, <2>1, <2>3, FormerType DEF IndInv, TypeOK, ObjectTypeOK
    <2>8. Moves
      BY <1>0, <2>1 DEF Moves, Component
    <2>. QED
      BY <2>4, <2>5, <2>7, <2>8 DEF IndInv
  <1>3. ASSUME NEW r \in 1 .. MaxRuns, RunMoves(r) \/ RunTurns(r) PROVE IndInv' /\ Moves
    <2>1. UNCHANGED <<comp, cache, obj, want, appCache, wfl, runCache, apc, target, wflr, aqueue, edits>>
      BY <1>3 DEF RunMoves, RunTurns, objectVars
    <2>2. PICK s \in {"running", "succeeded", "failed"} :
            /\ runs[r] # "absent" /\ runs' = [runs EXCEPT ![r] = s]
      BY <1>3 DEF RunMoves, RunTurns
    <2>3. runs' \in [1 .. MaxRuns -> RunStates]
      BY <1>0, <2>2 DEF RunStates
    <2>4. turns' \in 0 .. MaxTurns
      BY <1>0, <1>3, BoundsAssumption DEF RunMoves, RunTurns, ApplicationTypeOK
    <2>5. Created' = Created
      BY <1>0, <2>2 DEF Created
    <2>6. RunsNumbered'
      BY <1>0, <2>1, <2>5 DEF RunsNumbered
    <2>7. ApplicationTypeOK'
      BY <1>0, <2>1, <2>3, <2>4 DEF ApplicationTypeOK
    <2>8. WorkerSound'
      BY <1>0, <2>1, <2>5 DEF WorkerSound
    <2>. QED
      BY <2>1, <2>6, <2>7, <2>8, RunStep
  <1>. QED
    BY <1>1, <1>2, <1>3 DEF ApplicationEnvironment

\* The watch brings the component into the cache.
LEMMA SyncInd ==
  ASSUME IndInv, UNCHANGED writes, Remember, SyncOwnedComponent
  PROVE  IndInv' /\ Moves
  <1>0. /\ ObjectTypeOK /\ ApplicationTypeOK /\ CopiesTrue /\ RunsNumbered
        /\ WorkerSound /\ writes \in 0 .. MaxWrites /\ comp \in Component
    BY DEF IndInv, TypeOK, ObjectTypeOK
  <1>1. /\ cache' = CopyOf(comp) /\ aqueue' = TRUE
        /\ UNCHANGED <<comp, obj, want, appCache, wfl, runs, runCache, apc, target, wflr, edits, turns>>
    BY DEF SyncOwnedComponent, SyncCache
  <1>2. aqueue' \in BOOLEAN
    BY <1>1
  <1>3. CopyOf(comp) \in Copy
    BY <1>0, CopyFields
  <1>4. TypeOK'
    BY <1>0, <1>1, <1>2, <1>3, FormerType DEF IndInv, TypeOK, ObjectTypeOK, ApplicationTypeOK
  <1>5. WorkerSound'
    BY <1>0, <1>1, WorkerStays
  <1>6. CopiesTrue'
    <2>1. CopyOf(comp)' = CopyOf(comp)
      BY <1>1 DEF CopyOf
    <2>. QED
      BY <1>0, <1>1, <2>1 DEF CopiesTrue
  <1>7. RunsNumbered'
    BY <1>0, <1>1 DEF RunsNumbered, Created
  <1>9. Moves
    BY <1>0, <1>1 DEF Moves, Component
  <1>. QED
    BY <1>4, <1>5, <1>6, <1>7, <1>9 DEF IndInv

\* The other writer leaves the specification and the label alone.
LEMMA OtherInd ==
  ASSUME IndInv, OtherReads \/ OtherWrites
  PROVE  IndInv' /\ Moves
  <1>0. /\ ObjectTypeOK /\ ApplicationTypeOK /\ CopiesTrue /\ WorkerSound
        /\ writes \in 0 .. MaxWrites /\ comp \in Component /\ obj \in [Controllers -> Copy]
        /\ "component" \in Controllers /\ "application" \in Controllers
    BY DEF IndInv, TypeOK, ObjectTypeOK, Controllers
  <1>1. UNCHANGED <<want, appCache, wfl, runs, runCache, apc, target, wflr, aqueue, edits, turns>>
    BY DEF OtherReads, OtherWrites, applicationVars
  <1>2. ApplicationTypeOK' /\ former' = former
    BY <1>0, <1>1 DEF ApplicationTypeOK, OtherReads, OtherWrites
  <1>3. CASE OtherReads
    <2>1. /\ cache.spec # 0 /\ obj' = [obj EXCEPT !["component"] = cache]
          /\ UNCHANGED <<comp, cache, writes>>
      BY <1>3 DEF OtherReads
    <2>2. obj'["application"] = obj["application"]
      BY <1>0, <2>1
    <2>3. WorkerSound'
      BY <1>0, <1>1, <2>1, <2>2, WorkerStays
    <2>. QED
      BY <1>0, <1>1, <1>2, <2>1, <2>3, ReadStep DEF Remember
  <1>4. ASSUME OtherWrites, NEW new \in Component, Written("component", new),
               new.spec = comp.spec, new.label = comp.label, comp.spec # 0
        PROVE  IndInv' /\ Moves
    <2>1. comp' = new /\ obj'["application"].spec = obj["application"].spec
      <3>1. "application" \in Controllers \ {"component"}
        BY <1>0
      <3>. QED
        BY <1>0, <1>4, <3>1, WrittenFields
    <2>2. WorkerSound'
      BY <1>0, <1>1, <1>4, <2>1, WorkerStays
    <2>3. writes' \in 0 .. MaxWrites
      BY <1>0, <1>4, MaxWritesAssumption DEF OtherWrites
    <2>4. Remember
      BY <1>2, <1>4, <2>1 DEF Remember
    <2>. QED
      BY <1>0, <1>1, <1>2, <1>4, <2>2, <2>3, <2>4, WriteStep
  <1>5. CASE OtherWrites
    <2> DEFINE o == obj["component"]
    <2>1. o \in Copy /\ o.spec # 0 /\ o.spec \in Specs /\ o.wf \in WfStates /\ comp.spec # 0
      BY <1>0, <1>5 DEF OtherWrites, Copy, CopiesTrue
    <2>2. CASE ApplyStatus("component", o.wf, "rendering")
      <3> DEFINE new == [comp EXCEPT !.wf = o.wf, !.ready = "rendering"]
      <3>1. /\ new \in Component /\ new.spec = comp.spec /\ new.label = comp.label
            /\ new.wf = o.wf
        BY <1>0, <2>1 DEF Component, ReadyStates
      <3>2. Written("component", new)
        BY <2>2 DEF ApplyStatus
      <3> HIDE DEF new
      <3>. QED
        BY <1>4, <1>5, <2>1, <3>1, <3>2
    <2>3. CASE Patch("component", o.spec)
      <3> DEFINE new == [comp EXCEPT !.ann = o.spec]
      <3>1. /\ new \in Component /\ new.spec = comp.spec /\ new.label = comp.label
            /\ new.wf = comp.wf
        BY <1>0, <2>1 DEF Component
      <3>2. Written("component", new)
        BY <2>3 DEF Patch
      <3> HIDE DEF new
      <3>. QED
        BY <1>4, <1>5, <2>1, <3>1, <3>2
    <2>. QED
      BY <1>5, <2>2, <2>3 DEF OtherWrites
  <1>. QED
    BY <1>3, <1>5

\* Every step keeps the invariant, and moves the component as it may.
LEMMA NextInd == IndInv /\ [Next]_vars => IndInv' /\ Moves
  <1> SUFFICES ASSUME IndInv, [Next]_vars PROVE IndInv' /\ Moves
    OBVIOUS
  <1>1. CASE Next
    BY <1>1, ApplicationReconcileInd, EnvironmentInd, SyncInd, OtherInd DEF Next, Own
  <1>2. CASE UNCHANGED vars
    <2>1. UNCHANGED <<comp, cache, obj, want, appCache, wfl, runs, runCache, apc, target, wflr,
                      aqueue, edits, turns, writes, former>>
      BY <1>2 DEF vars, objectVars, applicationVars
    <2>2. ApplicationTypeOK'
      BY <2>1 DEF IndInv, TypeOK, ApplicationTypeOK
    <2>3. WorkerSound'
      BY <2>1, WorkerStays DEF IndInv
    <2>4. Remember
      BY <2>1 DEF Remember
    <2>. QED
      BY <2>1, <2>2, <2>3, <2>4, StillStep
  <1>. QED
    BY <1>1, <1>2

\* The invariant holds from the start of the manager on.
THEOREM Invariance == Spec => []IndInv
  BY InitInd, NextInd, PTL DEF Spec

(***************************************************************************)
(* Which run is reported.                                                  *)
(***************************************************************************)
\* Where the worker is going to write the component from the copy it holds,
Holding == {"workflow", "trigger", "run", "label", "updating", "retrigger", "rerun", "update"}

\* and where it is going to report a run.
Reporting == {"running", "succeeded", "failed"}

\* The cache is never more than one label behind: a label is written only with a
\* copy that is up to date, and the cache had what that copy says of the label.
Recent ==
    /\ cache.label \in {comp.label, former}
    /\ apc \in Holding => (obj["application"].fresh => cache.label = comp.label)
    /\ apc = "lookup" => obj["application"].label \in {comp.label, former}
    /\ apc \in Reporting => wflr \in {comp.label, former}

\* The worker stays where it is, or gets to a place where less is asked of it.
Relaxes ==
    \/ UNCHANGED <<apc, wflr>>
    \/ apc' \notin Reporting \cup {"lookup"} /\ (apc' \in Holding => apc \in Holding)

\* A step that writes no label, nor brings the worker's copy up to date.
LEMMA RecentKept ==
  ASSUME Recent, Remember, Relaxes, comp'.label = comp.label,
         cache'.label \in {cache.label, comp.label},
         obj'["application"].label = obj["application"].label,
         obj'["application"].fresh => obj["application"].fresh
  PROVE  Recent'
  <1>1. former' = former
    BY DEF Remember
  <1>2. cache'.label \in {comp'.label, former'}
    BY <1>1 DEF Recent
  <1>3. apc' \in Holding => (obj'["application"].fresh => cache'.label = comp'.label)
    BY DEF Recent, Relaxes
  <1>4. apc' = "lookup" => obj'["application"].label \in {comp'.label, former'}
    BY <1>1 DEF Recent, Relaxes
  <1>5. apc' \in Reporting => wflr' \in {comp'.label, former'}
    BY <1>1 DEF Recent, Relaxes
  <1>. QED
    BY <1>2, <1>3, <1>4, <1>5 DEF Recent

\* A step that leaves the component alone.
LEMMA RecentStill ==
  ASSUME Recent, Remember, Relaxes, UNCHANGED objectVars
  PROVE  Recent'
  BY RecentKept DEF objectVars

\* A condition is set only where the cache is up to date, and the answer brings
\* the stored label into the worker's copy.
LEMMA RecentApplied ==
  ASSUME IndInv, Remember, NEW wf \in WfStates, NEW ready \in ReadyStates,
         ApplyStatus("application", wf, ready), apc' \notin Reporting
  PROVE  Recent'
  <1>0. ObjectTypeOK /\ CopiesTrue /\ comp \in Component /\ "application" \in Controllers
    BY DEF IndInv, TypeOK, ObjectTypeOK, Controllers
  <1> DEFINE new == [comp EXCEPT !.wf = wf, !.ready = ready]
  <1>1. new \in Component /\ new.label = comp.label
    BY <1>0 DEF Component
  <1>2. Written("application", new) /\ cache.fresh
    BY DEF ApplyStatus
  <1>3. cache.label = comp.label
    BY <1>0, <1>2, CopyFields DEF CopiesTrue
  <1> HIDE DEF new
  <1>4. comp' = new /\ cache'.label = cache.label /\ obj'["application"] = CopyOf(new)
    BY <1>0, <1>1, <1>2, WrittenFields
  <1>5. obj'["application"].label = comp'.label /\ cache'.label = comp'.label
    BY <1>1, <1>3, <1>4, CopyFields
  <1>. QED
    BY <1>5 DEF Recent

\* The label is written with a copy that is up to date, and then the cache has
\* the label that is replaced.
LEMMA RecentUpdated ==
  ASSUME IndInv, Recent, Remember, NEW spec \in Specs, NEW label \in 0 .. MaxRuns,
         apc \in Holding, Update("application", spec, label), apc' \in {"lookup", "status"}
  PROVE  Recent'
  <1>0. ObjectTypeOK /\ comp \in Component /\ "application" \in Controllers
    BY DEF IndInv, TypeOK, ObjectTypeOK, Controllers
  <1> DEFINE new == [comp EXCEPT !.spec = spec, !.label = label]
  <1>1. new \in Component /\ new.label = label
    BY <1>0 DEF Component
  <1>2. Written("application", new) /\ cache.label = comp.label
    BY DEF Update, Recent
  <1> HIDE DEF new
  <1>3. comp' = new /\ cache'.label = cache.label /\ obj'["application"] = CopyOf(new)
    BY <1>0, <1>1, <1>2, WrittenFields
  <1>4. obj'["application"].label = comp'.label /\ cache'.label \in {comp'.label, former'}
    BY <1>1, <1>2, <1>3, CopyFields DEF Remember
  <1>. QED
    BY <1>4 DEF Recent, Holding, Reporting

\* The steps of ReconcileComponent that write the component or read it.
LEMMA RecentWorker ==
  ASSUME IndInv, Recent, Remember,
         \/ ReconcileApplication \/ CreateComponent \/ LabelComponent \/ UpdateComponent
         \/ LookupRun
  PROVE  Recent'
  <1>0. /\ ObjectTypeOK /\ CopiesTrue /\ WorkerSound /\ comp \in Component /\ cache \in Copy
        /\ obj \in [Controllers -> Copy] /\ "application" \in Controllers /\ wflr \in 0 .. MaxRuns
    BY DEF IndInv, TypeOK, ObjectTypeOK, Controllers, ApplicationTypeOK
  <1>1. CASE ReconcileApplication
    <2>1. CASE apc' = "creating" /\ UNCHANGED objectVars
      BY <2>1, RecentStill DEF Relaxes, Holding, Reporting
    <2>2. CASE /\ apc' \in {"lookup", "updating", "update"} /\ UNCHANGED <<comp, cache>>
               /\ obj' = [obj EXCEPT !["application"] = cache]
      <3>1. obj'["application"] = cache
        BY <1>0, <2>2
      <3>2. cache.fresh => cache.label = comp.label
        BY <1>0, CopyFields DEF CopiesTrue
      <3>3. former' = former
        BY <2>2 DEF Remember
      <3>. QED
        BY <2>2, <3>1, <3>2, <3>3 DEF Recent, Holding, Reporting
    <2>. QED
      BY <1>1, <2>1, <2>2 DEF ReconcileApplication
  <1>2. CASE CreateComponent
    <2>1. CASE UNCHANGED objectVars /\ Go("createFailed")
      BY <2>1, RecentStill DEF Go, Relaxes, Holding, Reporting
    <2>2. CASE /\ comp.spec = 0 /\ Go("workflow")
               /\ Written("application", [Absent EXCEPT !.spec = target])
      <3> DEFINE new == [Absent EXCEPT !.spec = target]
      <3>1. target \in Specs
        BY <1>0, <1>2 DEF WorkerSound, CreateComponent
      <3>2. new \in Component /\ new.label = 0
        BY <3>1, AbsentFields DEF Component
      <3>3. comp = Absent /\ cache = CopyOf(comp)
        BY <1>0, <2>2 DEF CopiesTrue
      <3>4. Written("application", new)
        BY <2>2
      <3> HIDE DEF new
      <3>5. comp' = new /\ cache'.label = cache.label
        BY <1>0, <3>2, <3>4, WrittenFields
      <3>6. cache'.label = 0 /\ comp'.label = 0
        BY <3>2, <3>3, <3>5, AbsentFields, CopyFields
      <3>. QED
        BY <2>2, <3>6 DEF Go, Recent, Reporting
    <2>. QED
      BY <1>2, <2>1, <2>2 DEF CreateComponent
  <1>3. CASE LabelComponent \/ UpdateComponent
    <2> DEFINE o == obj["application"]
               label == IF wflr = 0 THEN o.label ELSE wflr
    <2>1. label \in 0 .. MaxRuns
      BY <1>0 DEF Copy
    <2>2. CASE UNCHANGED objectVars /\ (Go("createFailed") \/ Done(TRUE))
      BY <2>2, RecentStill DEF Go, Done, Relaxes, Holding, Reporting
    <2>3. CASE apc = "label" /\ Update("application", o.spec, label) /\ Go("status")
      <3>1. o = CopyOf(comp) /\ comp.spec # 0
        BY <1>0, <2>3 DEF Update, CopiesTrue
      <3>2. o.spec \in Specs
        BY <1>0, <3>1, CopyFields DEF Copy
      <3>. QED
        BY <2>1, <2>3, <3>2, RecentUpdated DEF Go, Holding
    <2>4. CASE apc = "update" /\ Update("application", target, label) /\ Go("lookup")
      <3>1. target \in Specs
        BY <1>0, <2>4 DEF WorkerSound
      <3>. QED
        BY <2>1, <2>4, <3>1, RecentUpdated DEF Go, Holding
    <2>. QED
      BY <1>3, <2>2, <2>3, <2>4 DEF LabelComponent, UpdateComponent
  <1>4. CASE LookupRun
    <2>1. apc = "lookup" /\ UNCHANGED <<comp, cache, obj>> /\ former' = former
      BY <1>4 DEF LookupRun, Lookup, objectVars, Remember
    <2> DEFINE r == obj["application"].label
               found == /\ obj["application"].wf \in {"triggered", "notTriggered", "running"}
                        /\ r # 0 /\ runCache[r] \in {"running", "succeeded", "failed"}
    <2>2. IF found THEN apc' = runCache[r] /\ wflr' = r ELSE apc' = "status" /\ wflr' = 0
      BY <1>4 DEF LookupRun, Lookup
    <2>3. CASE ~found
      BY <2>1, <2>2, <2>3 DEF Recent, Holding, Reporting
    <2>4. CASE found
      BY <2>1, <2>2, <2>4 DEF Recent, Holding, Reporting
    <2>. QED
      BY <2>3, <2>4
  <1>. QED
    BY <1>1, <1>2, <1>3, <1>4

\* The steps that set a condition of the component.
LEMMA RecentCondition ==
  ASSUME IndInv, Recent, Remember,
         \/ SetTriggered \/ SetNotTriggered \/ SetRetriggered \/ SetNotRetriggered
         \/ ReportRun \/ SetPending
  PROVE  Recent'
  <1>1. obj["application"].ready \in ReadyStates /\ obj["application"].wf \in WfStates
    BY DEF IndInv, TypeOK, ObjectTypeOK, Controllers, Copy
  <1>2. apc' \notin Reporting
    BY DEF SetTriggered, SetNotTriggered, SetRetriggered, SetNotRetriggered, ReportRun, SetPending,
           setConditionWorkflow, setCondition, Go, Done, Reporting
  <1>3. \/ \E wf \in WfStates, ready \in ReadyStates : ApplyStatus("application", wf, ready)
        \/ UNCHANGED objectVars /\ (Go("createFailed") \/ Done(TRUE))
    BY <1>1 DEF SetTriggered, SetNotTriggered, SetRetriggered, SetNotRetriggered, ReportRun,
                SetPending, setConditionWorkflow, setCondition, WfStates, ReadyStates
  <1>4. UNCHANGED objectVars /\ (Go("createFailed") \/ Done(TRUE)) => Recent'
    BY RecentStill DEF Go, Done, Relaxes, Holding, Reporting
  <1>. QED
    BY <1>2, <1>3, <1>4, RecentApplied

\* The steps of the worker that touch neither the component nor a copy of it.
LEMMA RecentElsewhere ==
  ASSUME Recent, Remember,
         \/ SetRenderingComponent \/ SetRenderingComponentFailed \/ SetComponentWorkflow
         \/ RunComponentWorkflow \/ SetRerendering \/ RerunComponentWorkflow
         \/ SetRerenderingFailed \/ SetStatus
  PROVE  Recent'
  <1>1. UNCHANGED objectVars
    BY DEF SetRenderingComponent, SetRenderingComponentFailed, SetComponentWorkflow,
           RunComponentWorkflow, SetRerendering, RerunComponentWorkflow, SetRerenderingFailed,
           SetStatus, AppStatus
  <1>2. apc' \notin Reporting \cup {"lookup"} /\ (apc' \in Holding => apc \in Holding)
    BY DEF SetRenderingComponent, SetRenderingComponentFailed, SetComponentWorkflow,
           RunComponentWorkflow, SetRerendering, RerunComponentWorkflow, SetRerenderingFailed,
           SetStatus, AppStatus, CreateRun, Go, Done, Holding, Reporting
  <1>. QED
    BY <1>1, <1>2, RecentStill DEF Relaxes

\* The steps of the others write no label.
LEMMA RecentOthers ==
  ASSUME IndInv, Recent,
         \/ Remember /\ (ApplicationEnvironment \/ SyncOwnedComponent)
         \/ OtherReads \/ OtherWrites \/ UNCHANGED vars
  PROVE  Recent'
  <1>0. /\ ObjectTypeOK /\ comp \in Component /\ obj \in [Controllers -> Copy]
        /\ "application" \in Controllers \ {"component"} /\ "component" \in Controllers
    BY DEF IndInv, TypeOK, ObjectTypeOK, Controllers
  <1>1. CASE Remember /\ ApplicationEnvironment
    <2>1. UNCHANGED objectVars /\ UNCHANGED <<apc, wflr>>
      BY <1>1 DEF ApplicationEnvironment, SyncApplication, SyncWorkflow, EditApplication, SyncRun,
                  RunMoves, RunTurns
    <2>. QED
      BY <1>1, <2>1, RecentStill DEF Relaxes
  <1>2. CASE Remember /\ SyncOwnedComponent
    <2>1. UNCHANGED <<comp, obj, apc, wflr>> /\ cache' = CopyOf(comp)
      BY <1>2 DEF SyncOwnedComponent, SyncCache
    <2>2. cache'.label = comp.label
      BY <1>0, <2>1, CopyFields
    <2>. QED
      BY <1>2, <2>1, <2>2, RecentKept DEF Relaxes
  <1>3. CASE OtherReads
    <2>1. /\ UNCHANGED <<comp, cache, apc, wflr, former>>
          /\ obj' = [obj EXCEPT !["component"] = cache]
      BY <1>3 DEF OtherReads, applicationVars
    <2>2. obj'["application"] = obj["application"]
      BY <1>0, <2>1
    <2>3. Remember
      BY <2>1 DEF Remember
    <2>. QED
      BY <2>1, <2>2, <2>3, RecentKept DEF Relaxes
  <1>4. CASE OtherWrites
    <2>1. /\ UNCHANGED <<apc, wflr, former>> /\ obj["component"].spec \in Specs
          /\ obj["component"].wf \in WfStates
      BY <1>0, <1>4 DEF OtherWrites, applicationVars, Copy
    <2>2. PICK new \in Component : Written("component", new) /\ new.label = comp.label
      <3>1. CASE ApplyStatus("component", obj["component"].wf, "rendering")
        <4> DEFINE new == [comp EXCEPT !.wf = obj["component"].wf, !.ready = "rendering"]
        <4>1. new \in Component /\ new.label = comp.label
          BY <1>0, <2>1 DEF Component, ReadyStates
        <4>2. Written("component", new)
          BY <3>1 DEF ApplyStatus
        <4> HIDE DEF new
        <4>. QED
          BY <4>1, <4>2
      <3>2. CASE Patch("component", obj["component"].spec)
        <4> DEFINE new == [comp EXCEPT !.ann = obj["component"].spec]
        <4>1. new \in Component /\ new.label = comp.label
          BY <1>0, <2>1 DEF Component
        <4>2. Written("component", new)
          BY <3>2 DEF Patch
        <4> HIDE DEF new
        <4>. QED
          BY <4>1, <4>2
      <3>. QED
        BY <1>4, <3>1, <3>2 DEF OtherWrites
    <2>3. /\ comp' = new /\ cache'.label = cache.label
          /\ obj'["application"].label = obj["application"].label
          /\ obj'["application"].fresh => obj'["application"] = obj["application"]
      BY <1>0, <2>2, WrittenFields
    <2>4. Remember
      BY <2>1, <2>2, <2>3 DEF Remember
    <2>5. obj'["application"].fresh => obj["application"].fresh
      BY <2>3
    <2>. QED
      BY <2>1, <2>2, <2>3, <2>4, <2>5, RecentKept DEF Relaxes
  <1>5. CASE UNCHANGED vars
    BY <1>5, RecentStill DEF vars, applicationVars, objectVars, Remember, Relaxes
  <1>. QED
    BY <1>1, <1>2, <1>3, <1>4, <1>5

\* The cache is never more than one label behind.
THEOREM CacheIsRecent == Spec => []Recent
  <1>1. Init => Recent
    <2>1. CopyOf(Absent).label = 0
      BY AbsentFields, CopyFields
    <2>. QED
      BY <2>1, AbsentFields DEF Init, ObjectInit, ApplicationInit, Recent, Holding, Reporting
  <1>2. IndInv /\ Recent /\ [Next]_vars => Recent'
    BY RecentWorker, RecentCondition, RecentElsewhere, RecentOthers
    DEF Next, Own, ApplicationReconcile
  <1>. QED
    BY <1>1, <1>2, Invariance, PTL DEF Spec

(***************************************************************************)
(* The results.                                                            *)
(***************************************************************************)
\* The component, its copies, the runs and the worker have their type.
THEOREM TypeCorrect == Spec => []TypeOK
  <1>1. IndInv => TypeOK
    BY DEF IndInv
  <1>. QED
    BY <1>1, Invariance, PTL

\* createComponent and updateComponent label the component with the runs in the
\* order in which they were created, although they write from copies.
THEOREM LabelsAdvance == Spec => LabelNamesNewest
  <1>1. IndInv /\ IndInv' /\ [Next]_vars =>
          [comp'.label >= comp.label /\ comp'.label <= Cardinality(Created')]_vars
    <2> SUFFICES ASSUME IndInv, IndInv', [Next]_vars
                 PROVE  comp'.label >= comp.label /\ comp'.label <= Cardinality(Created')
      OBVIOUS
    <2>1. comp'.label >= comp.label
      BY NextInd DEF Moves
    <2>2. RunsNumbered'
      BY DEF IndInv
    <2>3. (Cardinality(Created) \in Nat /\ Created = 1 .. Cardinality(Created))'
      BY <2>2, RunNumbers, PTL
    <2>4. comp'.label \in {0} \cup Created'
      BY <2>2 DEF RunsNumbered
    <2>. QED
      BY <2>1, <2>3, <2>4
  <1>. QED
    BY <1>1, Invariance, PTL DEF Spec, LabelNamesNewest

\* updateComponent changes the source only with the label of the run that it has
\* created for the change.
THEOREM SourcesAdvance == Spec => SourceMovesWithRun
  <1>1. IndInv /\ [Next]_vars =>
          [(comp.spec # 0 /\ Source(comp'.spec) # Source(comp.spec))
             => (comp'.label > comp.label /\ comp'.label \in Created)]_vars
    BY NextInd DEF Moves
  <1>. QED
    BY <1>1, Invariance, PTL DEF Spec, SourceMovesWithRun

\* ReconcileComponent reports the run that the component is labelled with, or
\* was before its last label, and no run that was created in vain.
THEOREM ReportsLabelled == Spec => ReportsLabelledRun
  <1>1. Recent =>
          [(apc \in {"running", "succeeded", "failed"} /\ apc' # apc /\ comp' # comp)
             => wflr \in {comp.label, former}]_vars
    BY DEF Recent, Reporting
  <1>. QED
    BY <1>1, CacheIsRecent, PTL DEF ReportsLabelledRun
==============================================================================
