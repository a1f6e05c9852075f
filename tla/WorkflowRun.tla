----------------------------- MODULE WorkflowRun -----------------------------
(***************************************************************************)
(* The reconciler of one WorkflowRun                                       *)
(* (internal/controller/core/workflow): the stored run with its optimistic *)
(* lock, the jobs of its N actions, and, in every controller manager that  *)
(* is running, the informer caches, the work queue entry and the worker    *)
(* that executes Reconcile.                                                *)
(*                                                                         *)
(* A resource version is only ever compared for equality with the stored   *)
(* one, so a copy carries `fresh': nobody has written the object since     *)
(* this copy was read.  The status holds at most one condition, because    *)
(* setCondition starts from an empty list; cond names it.                  *)
(***************************************************************************)
EXTENDS Naturals, Sequences

CONSTANTS Managers,         \* controller managers running at the same time
          N,                \* actions of the workflow, 1..N in order
          Faults,           \* kinds of fault that may happen
          MaxFaults         \* how many of them, all kinds together

ASSUME NAssumption == N \in Nat \ {0}
ASSUME FaultsAssumption ==
    /\ Faults \subseteq {"crash", "edit", "delete", "api", "lost"}
    /\ MaxFaults \in Nat

VARIABLES run,              \* stored WorkflowRun: [exists, cond]
          deps,             \* its Application and Workflow can be read
          jobs,             \* stored Job of each action
          cache,            \* WorkflowRun informer: [exists, cond, fresh]
          jobCache,         \* Job informer
          queue,            \* the run's key is in the manager's work queue
          w,                \* worker of each manager
          started,          \* history: actions whose job was created, in order
          aborted,          \* history: RunActions has returned an error
          faults            \* faults left

vars == <<run, deps, jobs, cache, jobCache, queue, w, started, aborted, faults>>

Actions == 1 .. N
CondStates == {"none", "running", "succeeded", "failed"}
JobStates == {"absent", "pending", "active", "complete", "failed"}
NoJobs == [a \in Actions |-> "absent"]

isFinished(c) == c \in {"succeeded", "failed"}

\* Mutant: the marker is looked for in a status that is always empty.
isRunningLost(c) == FALSE
isRunning(c) == c = "running"

Idle == [pc |-> "idle", cond |-> "none", fresh |-> FALSE,
         list |-> NoJobs, next |-> 1]

Worker == [pc : {"idle", "list", "scan", "start", "fail"},
           cond : CondStates, fresh : BOOLEAN,
           list : [Actions -> JobStates], next : Actions]

TypeOK ==
    /\ run \in [exists : BOOLEAN, cond : CondStates]
    /\ deps \in BOOLEAN
    /\ jobs \in [Actions -> JobStates]
    /\ cache \in [Managers -> [exists : BOOLEAN, cond : CondStates, fresh : BOOLEAN]]
    /\ jobCache \in [Managers -> [Actions -> JobStates]]
    /\ queue \in [Managers -> BOOLEAN]
    /\ w \in [Managers -> Worker]
    /\ started \in Seq(Actions)
    /\ aborted \in BOOLEAN
    /\ faults \in 0 .. MaxFaults

\* The run has just been created by the application controller; the caches
\* have seen it and every manager has its key in the queue.
Init ==
    /\ run = [exists |-> TRUE, cond |-> "none"]
    /\ deps \in BOOLEAN
    /\ jobs = NoJobs
    /\ cache = [m \in Managers |-> [exists |-> TRUE, cond |-> "none", fresh |-> TRUE]]
    /\ jobCache = [m \in Managers |-> NoJobs]
    /\ queue = [m \in Managers |-> TRUE]
    /\ w = [m \in Managers |-> Idle]
    /\ started = << >>
    /\ aborted = FALSE
    /\ faults = MaxFaults

Fault(kind) == kind \in Faults /\ faults > 0 /\ faults' = faults - 1

(***************************************************************************)
(* The API server and the client library.                                  *)
(***************************************************************************)
Outdated(copies) == [m \in Managers |-> [copies[m] EXCEPT !.fresh = FALSE]]

\* Mutant: an update that does not send the resource version.
StoreBlind(m, c, after) ==
    /\ run' = [run EXCEPT !.cond = c]
    /\ cache' = Outdated(cache)
    /\ w' = [Outdated(w) EXCEPT ![m] = [after EXCEPT !.fresh = after.pc # "idle"]]

\* Worker m stores condition c and goes on as `after'.  A write that changes
\* nothing (the condition is the same and its time falls in the same second)
\* keeps the resource version and wakes nobody.
Store(m, c, after) ==
    /\ w[m].fresh
    /\ run' = [run EXCEPT !.cond = c]
    /\ \/ /\ cache' = Outdated(cache)
          /\ w' = [Outdated(w) EXCEPT ![m] = after]
       \/ /\ run.cond = c
          /\ cache' = cache
          /\ w' = [w EXCEPT ![m] = after]

\* Reconcile returns an error: the worker is free, the key is queued again.
Requeue(m) == w' = [w EXCEPT ![m] = Idle] /\ queue' = [queue EXCEPT ![m] = TRUE]

\* setCondition: Status().Update with the copy's resource version.  The copy
\* keeps the version it has just written.  A conflict, a run that is gone, a
\* failed call and an applied call whose answer is lost are errors.
setCondition(m, c, after) ==
    /\ UNCHANGED <<deps, jobs, jobCache, started, aborted>>
    /\ \/ Store(m, c, after) /\ UNCHANGED <<queue, faults>>
       \/ /\ ~w[m].fresh
          /\ Requeue(m)
          /\ UNCHANGED <<run, cache, faults>>
       \/ /\ Fault("api")
          /\ Requeue(m)
          /\ UNCHANGED <<run, cache>>
       \/ /\ Fault("lost")
          /\ Store(m, c, Idle)
          /\ queue' = [queue EXCEPT ![m] = TRUE]

(***************************************************************************)
(* Reconcile, step by step.                                                *)
(***************************************************************************)
\* The run, its application or its workflow is not found, or the run is
\* finished: nothing is done and nothing is queued.
FetchStop(m) ==
    /\ w[m].pc = "idle" /\ queue[m]
    /\ ~cache[m].exists \/ ~deps \/ isFinished(cache[m].cond)
    /\ queue' = [queue EXCEPT ![m] = FALSE]
    /\ UNCHANGED <<run, deps, jobs, cache, jobCache, w, started, aborted, faults>>

Fetch(m) ==
    /\ w[m].pc = "idle" /\ queue[m]
    /\ cache[m].exists /\ deps /\ ~isFinished(cache[m].cond)
    /\ queue' = [queue EXCEPT ![m] = FALSE]
    /\ w' = [w EXCEPT ![m] = [Idle EXCEPT !.pc = "list", !.cond = cache[m].cond,
                                          !.fresh = cache[m].fresh]]
    /\ UNCHANGED <<run, deps, jobs, cache, jobCache, started, aborted, faults>>

\* Mutant: failed jobs are passed over.
RelevantNoFailed(a, s) == s = "active" \/ (s = "complete" /\ a = N)

\* The jobs the loop has something to do for: the body passes over a job
\* without pods and without conditions, and over a completed one that does
\* not belong to the last action.
Relevant(a, s) == s \in {"active", "failed"} \/ (s = "complete" /\ a = N)

ListJobs(m) ==
    /\ w[m].pc = "list"
    /\ w' = [w EXCEPT ![m].pc = "scan",
                      ![m].list = [a \in Actions |-> IF Relevant(a, jobCache[m][a])
                                                     THEN jobCache[m][a] ELSE "absent"]]
    /\ UNCHANGED <<run, deps, jobs, cache, jobCache, queue, started, aborted, faults>>

\* The loop over the listed jobs, which come in any order: any job still in
\* the list may be the next one.
ScanActive(m) ==
    /\ w[m].pc = "scan"
    /\ \E a \in Actions : w[m].list[a] = "active"
    /\ setCondition(m, "running", Idle)

Scanned(m, a) == [w[m] EXCEPT !.list[a] = "absent"]

\* Mutant: the complete and failed branches are swapped.
ScanFinishedSwapped(m) ==
    /\ w[m].pc = "scan"
    /\ \E a \in Actions :
          \/ /\ w[m].list[a] = "failed" /\ a = N
             /\ setCondition(m, "succeeded", [Scanned(m, a) EXCEPT !.cond = "succeeded"])
          \/ /\ w[m].list[a] = "complete"
             /\ setCondition(m, "failed", [Scanned(m, a) EXCEPT !.cond = "failed"])

ScanFinished(m) ==
    /\ w[m].pc = "scan"
    /\ \E a \in Actions :
          \/ /\ w[m].list[a] = "complete" /\ a = N
             /\ setCondition(m, "succeeded", [Scanned(m, a) EXCEPT !.cond = "succeeded"])
          \/ /\ w[m].list[a] = "failed"
             /\ setCondition(m, "failed", [Scanned(m, a) EXCEPT !.cond = "failed"])

\* Finished or already marked as running: there is nothing to start.
ScanDone(m) ==
    /\ w[m].pc = "scan" /\ w[m].list = NoJobs
    /\ isFinished(w[m].cond) \/ isRunning(w[m].cond)
    /\ w' = [w EXCEPT ![m] = Idle]
    /\ UNCHANGED <<run, deps, jobs, cache, jobCache, queue, started, aborted, faults>>

\* Mutant: the actions are left to the next reconciliation.
MarkRunningReturns(m) ==
    /\ w[m].pc = "scan" /\ w[m].list = NoJobs
    /\ ~isFinished(w[m].cond) /\ ~isRunning(w[m].cond)
    /\ setCondition(m, "running", Idle)

MarkRunning(m) ==
    /\ w[m].pc = "scan" /\ w[m].list = NoJobs
    /\ ~isFinished(w[m].cond) /\ ~isRunning(w[m].cond)
    /\ setCondition(m, "running",
                    [w[m] EXCEPT !.pc = "start", !.cond = "running"])

\* RunAction applies the objects of the next action, its job among them.
CreateJob(m) ==
    /\ jobs' = [jobs EXCEPT ![w[m].next] = "pending"]
    /\ started' = Append(started, w[m].next)

\* Mutant: the loop runs one action too far.
RunActionTooFar(m) ==
    /\ w[m].pc = "start"
    /\ CreateJob(m)
    /\ w' = [w EXCEPT ![m] = IF w[m].next > N THEN Idle ELSE [@ EXCEPT !.next = @ + 1]]
    /\ UNCHANGED <<run, deps, cache, jobCache, queue, aborted, faults>>

RunAction(m) ==
    /\ w[m].pc = "start"
    /\ CreateJob(m)
    /\ w' = [w EXCEPT ![m] = IF w[m].next = N THEN Idle
                              ELSE [w[m] EXCEPT !.next = w[m].next + 1]]
    /\ UNCHANGED <<run, deps, cache, jobCache, queue, aborted, faults>>

\* Mutant: RunActions goes on with the next action after an error.
RunActionFailsGoesOn(m) ==
    /\ w[m].pc = "start"
    /\ CreateJob(m) \/ UNCHANGED <<jobs, started>>
    /\ aborted' = TRUE
    /\ w' = [w EXCEPT ![m] = IF w[m].next = N THEN [@ EXCEPT !.pc = "fail", !.next = 1]
                             ELSE [@ EXCEPT !.next = @ + 1]]
    /\ UNCHANGED <<run, deps, cache, jobCache, queue, faults>>

\* Mutant: the run is started although it has been marked as failed.
MarkFailedRetries(m) ==
    /\ w[m].pc = "fail"
    /\ setCondition(m, "failed", [w[m] EXCEPT !.pc = "start", !.cond = "failed"])

\* The definition is missing, the module does not render, an object is
\* refused: RunActions stops, before or after the job was created.
RunActionFails(m) ==
    /\ w[m].pc = "start"
    /\ CreateJob(m) \/ UNCHANGED <<jobs, started>>
    /\ aborted' = TRUE
    /\ w' = [w EXCEPT ![m].pc = "fail", ![m].next = 1]
    /\ UNCHANGED <<run, deps, cache, jobCache, queue, faults>>

\* The error of RunActions is replaced by the result of setCondition, so the
\* reconciliation ends without an error once the condition is stored.
MarkFailed(m) ==
    /\ w[m].pc = "fail"
    /\ setCondition(m, "failed", Idle)

Reconcile(m) ==
    \/ FetchStop(m) \/ Fetch(m) \/ ListJobs(m)
    \/ ScanActive(m) \/ ScanFinished(m) \/ ScanDone(m)
    \/ MarkRunning(m) \/ RunAction(m) \/ RunActionFails(m) \/ MarkFailed(m)

(***************************************************************************)
(* Informers, the cluster and faults.                                      *)
(***************************************************************************)
Latest == [exists |-> run.exists, cond |-> run.cond, fresh |-> run.exists]

\* For(WorkflowRun): a change of the run reaches the cache and queues its key.
SyncRun(m) ==
    /\ cache[m] # Latest
    /\ cache' = [cache EXCEPT ![m] = Latest]
    /\ queue' = [queue EXCEPT ![m] = TRUE]
    /\ UNCHANGED <<run, deps, jobs, jobCache, w, started, aborted, faults>>

\* Owns(Job): a change of a job queues the run that controls it.
SyncJobs(m) ==
    /\ jobCache[m] # jobs
    /\ jobCache' = [jobCache EXCEPT ![m] = jobs]
    /\ queue' = [queue EXCEPT ![m] = TRUE]
    /\ UNCHANGED <<run, deps, jobs, cache, w, started, aborted, faults>>

\* The informers' periodic resync queues every object in the cache.
Resync(m) ==
    /\ cache[m].exists /\ ~queue[m]
    /\ queue' = [queue EXCEPT ![m] = TRUE]
    /\ UNCHANGED <<run, deps, jobs, cache, jobCache, w, started, aborted, faults>>

\* The application or the workflow the run names becomes readable.
DepsAppear ==
    /\ ~deps /\ deps' = TRUE
    /\ UNCHANGED <<run, jobs, cache, jobCache, queue, w, started, aborted, faults>>

\* The job controller: a pod runs, or has failed and will be retried.
JobMoves(a, from, to) ==
    /\ jobs[a] = from
    /\ jobs' = [jobs EXCEPT ![a] = to]
    /\ UNCHANGED <<run, deps, cache, jobCache, queue, w, started, aborted, faults>>

JobRuns(a) == JobMoves(a, "pending", "active")
JobBacksOff(a) == JobMoves(a, "active", "pending")
JobEnds(a) == JobMoves(a, "active", "complete") \/ JobMoves(a, "active", "failed")

\* A manager dies and is started again: it lists everything anew.
Crash(m) ==
    /\ Fault("crash")
    /\ w' = [w EXCEPT ![m] = Idle]
    /\ cache' = [cache EXCEPT ![m] = Latest]
    /\ jobCache' = [jobCache EXCEPT ![m] = jobs]
    /\ queue' = [queue EXCEPT ![m] = run.exists]
    /\ UNCHANGED <<run, deps, jobs, started, aborted>>

\* Another client changes the run's metadata, or deletes it.
EditRun ==
    /\ Fault("edit") /\ run.exists
    /\ cache' = Outdated(cache) /\ w' = Outdated(w)
    /\ UNCHANGED <<run, deps, jobs, jobCache, queue, started, aborted>>

DeleteRun ==
    /\ Fault("delete") /\ run.exists
    /\ run' = [run EXCEPT !.exists = FALSE]
    /\ cache' = Outdated(cache) /\ w' = Outdated(w)
    /\ UNCHANGED <<deps, jobs, jobCache, queue, started, aborted>>

Environment ==
    \/ DepsAppear
    \/ \E a \in Actions : JobRuns(a) \/ JobBacksOff(a) \/ JobEnds(a)
    \/ EditRun \/ DeleteRun

Next ==
    \/ \E m \in Managers : Reconcile(m) \/ SyncRun(m) \/ SyncJobs(m) \/ Resync(m) \/ Crash(m)
    \/ Environment

Spec == Init /\ [][Next]_vars

(***************************************************************************)
(* Fairness: a worker takes the next key and goes on with it; watches      *)
(* deliver and resyncs happen; the named objects are created; a job's pods *)
(* are scheduled and its back-off limit ends it.                           *)
(***************************************************************************)
Fairness ==
    /\ \A m \in Managers : WF_vars(Reconcile(m)) /\ WF_vars(SyncRun(m))
                           /\ WF_vars(SyncJobs(m)) /\ WF_vars(Resync(m))
    /\ WF_vars(DepsAppear)
    /\ \A a \in Actions : WF_vars(JobRuns(a)) /\ SF_vars(JobEnds(a))

FairSpec == Spec /\ Fairness

(***************************************************************************)
(* Properties.                                                             *)
(***************************************************************************)
\* Whatever the interleaving of managers, stale caches, conflicts and
\* crashes, RunActions starts the actions in the workflow's order and none
\* twice.  It rests on the RunningAction condition being stored, under the
\* resource version, before the first action.
StartedInOrderOnce ==
    \A i \in 1 .. Len(started) : started[i] = i

\* A condition that says how the run ended is true: success means that the
\* last action's job is complete, failure that a job failed or that
\* RunActions did, although both are read from caches that lag.
FinishedIsTrue ==
    /\ run.cond = "succeeded" => jobs[N] = "complete"
    /\ run.cond = "failed" => aborted \/ \E a \in Actions : jobs[a] = "failed"

\* A Finished condition is only ever withdrawn by the reconciliation that has
\* just written it and is still going through the jobs: no other worker, and
\* no later reconciliation, however stale what it read, marks it running.
FinishedIsFinal ==
    [][isFinished(run.cond) /\ (\A m \in Managers : ~(w[m].pc = "scan" /\ w[m].fresh))
         => isFinished(run'.cond)]_vars

\* With one manager, no action is started for a run that is marked finished.
NoStartAfterFinished ==
    [][started' # started => ~isFinished(run.cond)]_vars

\* RunActions is what ActionSequencer promises.
Sequencer == INSTANCE ActionSequencer WITH claimed <- run.cond # "none",
                                           count <- Len(started),
                                           aborted <- aborted

\* setCondition, RunActions and RunAction together implement ActionSequencer.
SequencerSpec == Sequencer!Spec

\* As long as nothing fails a claimed run goes through its actions to the end
\* or to the first error: nobody has to come back and start the rest.
SequencerProgress == [](faults = MaxFaults) => Sequencer!Progress

\* As long as nothing fails every run ends up finished and stays so, although
\* jobs end in any order and each event may find the caches behind.
FinishedEventually == [](faults = MaxFaults) => <>[]isFinished(run.cond)

\* The comment in Reconcile: if there are no active jobs and the run is not
\* marked as finished, run the actions.
RunsItsActions ==
    (run.exists /\ deps /\ jobs = NoJobs /\ ~isFinished(run.cond))
        ~> (jobs # NoJobs \/ isFinished(run.cond) \/ ~run.exists)
==============================================================================
