-------------------------- MODULE WorkflowRunProofs --------------------------
(***************************************************************************)
(* Safety of the WorkflowRun reconciler for every set of managers, every   *)
(* number of actions and every combination of faults.                      *)
(***************************************************************************)
EXTENDS WorkflowRun, TLAPS

(***************************************************************************)
(* The inductive invariant.                                                *)
(***************************************************************************)
\* A copy nobody has overtaken agrees with the stored run.
FreshCopies ==
    \A m \in Managers :
        /\ w[m].fresh => run.exists /\ w[m].cond = run.cond
        /\ cache[m].fresh => run.exists /\ cache[m].cond = run.cond

\* Before the run is marked nobody is starting or has started its actions.
Unclaimed ==
    run.cond = "none" =>
        /\ started = << >>
        /\ ~aborted
        /\ \A m \in Managers : w[m].pc \notin {"start", "fail"}

\* One worker at most is inside RunActions, at the first action not started.
OneStarter ==
    /\ \A m \in Managers : w[m].pc = "start" => w[m].next = Len(started) + 1 /\ ~aborted
    /\ \A m, n \in Managers : w[m].pc = "start" /\ w[n].pc = "start" => m = n
    /\ \A m \in Managers : w[m].pc = "fail" => aborted
    /\ \A m \in Managers : w[m].pc # "start" => w[m].next = 1

\* A job exists only for an action that was started.
JobsOfStarted == \A a \in Actions : a > Len(started) => jobs[a] = "absent"

\* How a job ended, as far as a cache or a worker knows it, is how it ended.
Ended == {"complete", "failed"}
ListsAreTrue ==
    \A m \in Managers, a \in Actions :
        /\ jobCache[m][a] \in Ended => jobs[a] = jobCache[m][a]
        /\ w[m].list[a] \in Ended => jobs[a] = w[m].list[a]

IndInv == /\ TypeOK /\ FreshCopies /\ Unclaimed /\ OneStarter
          /\ JobsOfStarted /\ ListsAreTrue
          /\ StartedInOrderOnce /\ FinishedIsTrue

(***************************************************************************)
(* Facts about the operators the actions are built from.                   *)
(***************************************************************************)
\* The record of a worker that is not reconciling is well formed.
LEMMA IdleWorker == Idle \in Worker /\ Idle.pc = "idle" /\ Idle.fresh = FALSE
                    /\ Idle.list = NoJobs /\ Idle.next = 1
  BY NAssumption DEF Idle, Worker, NoJobs, Actions, CondStates, JobStates

\* A write by somebody else changes nothing in a copy but its freshness.
LEMMA OutdatedWorkers ==
  ASSUME w \in [Managers -> Worker]
  PROVE  /\ Outdated(w) \in [Managers -> Worker]
         /\ \A n \in Managers :
               /\ Outdated(w)[n].pc = w[n].pc /\ Outdated(w)[n].list = w[n].list
               /\ Outdated(w)[n].next = w[n].next /\ Outdated(w)[n].fresh = FALSE
  BY DEF Outdated, Worker

\* The same for the caches.
LEMMA OutdatedCaches ==
  ASSUME TypeOK
  PROVE  /\ Outdated(cache) \in [Managers -> [exists : BOOLEAN, cond : CondStates,
                                              fresh : BOOLEAN]]
         /\ \A n \in Managers : Outdated(cache)[n].fresh = FALSE
  BY DEF Outdated, TypeOK

\* What setCondition does to the workers and the caches, whether it succeeds
\* or not: worker m goes on or gives up, nobody else's copy becomes fresh.
LEMMA SetConditionEffect ==
  ASSUME IndInv, NEW m \in Managers, NEW c \in CondStates, NEW after \in Worker,
         setCondition(m, c, after)
  PROVE  /\ TypeOK'
         /\ run'.exists = run.exists
         /\ run'.cond = c \/ (run' = run /\ w'[m] = Idle)
         /\ run'.cond # run.cond => w[m].fresh
         /\ w'[m] = Idle \/ (w'[m] = after /\ w[m].fresh /\ run'.cond = c)
         /\ \A n \in Managers \ {m} :
               /\ w'[n].pc = w[n].pc /\ w'[n].list = w[n].list /\ w'[n].next = w[n].next
               /\ w'[n] = w[n] \/ w'[n].fresh = FALSE
               /\ run'.cond # run.cond => w'[n].fresh = FALSE
         /\ \A n \in Managers :
               /\ cache'[n] = cache[n] \/ cache'[n].fresh = FALSE
               /\ run'.cond # run.cond => cache'[n].fresh = FALSE
  <1> USE DEF IndInv
  <1>0. TypeOK /\ w \in [Managers -> Worker]
    BY DEF TypeOK
  <1>1. ASSUME NEW g \in Worker, Store(m, c, g), UNCHANGED <<deps, jobs, jobCache, started, aborted>>,
               queue' \in [Managers -> BOOLEAN], faults' \in 0 .. MaxFaults
        PROVE  /\ TypeOK'
               /\ run'.exists = run.exists /\ run'.cond = c /\ w[m].fresh /\ w'[m] = g
               /\ \A n \in Managers \ {m} :
                     /\ w'[n].pc = w[n].pc /\ w'[n].list = w[n].list /\ w'[n].next = w[n].next
                     /\ w'[n] = w[n] \/ w'[n].fresh = FALSE
                     /\ run'.cond # run.cond => w'[n].fresh = FALSE
               /\ \A n \in Managers :
                     /\ cache'[n] = cache[n] \/ cache'[n].fresh = FALSE
                     /\ run'.cond # run.cond => cache'[n].fresh = FALSE
    <2>1. run' = [run EXCEPT !.cond = c] /\ w[m].fresh
      BY <1>1 DEF Store
    <2>2. run' \in [exists : BOOLEAN, cond : CondStates] /\ run'.exists = run.exists /\ run'.cond = c
      BY <1>0, <2>1 DEF TypeOK
    <2>3. CASE cache' = Outdated(cache) /\ w' = [Outdated(w) EXCEPT ![m] = g]
      <3>1. w' \in [Managers -> Worker] /\ w'[m] = g
            /\ \A n \in Managers \ {m} : w'[n] = Outdated(w)[n]
        BY <1>0, <1>1, <2>3, OutdatedWorkers
      <3>2. cache' \in [Managers -> [exists : BOOLEAN, cond : CondStates, fresh : BOOLEAN]]
            /\ \A n \in Managers : cache'[n].fresh = FALSE
        BY <1>0, <2>3, OutdatedCaches
      <3>3. TypeOK'
        BY <1>0, <1>1, <2>2, <3>1, <3>2 DEF TypeOK
      <3>. QED
        BY <1>0, <2>1, <2>2, <3>1, <3>2, <3>3, OutdatedWorkers
    <2>4. CASE run.cond = c /\ cache' = cache /\ w' = [w EXCEPT ![m] = g]
      <3>1. w' \in [Managers -> Worker] /\ w'[m] = g /\ \A n \in Managers \ {m} : w'[n] = w[n]
        BY <1>0, <1>1, <2>4
      <3>2. TypeOK'
        BY <1>0, <1>1, <2>2, <2>4, <3>1 DEF TypeOK
      <3>. QED
        BY <2>1, <2>2, <2>4, <3>1, <3>2
    <2>. QED
      BY <1>1, <2>3, <2>4 DEF Store
  <1>2. ASSUME Requeue(m), UNCHANGED <<run, cache, deps, jobs, jobCache, started, aborted>>,
               faults' \in 0 .. MaxFaults
        PROVE  /\ TypeOK' /\ w'[m] = Idle
               /\ \A n \in Managers \ {m} : w'[n] = w[n]
    <2>1. w' \in [Managers -> Worker] /\ w'[m] = Idle /\ \A n \in Managers \ {m} : w'[n] = w[n]
      BY <1>0, <1>2, IdleWorker DEF Requeue
    <2>2. queue' \in [Managers -> BOOLEAN]
      BY <1>0, <1>2 DEF Requeue, TypeOK
    <2>. QED
      BY <1>0, <1>2, <2>1, <2>2 DEF TypeOK
  <1>3. CASE Store(m, c, after) /\ UNCHANGED <<queue, faults>>
    <2>1. UNCHANGED <<deps, jobs, jobCache, started, aborted>>
      BY DEF setCondition
    <2>2. queue' \in [Managers -> BOOLEAN] /\ faults' \in 0 .. MaxFaults
      BY <1>0, <1>3 DEF TypeOK
    <2>. QED
      BY <1>1, <1>3, <2>1, <2>2
  <1>4. CASE Requeue(m) /\ UNCHANGED <<run, cache>> /\ (faults' = faults \/ Fault("api"))
    <2>1. UNCHANGED <<deps, jobs, jobCache, started, aborted>>
      BY DEF setCondition
    <2>2. faults' \in 0 .. MaxFaults
      BY <1>0, <1>4, FaultsAssumption DEF TypeOK, Fault
    <2>. QED
      BY <1>2, <1>4, <2>1, <2>2
  <1>5. CASE Fault("lost") /\ Store(m, c, Idle) /\ queue' = [queue EXCEPT ![m] = TRUE]
    <2>1. UNCHANGED <<deps, jobs, jobCache, started, aborted>>
      BY DEF setCondition
    <2>2. queue' \in [Managers -> BOOLEAN] /\ faults' \in 0 .. MaxFaults
      BY <1>0, <1>5, FaultsAssumption DEF TypeOK, Fault
    <2>. QED
      BY <1>1, <1>5, <2>1, <2>2, IdleWorker
  <1>. QED
    BY <1>3, <1>4, <1>5 DEF setCondition

\* setCondition preserves the invariant when what the worker goes on as, and
\* the condition it stores, are backed by what the worker knows.
LEMMA SetConditionInd ==
  ASSUME IndInv, NEW m \in Managers, NEW c \in CondStates \ {"none"}, NEW after \in Worker,
         setCondition(m, c, after),
         after.fresh => after.cond = c,
         after.pc # "fail",
         after.next = 1,
         after.pc = "start" /\ w[m].fresh => run.cond = "none",
         \A a \in Actions : after.list[a] \in Ended => after.list[a] = w[m].list[a],
         c = "succeeded" => jobs[N] = "complete",
         c = "failed" => aborted \/ \E a \in Actions : jobs[a] = "failed"
  PROVE  IndInv'
  <1>0. /\ TypeOK /\ FreshCopies /\ Unclaimed /\ OneStarter /\ JobsOfStarted
        /\ ListsAreTrue /\ StartedInOrderOnce /\ FinishedIsTrue
    BY DEF IndInv
  <1>1. UNCHANGED <<jobs, jobCache, started, aborted>>
    BY DEF setCondition
  <1> DEFINE Others == \A n \in Managers \ {m} :
                 /\ w'[n].pc = w[n].pc /\ w'[n].list = w[n].list /\ w'[n].next = w[n].next
                 /\ w'[n] = w[n] \/ w'[n].fresh = FALSE
                 /\ run'.cond # run.cond => w'[n].fresh = FALSE
  <1>2. /\ TypeOK'
        /\ run'.exists = run.exists
        /\ run'.cond = c \/ (run' = run /\ w'[m] = Idle)
        /\ w'[m] = Idle \/ (w'[m] = after /\ w[m].fresh /\ run'.cond = c)
        /\ Others
        /\ \A n \in Managers : /\ cache'[n] = cache[n] \/ cache'[n].fresh = FALSE
                               /\ run'.cond # run.cond => cache'[n].fresh = FALSE
    BY SetConditionEffect
  <1>3. FreshCopies'
    BY <1>0, <1>2, IdleWorker DEF FreshCopies
  <1>4. Unclaimed'
    BY <1>0, <1>1, <1>2, IdleWorker DEF Unclaimed
  <1>5. OneStarter'
    <2>1. CASE w'[m].pc = "start"
      <3>1. w'[m] = after /\ w[m].fresh
        BY <1>2, <2>1, IdleWorker
      <3>2. after.next = 1 /\ run.cond = "none"
        BY <2>1, <3>1
      <3>3. started = << >> /\ ~aborted /\ \A n \in Managers : w[n].pc \notin {"start", "fail"}
        BY <1>0, <3>2 DEF Unclaimed
      <3>. QED
        BY <1>0, <1>1, <1>2, <2>1, <3>1, <3>2, <3>3 DEF OneStarter
    <2>2. CASE w'[m].pc # "start"
      BY <1>0, <1>1, <1>2, <2>2, IdleWorker DEF OneStarter
    <2>. QED
      BY <2>1, <2>2
  <1>6. ListsAreTrue'
    <2>1. \A a \in Actions : w'[m].list[a] \in Ended => jobs[a] = w'[m].list[a]
      <3>1. \A a \in Actions : Idle.list[a] \notin Ended
        BY IdleWorker DEF NoJobs, Ended
      <3>. QED
        BY <1>0, <1>2, <3>1 DEF ListsAreTrue
    <2>. QED
      BY <1>0, <1>1, <1>2, <2>1 DEF ListsAreTrue
  <1>7. JobsOfStarted' /\ StartedInOrderOnce'
    BY <1>0, <1>1 DEF JobsOfStarted, StartedInOrderOnce, Actions
  <1>8. FinishedIsTrue'
    BY <1>0, <1>1, <1>2 DEF FinishedIsTrue, Actions
  <1>. QED
    BY <1>2, <1>3, <1>4, <1>5, <1>6, <1>7, <1>8 DEF IndInv

(***************************************************************************)
(* Every step preserves the invariant.                                     *)
(***************************************************************************)
\* A new run satisfies the invariant.
LEMMA InitInd == Init => IndInv
  <1> SUFFICES ASSUME Init PROVE IndInv
    OBVIOUS
  <1>1. TypeOK
    <2>1. NoJobs \in [Actions -> JobStates]
      BY DEF NoJobs, JobStates
    <2>2. run \in [exists : BOOLEAN, cond : CondStates] /\ deps \in BOOLEAN /\ aborted \in BOOLEAN
      BY DEF Init, CondStates
    <2>3. cache \in [Managers -> [exists : BOOLEAN, cond : CondStates, fresh : BOOLEAN]]
      BY DEF Init, CondStates
    <2>4. queue \in [Managers -> BOOLEAN] /\ w \in [Managers -> Worker]
      BY IdleWorker DEF Init
    <2>5. started \in Seq(Actions) /\ faults \in 0 .. MaxFaults
      BY FaultsAssumption DEF Init
    <2>. QED
      BY <2>1, <2>2, <2>3, <2>4, <2>5 DEF Init, TypeOK
  <1>2. FreshCopies /\ Unclaimed /\ OneStarter
    BY IdleWorker DEF Init, FreshCopies, Unclaimed, OneStarter
  <1>3. JobsOfStarted /\ ListsAreTrue
    BY IdleWorker DEF Init, JobsOfStarted, ListsAreTrue, NoJobs, Ended
  <1>4. StartedInOrderOnce /\ FinishedIsTrue
    BY DEF Init, StartedInOrderOnce, FinishedIsTrue
  <1>. QED
    BY <1>1, <1>2, <1>3, <1>4 DEF IndInv

\* Steps that touch neither the stored run, the jobs nor the history, and in
\* which a worker at most gives up its copy, preserve the invariant.
LEMMA QuietInd ==
  ASSUME IndInv, TypeOK', UNCHANGED <<jobs, started, aborted>>,
         run'.cond = run.cond,
         \A m \in Managers :
            /\ w'[m].fresh => w[m].fresh /\ w'[m].cond = w[m].cond /\ run'.exists = run.exists
            /\ cache'[m].fresh => run'.exists /\ cache'[m].cond = run.cond
            /\ w'[m].pc = "start" => w[m].pc = "start" /\ w'[m].next = w[m].next
            /\ w'[m].pc = "fail" => w[m].pc = "fail"
            /\ w'[m].pc # "start" => w'[m].next = 1
            /\ \A a \in Actions : jobCache'[m][a] \in Ended => jobs[a] = jobCache'[m][a]
            /\ \A a \in Actions : w'[m].list[a] \in Ended => jobs[a] = w'[m].list[a]
  PROVE  IndInv'
  <1>0. /\ TypeOK /\ FreshCopies /\ Unclaimed /\ OneStarter /\ JobsOfStarted
        /\ ListsAreTrue /\ StartedInOrderOnce /\ FinishedIsTrue
    BY DEF IndInv
  <1>1. FreshCopies'
    BY <1>0 DEF FreshCopies
  <1>2. Unclaimed' /\ OneStarter'
    BY <1>0 DEF Unclaimed, OneStarter
  <1>3. JobsOfStarted' /\ StartedInOrderOnce' /\ FinishedIsTrue'
    BY <1>0 DEF JobsOfStarted, StartedInOrderOnce, FinishedIsTrue, Actions
  <1>4. ListsAreTrue'
    BY <1>0 DEF ListsAreTrue
  <1>. QED
    BY <1>1, <1>2, <1>3, <1>4 DEF IndInv

\* A job appears only when the only worker inside RunActions creates it.
LEMMA CreateJobInd ==
  ASSUME IndInv, NEW m \in Managers, w[m].pc = "start", CreateJob(m)
  PROVE  /\ jobs' \in [Actions -> JobStates] /\ started' \in Seq(Actions)
         /\ Len(started') = Len(started) + 1
         /\ StartedInOrderOnce' /\ JobsOfStarted'
         /\ jobs[w[m].next] = "absent"
         /\ \A a \in Actions : jobs[a] # "absent" => jobs'[a] = jobs[a]
  <1>0. TypeOK /\ OneStarter /\ JobsOfStarted /\ StartedInOrderOnce
    BY DEF IndInv
  <1>1. w[m].next \in Actions /\ w[m].next = Len(started) + 1 /\ started \in Seq(Actions)
        /\ jobs \in [Actions -> JobStates] /\ Len(started) \in Nat
    BY <1>0 DEF TypeOK, Worker, OneStarter
  <1>2. started' \in Seq(Actions) /\ Len(started') = Len(started) + 1
        /\ started'[Len(started) + 1] = w[m].next
        /\ \A i \in 1 .. Len(started) : started'[i] = started[i]
    BY <1>1 DEF CreateJob
  <1>3. jobs[w[m].next] = "absent"
    BY <1>0, <1>1, NAssumption DEF JobsOfStarted, Actions
  <1>4. jobs' \in [Actions -> JobStates]
        /\ \A a \in Actions : a # w[m].next => jobs'[a] = jobs[a]
    BY <1>1 DEF CreateJob, JobStates
  <1>5. StartedInOrderOnce'
    BY <1>0, <1>1, <1>2 DEF StartedInOrderOnce
  <1>6. JobsOfStarted'
    BY <1>0, <1>1, <1>2, <1>4, NAssumption DEF JobsOfStarted, Actions
  <1>. QED
    BY <1>2, <1>3, <1>4, <1>5, <1>6

\* The steps of Reconcile.
LEMMA ReconcileInd ==
  ASSUME IndInv, NEW m \in Managers, Reconcile(m)
  PROVE  IndInv'
  <1>0. /\ TypeOK /\ FreshCopies /\ Unclaimed /\ OneStarter /\ JobsOfStarted
        /\ ListsAreTrue /\ StartedInOrderOnce /\ FinishedIsTrue
    BY DEF IndInv
  <1>a. w \in [Managers -> Worker] /\ w[m] \in Worker /\ N \in Actions /\ 1 \in Actions
    BY <1>0, NAssumption DEF TypeOK, Actions
  <1>b. /\ Idle.fresh = FALSE /\ Idle.pc = "idle" /\ Idle \in Worker /\ Idle.next = 1
        /\ \A a \in Actions : Idle.list[a] \notin Ended
    BY IdleWorker DEF NoJobs, Ended
  <1>1. CASE FetchStop(m)
    <2>1. TypeOK'
      BY <1>0, <1>1 DEF FetchStop, TypeOK
    <2>. QED
      BY <1>0, <1>1, <2>1, QuietInd DEF FetchStop, FreshCopies, ListsAreTrue, OneStarter
  <1>2. CASE Fetch(m)
    <2> DEFINE x == [Idle EXCEPT !.pc = "list", !.cond = cache[m].cond, !.fresh = cache[m].fresh]
    <2>1. cache[m].cond \in CondStates /\ cache[m].fresh \in BOOLEAN
      BY <1>0 DEF TypeOK
    <2>2. x \in Worker /\ x.pc = "list" /\ x.list = NoJobs /\ x.next = 1
          /\ x.cond = cache[m].cond /\ x.fresh = cache[m].fresh
      BY <2>1, IdleWorker DEF Worker
    <2> HIDE DEF x
    <2>3. w' \in [Managers -> Worker] /\ w'[m] = x /\ \A n \in Managers \ {m} : w'[n] = w[n]
      BY <1>2, <1>a, <2>2 DEF Fetch, x
    <2>4. TypeOK'
      BY <1>0, <1>2, <2>3 DEF Fetch, TypeOK
    <2>5. UNCHANGED <<run, jobs, cache, jobCache, started, aborted>>
      BY <1>2 DEF Fetch
    <2>6. FreshCopies'
      BY <1>0, <2>2, <2>3, <2>5 DEF FreshCopies
    <2>7. Unclaimed' /\ OneStarter'
      BY <1>0, <2>2, <2>3, <2>5 DEF Unclaimed, OneStarter
    <2>8. ListsAreTrue'
      BY <1>0, <2>2, <2>3, <2>5 DEF ListsAreTrue, NoJobs, Ended
    <2>9. JobsOfStarted' /\ StartedInOrderOnce' /\ FinishedIsTrue'
      BY <1>0, <2>5 DEF JobsOfStarted, StartedInOrderOnce, FinishedIsTrue, Actions
    <2>. QED
      BY <2>4, <2>6, <2>7, <2>8, <2>9 DEF IndInv
  <1>3. CASE ListJobs(m)
    <2> DEFINE l == [a \in Actions |-> IF Relevant(a, jobCache[m][a])
                                       THEN jobCache[m][a] ELSE "absent"]
               x == [w[m] EXCEPT !.pc = "scan", !.list = l]
    <2>1. l \in [Actions -> JobStates] /\ \A a \in Actions : l[a] \in Ended => l[a] = jobCache[m][a]
      BY <1>0 DEF TypeOK, JobStates, Ended
    <2> HIDE DEF l
    <2>2. x \in Worker /\ x.pc = "scan" /\ x.list = l /\ x.next = w[m].next
          /\ x.cond = w[m].cond /\ x.fresh = w[m].fresh
      BY <1>a, <2>1 DEF Worker
    <2>3. w' = [w EXCEPT ![m] = x]
      BY <1>3, <1>a DEF ListJobs, l
    <2> HIDE DEF x
    <2>4. w' \in [Managers -> Worker] /\ w'[m] = x /\ \A n \in Managers \ {m} : w'[n] = w[n]
      BY <1>a, <2>2, <2>3
    <2>5. TypeOK'
      BY <1>0, <1>3, <2>4 DEF ListJobs, TypeOK
    <2>6. UNCHANGED <<run, jobs, cache, jobCache, started, aborted>> /\ w[m].pc = "list"
      BY <1>3 DEF ListJobs
    <2>. QED
      BY <1>0, <2>1, <2>2, <2>4, <2>5, <2>6, QuietInd DEF FreshCopies, ListsAreTrue, OneStarter
  <1>4. CASE ScanActive(m)
    BY <1>4, <1>b, SetConditionInd DEF ScanActive, CondStates
  <1>5. CASE ScanFinished(m)
    <2> DEFINE x(a, c) == [Scanned(m, a) EXCEPT !.cond = c]
    <2>1. ASSUME NEW a \in Actions, NEW c \in CondStates
          PROVE  /\ x(a, c) \in Worker /\ x(a, c).cond = c /\ x(a, c).pc = w[m].pc
                 /\ x(a, c).next = w[m].next
                 /\ \A b \in Actions : x(a, c).list[b] \in Ended => x(a, c).list[b] = w[m].list[b]
      BY <1>a DEF Scanned, Worker, JobStates, Ended
    <2>2. w[m].pc = "scan" /\ w[m].next = 1
      BY <1>0, <1>5 DEF ScanFinished, OneStarter
    <2> HIDE DEF x
    <2>3. CASE \E a \in Actions : w[m].list[a] = "complete" /\ a = N
                                  /\ setCondition(m, "succeeded", x(a, "succeeded"))
      <3>1. PICK a \in Actions : w[m].list[a] = "complete" /\ a = N
                                 /\ setCondition(m, "succeeded", x(a, "succeeded"))
        BY <2>3
      <3>2. jobs[N] = "complete"
        BY <1>0, <1>a, <3>1 DEF ListsAreTrue, Ended
      <3>. QED
        BY <2>1, <2>2, <3>1, <3>2, SetConditionInd DEF CondStates
    <2>4. CASE \E a \in Actions : w[m].list[a] = "failed"
                                  /\ setCondition(m, "failed", x(a, "failed"))
      <3>1. PICK a \in Actions : w[m].list[a] = "failed"
                                 /\ setCondition(m, "failed", x(a, "failed"))
        BY <2>4
      <3>2. jobs[a] = "failed"
        BY <1>0, <3>1 DEF ListsAreTrue, Ended
      <3>. QED
        BY <2>1, <2>2, <3>1, <3>2, SetConditionInd DEF CondStates
    <2>. QED
      BY <1>5, <2>3, <2>4 DEF ScanFinished, x
  <1>6. CASE ScanDone(m)
    <2>1. w' \in [Managers -> Worker] /\ w'[m] = Idle /\ \A n \in Managers \ {m} : w'[n] = w[n]
      BY <1>6, <1>a, <1>b DEF ScanDone
    <2>2. TypeOK'
      BY <1>0, <1>6, <2>1 DEF ScanDone, TypeOK
    <2>3. UNCHANGED <<run, jobs, cache, jobCache, started, aborted>>
      BY <1>6 DEF ScanDone
    <2>. QED
      BY <1>0, <1>b, <2>1, <2>2, <2>3, QuietInd DEF FreshCopies, ListsAreTrue, OneStarter
  <1>7. CASE MarkRunning(m)
    <2> DEFINE x == [w[m] EXCEPT !.pc = "start", !.cond = "running"]
    <2>1. x \in Worker /\ x.cond = "running" /\ x.pc = "start" /\ x.list = w[m].list
          /\ x.next = w[m].next
      BY <1>a DEF Worker, CondStates
    <2>2. setCondition(m, "running", x) /\ w[m].pc = "scan" /\ w[m].cond = "none"
      BY <1>7, <1>a DEF MarkRunning, isFinished, isRunning, Worker, CondStates
    <2> HIDE DEF x
    <2>3. w[m].next = 1
      BY <1>0, <2>2 DEF OneStarter
    <2>. QED
      BY <1>0, <2>1, <2>2, <2>3, SetConditionInd DEF FreshCopies, CondStates
  <1>8. CASE RunAction(m)
    <2>1. w[m].pc = "start" /\ CreateJob(m) /\ UNCHANGED <<run, cache, jobCache, aborted>>
      BY <1>8 DEF RunAction
    <2> DEFINE y == [w[m] EXCEPT !.next = w[m].next + 1]
               x == IF w[m].next = N THEN Idle ELSE y
    <2>a. w[m].next # N => w[m].next + 1 \in Actions
      BY <1>a, NAssumption DEF Worker, Actions
    <2>b. w[m].next # N => /\ y \in Worker /\ y.fresh = w[m].fresh /\ y.cond = w[m].cond
                           /\ y.pc = "start" /\ y.next = w[m].next + 1 /\ y.list = w[m].list
      BY <1>a, <2>1, <2>a DEF Worker
    <2>3. w' = [w EXCEPT ![m] = x]
      BY <1>8, <1>a DEF RunAction
    <2> HIDE DEF y
    <2>2. /\ x \in Worker /\ (x.fresh => w[m].fresh /\ x.cond = w[m].cond) /\ x.pc # "fail"
          /\ IF x.pc = "start" THEN x.next = w[m].next + 1 ELSE x.next = 1
          /\ \A a \in Actions : x.list[a] \in Ended => x.list[a] = w[m].list[a]
      BY <1>b, <2>1, <2>b
    <2> HIDE DEF x
    <2>4. w' \in [Managers -> Worker] /\ w'[m] = x /\ \A n \in Managers \ {m} : w'[n] = w[n]
      BY <1>a, <2>2, <2>3
    <2>5. TypeOK'
      BY <1>0, <1>8, <2>1, <2>4, CreateJobInd DEF RunAction, TypeOK
    <2>6. FreshCopies'
      BY <1>0, <2>1, <2>2, <2>4 DEF FreshCopies
    <2>7. Unclaimed'
      BY <1>0, <2>1 DEF Unclaimed
    <2>8. OneStarter'
      <3>1. Len(started') = Len(started) + 1 /\ w[m].next = Len(started) + 1 /\ ~aborted'
        BY <1>0, <2>1, CreateJobInd DEF OneStarter
      <3>2. \A n \in Managers \ {m} : w'[n].pc # "start"
        BY <1>0, <2>1, <2>4 DEF OneStarter
      <3>3. x.pc = "start" => x.next = Len(started') + 1
        BY <2>2, <3>1
      <3>. QED
        BY <1>0, <2>1, <2>2, <2>4, <3>1, <3>2, <3>3 DEF OneStarter
    <2>9. ListsAreTrue'
      BY <1>0, <2>1, <2>2, <2>4, CreateJobInd DEF ListsAreTrue, Ended
    <2>10. FinishedIsTrue'
      BY <1>0, <1>a, <2>1, CreateJobInd DEF FinishedIsTrue
    <2>. QED
      BY <2>1, <2>5, <2>6, <2>7, <2>8, <2>9, <2>10, CreateJobInd DEF IndInv
  <1>9. CASE RunActionFails(m)
    <2>1. w[m].pc = "start" /\ aborted' = TRUE /\ UNCHANGED <<run, cache, jobCache>>
      BY <1>9 DEF RunActionFails
    <2>2. /\ jobs' \in [Actions -> JobStates] /\ started' \in Seq(Actions)
          /\ StartedInOrderOnce' /\ JobsOfStarted'
          /\ \A a \in Actions : jobs[a] # "absent" => jobs'[a] = jobs[a]
      <3>1. CASE CreateJob(m)
        BY <2>1, <3>1, CreateJobInd
      <3>2. CASE UNCHANGED <<jobs, started>>
        BY <1>0, <3>2 DEF TypeOK, StartedInOrderOnce, JobsOfStarted, Actions
      <3>. QED
        BY <1>9, <3>1, <3>2 DEF RunActionFails
    <2> DEFINE x == [w[m] EXCEPT !.pc = "fail", !.next = 1]
    <2>3. /\ x \in Worker /\ x.fresh = w[m].fresh /\ x.cond = w[m].cond /\ x.pc = "fail"
          /\ x.list = w[m].list /\ x.next = 1
      BY <1>a DEF Worker
    <2>4. w' = [w EXCEPT ![m] = x]
      BY <1>9, <1>a DEF RunActionFails
    <2> HIDE DEF x
    <2>5. w' \in [Managers -> Worker] /\ w'[m] = x /\ \A n \in Managers \ {m} : w'[n] = w[n]
      BY <1>a, <2>3, <2>4
    <2>6. TypeOK'
      BY <1>0, <1>9, <2>1, <2>2, <2>5 DEF RunActionFails, TypeOK
    <2>7. FreshCopies' /\ Unclaimed'
      BY <1>0, <2>1, <2>3, <2>5 DEF FreshCopies, Unclaimed
    <2>8. OneStarter'
      BY <1>0, <2>1, <2>3, <2>5 DEF OneStarter
    <2>9. ListsAreTrue'
      BY <1>0, <2>1, <2>2, <2>3, <2>5 DEF ListsAreTrue, Ended
    <2>10. FinishedIsTrue'
      BY <1>0, <1>a, <2>1, <2>2 DEF FinishedIsTrue
    <2>. QED
      BY <2>2, <2>6, <2>7, <2>8, <2>9, <2>10 DEF IndInv
  <1>10. CASE MarkFailed(m)
    <2>1. setCondition(m, "failed", Idle) /\ aborted
      BY <1>0, <1>10 DEF MarkFailed, OneStarter
    <2>. QED
      BY <1>b, <2>1, SetConditionInd DEF CondStates
  <1>. QED
    BY <1>1, <1>2, <1>3, <1>4, <1>5, <1>6, <1>7, <1>8, <1>9, <1>10 DEF Reconcile

\* The steps of the informers, of the cluster and the faults.
LEMMA OtherInd ==
  ASSUME IndInv,
         (\E m \in Managers : SyncRun(m) \/ SyncJobs(m) \/ Resync(m) \/ Crash(m)) \/ Environment
  PROVE  IndInv'
  <1>0. /\ TypeOK /\ FreshCopies /\ Unclaimed /\ OneStarter /\ JobsOfStarted
        /\ ListsAreTrue /\ StartedInOrderOnce /\ FinishedIsTrue
    BY DEF IndInv
  <1>a. w \in [Managers -> Worker]
    BY <1>0 DEF TypeOK
  <1>b. /\ Idle.fresh = FALSE /\ Idle.pc = "idle" /\ Idle \in Worker /\ Idle.next = 1
        /\ \A a \in Actions : Idle.list[a] \notin Ended
    BY IdleWorker DEF NoJobs, Ended
  <1>c. /\ Latest \in [exists : BOOLEAN, cond : CondStates, fresh : BOOLEAN]
        /\ Latest.fresh = run.exists /\ Latest.cond = run.cond
    BY <1>0 DEF TypeOK, Latest
  <1>1. ASSUME NEW m \in Managers, SyncRun(m) PROVE IndInv'
    <2>1. /\ cache' \in [Managers -> [exists : BOOLEAN, cond : CondStates, fresh : BOOLEAN]]
          /\ cache'[m] = Latest /\ \A n \in Managers \ {m} : cache'[n] = cache[n]
      BY <1>0, <1>1, <1>c DEF SyncRun, TypeOK
    <2>2. TypeOK'
      BY <1>0, <1>1, <2>1 DEF SyncRun, TypeOK
    <2>3. UNCHANGED <<run, jobs, jobCache, w, started, aborted>>
      BY <1>1 DEF SyncRun
    <2>. QED
      BY <1>0, <1>c, <2>1, <2>2, <2>3, QuietInd DEF FreshCopies, ListsAreTrue, OneStarter
  <1>2. ASSUME NEW m \in Managers, SyncJobs(m) PROVE IndInv'
    <2>1. /\ jobCache' \in [Managers -> [Actions -> JobStates]]
          /\ jobCache'[m] = jobs /\ \A n \in Managers \ {m} : jobCache'[n] = jobCache[n]
      BY <1>0, <1>2 DEF SyncJobs, TypeOK
    <2>2. TypeOK'
      BY <1>0, <1>2, <2>1 DEF SyncJobs, TypeOK
    <2>3. UNCHANGED <<run, jobs, cache, w, started, aborted>>
      BY <1>2 DEF SyncJobs
    <2>. QED
      BY <1>0, <2>1, <2>2, <2>3, QuietInd DEF FreshCopies, ListsAreTrue, OneStarter
  <1>3. ASSUME NEW m \in Managers, Resync(m) PROVE IndInv'
    <2>1. TypeOK'
      BY <1>0, <1>3 DEF Resync, TypeOK
    <2>2. UNCHANGED <<run, jobs, cache, jobCache, w, started, aborted>>
      BY <1>3 DEF Resync
    <2>. QED
      BY <1>0, <2>1, <2>2, QuietInd DEF FreshCopies, ListsAreTrue, OneStarter
  <1>4. ASSUME NEW m \in Managers, Crash(m) PROVE IndInv'
    <2>1. /\ cache' \in [Managers -> [exists : BOOLEAN, cond : CondStates, fresh : BOOLEAN]]
          /\ cache'[m] = Latest /\ \A n \in Managers \ {m} : cache'[n] = cache[n]
      BY <1>0, <1>4, <1>c DEF Crash, TypeOK
    <2>2. /\ jobCache' \in [Managers -> [Actions -> JobStates]]
          /\ jobCache'[m] = jobs /\ \A n \in Managers \ {m} : jobCache'[n] = jobCache[n]
      BY <1>0, <1>4 DEF Crash, TypeOK
    <2>3. w' \in [Managers -> Worker] /\ w'[m] = Idle /\ \A n \in Managers \ {m} : w'[n] = w[n]
      BY <1>4, <1>a, <1>b DEF Crash
    <2>4. queue' \in [Managers -> BOOLEAN] /\ faults' \in 0 .. MaxFaults
      BY <1>0, <1>4, FaultsAssumption DEF Crash, Fault, TypeOK
    <2>5. TypeOK' /\ UNCHANGED <<run, jobs, started, aborted>>
      BY <1>0, <1>4, <2>1, <2>2, <2>3, <2>4 DEF Crash, TypeOK
    <2>. QED
      BY <1>0, <1>b, <1>c, <2>1, <2>2, <2>3, <2>5, QuietInd
      DEF FreshCopies, ListsAreTrue, OneStarter
  <1>5. CASE DepsAppear
    <2>1. TypeOK' /\ UNCHANGED <<run, jobs, cache, jobCache, w, started, aborted>>
      BY <1>0, <1>5 DEF DepsAppear, TypeOK
    <2>. QED
      BY <1>0, <2>1, QuietInd DEF FreshCopies, ListsAreTrue, OneStarter
  <1>6. ASSUME NEW a \in Actions, JobRuns(a) \/ JobBacksOff(a) \/ JobEnds(a) PROVE IndInv'
    <2>1. PICK s \in {"pending", "active"}, t \in JobStates \ {"absent"} : JobMoves(a, s, t)
      BY <1>6 DEF JobRuns, JobBacksOff, JobEnds, JobStates
    <2>2. /\ jobs[a] \in {"pending", "active"} /\ jobs' \in [Actions -> JobStates]
          /\ \A b \in Actions : b # a => jobs'[b] = jobs[b]
          /\ UNCHANGED <<run, deps, cache, jobCache, queue, w, started, aborted, faults>>
      BY <1>0, <2>1 DEF JobMoves, TypeOK
    <2>3. TypeOK'
      BY <1>0, <2>2 DEF TypeOK
    <2>4. FreshCopies' /\ Unclaimed' /\ OneStarter' /\ StartedInOrderOnce'
      BY <1>0, <2>2 DEF FreshCopies, Unclaimed, OneStarter, StartedInOrderOnce
    <2>5. JobsOfStarted'
      BY <1>0, <2>2 DEF JobsOfStarted
    <2>6. ListsAreTrue'
      BY <1>0, <2>2 DEF ListsAreTrue, Ended
    <2>7. N \in Actions
      BY NAssumption DEF Actions
    <2>8. FinishedIsTrue'
      BY <1>0, <2>2, <2>7 DEF FinishedIsTrue
    <2>. QED
      BY <2>3, <2>4, <2>5, <2>6, <2>8 DEF IndInv
  <1>7. CASE EditRun \/ DeleteRun
    <2>1. /\ cache' = Outdated(cache) /\ w' = Outdated(w)
          /\ UNCHANGED <<deps, jobs, jobCache, queue, started, aborted>>
      BY <1>7 DEF EditRun, DeleteRun
    <2>2. run' \in [exists : BOOLEAN, cond : CondStates] /\ run'.cond = run.cond
      BY <1>0, <1>7 DEF EditRun, DeleteRun, TypeOK
    <2>3. faults' \in 0 .. MaxFaults
      BY <1>0, <1>7, FaultsAssumption DEF EditRun, DeleteRun, Fault, TypeOK
    <2>4. TypeOK'
      BY <1>0, <2>1, <2>2, <2>3, <1>a, OutdatedWorkers, OutdatedCaches DEF TypeOK
    <2>5. \A m \in Managers : /\ w'[m].fresh = FALSE /\ w'[m].pc = w[m].pc
                             /\ w'[m].list = w[m].list /\ w'[m].next = w[m].next
      BY <1>a, <2>1, OutdatedWorkers
    <2>6. \A m \in Managers : cache'[m].fresh = FALSE
      BY <1>0, <2>1, OutdatedCaches
    <2>. QED
      BY <1>0, <2>1, <2>2, <2>4, <2>5, <2>6, QuietInd DEF ListsAreTrue, OneStarter
  <1>. QED
    BY <1>1, <1>2, <1>3, <1>4, <1>5, <1>6, <1>7 DEF Environment

\* Every step, of a manager or of its environment, preserves the invariant.
LEMMA NextInd == IndInv /\ [Next]_vars => IndInv'
  <1> SUFFICES ASSUME IndInv, [Next]_vars PROVE IndInv'
    OBVIOUS
  <1>1. CASE UNCHANGED vars
    BY <1>1 DEF vars, IndInv, TypeOK, FreshCopies, Unclaimed, OneStarter, JobsOfStarted,
                ListsAreTrue, StartedInOrderOnce, FinishedIsTrue
  <1>2. ASSUME NEW m \in Managers, Reconcile(m) PROVE IndInv'
    BY <1>2, ReconcileInd
  <1>. QED
    BY <1>1, <1>2, OtherInd DEF Next

(***************************************************************************)
(* The theorems.                                                           *)
(***************************************************************************)
\* The strengthened invariant holds in every reachable state.
THEOREM Invariance == Spec => []IndInv
  BY InitInd, NextInd, PTL DEF Spec

\* The state of the reconciler and of what it works on is well typed.
THEOREM TypeCorrect == Spec => []TypeOK
  <1>1. IndInv => TypeOK
    BY DEF IndInv
  <1>. QED
    BY <1>1, Invariance, PTL

\* No action of a run is started twice or out of order by RunActions, for any
\* number of managers, with crashes, conflicts, lost calls and stale caches.
THEOREM StartsOnce == Spec => []StartedInOrderOnce
  <1>1. IndInv => StartedInOrderOnce
    BY DEF IndInv
  <1>. QED
    BY <1>1, Invariance, PTL

\* A Finished condition stored by setCondition tells how the jobs ended.
THEOREM FinishedTruth == Spec => []FinishedIsTrue
  <1>1. IndInv => FinishedIsTrue
    BY DEF IndInv
  <1>. QED
    BY <1>1, Invariance, PTL

\* The condition changes only when a worker with a fresh copy stores one, or
\* not at all; the history changes only inside RunActions.
LEMMA StepKinds ==
  ASSUME IndInv, [Next]_vars
  PROVE  \/ \E m \in Managers, c \in CondStates \ {"none"} :
               /\ run'.cond \in {run.cond, c}
               /\ run'.cond # run.cond => w[m].fresh
               /\ w[m].pc = "scan" \/ c = "failed"
               /\ UNCHANGED <<started, aborted>>
         \/ \E m \in Managers : RunAction(m) \/ RunActionFails(m)
         \/ UNCHANGED <<started, aborted>> /\ run'.cond = run.cond
  <1>1. ASSUME NEW m \in Managers, NEW c \in CondStates, NEW after \in Worker,
               setCondition(m, c, after)
        PROVE  /\ run'.cond \in {run.cond, c} /\ (run'.cond # run.cond => w[m].fresh)
               /\ UNCHANGED <<started, aborted>>
    BY <1>1, SetConditionEffect DEF setCondition
  <1>a. \A m \in Managers : w[m] \in Worker
    BY DEF IndInv, TypeOK
  <1>2. ASSUME NEW m \in Managers, ScanActive(m) \/ MarkRunning(m)
        PROVE  /\ run'.cond \in {run.cond, "running"} /\ (run'.cond # run.cond => w[m].fresh)
               /\ w[m].pc = "scan" /\ UNCHANGED <<started, aborted>>
    <2>1. [w[m] EXCEPT !.pc = "start", !.cond = "running"] \in Worker
      BY <1>a DEF Worker, CondStates
    <2>. QED
      BY <1>1, <1>2, <2>1, IdleWorker DEF ScanActive, MarkRunning, CondStates
  <1>3. ASSUME NEW m \in Managers, ScanFinished(m)
        PROVE  \E c \in {"succeeded", "failed"} :
                  /\ run'.cond \in {run.cond, c} /\ (run'.cond # run.cond => w[m].fresh)
                  /\ w[m].pc = "scan" /\ UNCHANGED <<started, aborted>>
    <2>1. ASSUME NEW a \in Actions, NEW c \in CondStates
          PROVE  [Scanned(m, a) EXCEPT !.cond = c] \in Worker
      BY <1>a DEF Scanned, Worker, JobStates
    <2>2. PICK a \in Actions, c \in {"succeeded", "failed"} :
             setCondition(m, c, [Scanned(m, a) EXCEPT !.cond = c])
      BY <1>3 DEF ScanFinished
    <2>3. c \in CondStates /\ w[m].pc = "scan"
      BY <1>3 DEF ScanFinished, CondStates
    <2>. QED
      BY <1>1, <2>1, <2>2, <2>3
  <1>4. ASSUME NEW m \in Managers, MarkFailed(m)
        PROVE  /\ run'.cond \in {run.cond, "failed"} /\ (run'.cond # run.cond => w[m].fresh)
               /\ UNCHANGED <<started, aborted>>
    BY <1>1, <1>4, IdleWorker DEF MarkFailed, CondStates
  <1>5. ASSUME NEW m \in Managers, FetchStop(m) \/ Fetch(m) \/ ListJobs(m) \/ ScanDone(m)
        PROVE  UNCHANGED <<started, aborted>> /\ run'.cond = run.cond
    BY <1>5 DEF FetchStop, Fetch, ListJobs, ScanDone
  <1>6. ASSUME NEW m \in Managers, SyncRun(m) \/ SyncJobs(m) \/ Resync(m) \/ Crash(m)
        PROVE  UNCHANGED <<started, aborted>> /\ run'.cond = run.cond
    BY <1>6 DEF SyncRun, SyncJobs, Resync, Crash
  <1>7. ASSUME Environment
        PROVE  UNCHANGED <<started, aborted>> /\ run'.cond = run.cond
    <2>1. run \in [exists : BOOLEAN, cond : CondStates]
      BY DEF IndInv, TypeOK
    <2>. QED
      BY <1>7, <2>1 DEF Environment, DepsAppear, EditRun, DeleteRun, JobRuns, JobBacksOff,
                        JobEnds, JobMoves
  <1>8. ASSUME UNCHANGED vars
        PROVE  UNCHANGED <<started, aborted>> /\ run'.cond = run.cond
    BY <1>8 DEF vars
  <1>. QED
    BY <1>2, <1>3, <1>4, <1>5, <1>6, <1>7, <1>8 DEF Next, Reconcile, CondStates

\* A Finished condition is withdrawn only by the reconciliation that wrote it,
\* never by a later or a stale one.
THEOREM FinishedStays == Spec => FinishedIsFinal
  <1>1. ASSUME IndInv, [Next]_vars, isFinished(run.cond),
               \A m \in Managers : ~(w[m].pc = "scan" /\ w[m].fresh)
        PROVE  isFinished(run'.cond)
    <2>1. CASE \E m \in Managers, c \in CondStates \ {"none"} :
               /\ run'.cond \in {run.cond, c}
               /\ run'.cond # run.cond => w[m].fresh
               /\ w[m].pc = "scan" \/ c = "failed"
      BY <1>1, <2>1 DEF isFinished
    <2>2. CASE \E m \in Managers : RunAction(m) \/ RunActionFails(m)
      BY <1>1, <2>2 DEF RunAction, RunActionFails
    <2>. QED
      BY <1>1, <2>1, <2>2, StepKinds
  <1>2. IndInv /\ [Next]_vars
          => [isFinished(run.cond) /\ (\A m \in Managers : ~(w[m].pc = "scan" /\ w[m].fresh))
                => isFinished(run'.cond)]_vars
    BY <1>1
  <1>. QED
    BY <1>2, Invariance, PTL DEF Spec, FinishedIsFinal

\* Every step of the reconciler is a step of ActionSequencer or leaves its
\* variables alone.
LEMMA StepRefines ==
  ASSUME IndInv, IndInv', [Next]_vars
  PROVE  [Sequencer!Next]_(Sequencer!vars)
  <1>0. TypeOK /\ Unclaimed /\ OneStarter /\ started \in Seq(Actions) /\ Len(started) \in Nat
    BY DEF IndInv, TypeOK
  <1>1. CASE UNCHANGED <<started, aborted>> /\ (run'.cond = "none" => run.cond = "none")
    BY <1>1 DEF Sequencer!Next, Sequencer!Claim, Sequencer!vars
  <1>2. ASSUME NEW m \in Managers, RunAction(m) \/ RunActionFails(m)
        PROVE  [Sequencer!Next]_(Sequencer!vars)
    <2>1. w[m].pc = "start" /\ run' = run
      BY <1>2 DEF RunAction, RunActionFails
    <2>2. run.cond # "none" /\ ~aborted /\ w[m].next = Len(started) + 1
      BY <1>0, <2>1 DEF Unclaimed, OneStarter
    <2>3. Len(started) < N
      BY <1>0, <2>2, NAssumption DEF TypeOK, Worker, Actions
    <2>4. CASE RunAction(m)
      <3>1. Len(started') = Len(started) + 1 /\ aborted' = aborted
        BY <2>1, <2>4, CreateJobInd DEF RunAction
      <3>. QED
        BY <2>1, <2>2, <2>3, <3>1 DEF Sequencer!Next, Sequencer!Start
    <2>5. CASE RunActionFails(m)
      <3>1. Len(started') \in {Len(started), Len(started) + 1} /\ aborted' = TRUE
        BY <2>1, <2>5, CreateJobInd DEF RunActionFails
      <3>. QED
        BY <2>1, <2>2, <2>3, <3>1 DEF Sequencer!Next, Sequencer!Abort
    <2>. QED
      BY <1>2, <2>4, <2>5
  <1>. QED
    BY <1>1, <1>2, StepKinds

\* setCondition, RunActions and RunAction implement ActionSequencer.
THEOREM Refinement == Spec => SequencerSpec
  <1>1. Init => Sequencer!Init
    BY DEF Init, Sequencer!Init
  <1>. QED
    BY <1>1, StepRefines, Invariance, PTL DEF Spec, SequencerSpec, Sequencer!Spec

(***************************************************************************)
(* A single manager.                                                       *)
(***************************************************************************)
OneManager == \A m, n \in Managers : m = n

\* While its worker is inside RunActions the run is marked as running: nobody
\* else can store another condition.
StartingRuns == \A m \in Managers : w[m].pc = "start" => isRunning(run.cond)

\* A step that stores a condition: the worker goes on to start the actions only if
\* the condition is RunningAction.
LEMMA StoringRuns ==
  ASSUME IndInv, OneManager, NEW m \in Managers, NEW c \in CondStates, NEW after \in Worker,
         setCondition(m, c, after), after.pc = "start" => c = "running"
  PROVE  StartingRuns'
  <1>1. w'[m] = Idle \/ (w'[m] = after /\ run'.cond = c)
    BY SetConditionEffect
  <1>. QED
    BY <1>1, IdleWorker DEF OneManager, StartingRuns, isRunning

\* Every step of the manager and of its environment.
LEMMA StartingInd ==
  ASSUME IndInv, OneManager, StartingRuns, [Next]_vars
  PROVE  StartingRuns'
  <1>0. w \in [Managers -> Worker] /\ run \in [exists : BOOLEAN, cond : CondStates]
    BY DEF IndInv, TypeOK
  <1>1. ASSUME NEW m \in Managers, Reconcile(m) PROVE StartingRuns'
    <2>0. w[m] \in Worker
      BY <1>0
    <2>1. CASE FetchStop(m) \/ ListJobs(m) \/ Fetch(m) \/ ScanDone(m) \/ RunActionFails(m)
      <3>1. run' = run
        BY <2>1 DEF FetchStop, ListJobs, Fetch, ScanDone, RunActionFails
      <3>2. w'[m].pc = "start" => w[m].pc = "start"
        <4>1. CASE FetchStop(m)
          BY <4>1 DEF FetchStop
        <4>2. CASE ListJobs(m)
          BY <1>0, <2>0, <4>2 DEF ListJobs, Worker
        <4>3. CASE Fetch(m)
          BY <1>0, <4>3 DEF Fetch, Idle
        <4>4. CASE ScanDone(m)
          BY <1>0, <4>4, IdleWorker DEF ScanDone
        <4>5. CASE RunActionFails(m)
          BY <4>5 DEF RunActionFails
        <4>. QED
          BY <2>1, <4>1, <4>2, <4>3, <4>4, <4>5
      <3>. QED
        BY <3>1, <3>2 DEF OneManager, StartingRuns
    <2>2. CASE RunAction(m)
      BY <2>2 DEF RunAction, OneManager, StartingRuns
    <2>3. CASE ScanActive(m) \/ MarkFailed(m)
      BY <2>3, StoringRuns, IdleWorker DEF ScanActive, MarkFailed, CondStates
    <2>4. CASE ScanFinished(m)
      <3>1. PICK a \in Actions, c \in {"succeeded", "failed"} :
              setCondition(m, c, [Scanned(m, a) EXCEPT !.cond = c])
        BY <2>4 DEF ScanFinished
      <3>2. w[m].pc = "scan" /\ c \in CondStates
        BY <2>4 DEF ScanFinished, CondStates
      <3>3. /\ [Scanned(m, a) EXCEPT !.cond = c] \in Worker
            /\ [Scanned(m, a) EXCEPT !.cond = c].pc = "scan"
        BY <2>0, <3>2 DEF Scanned, Worker, JobStates
      <3>. QED
        BY <3>1, <3>2, <3>3, StoringRuns
    <2>5. CASE MarkRunning(m)
      <3>1. [w[m] EXCEPT !.pc = "start", !.cond = "running"] \in Worker
        BY <2>0 DEF Worker, CondStates
      <3>. QED
        BY <2>5, <3>1, StoringRuns DEF MarkRunning, CondStates
    <2>. QED
      BY <1>1, <2>1, <2>2, <2>3, <2>4, <2>5 DEF Reconcile
  <1>2. ASSUME \/ \E m \in Managers : SyncRun(m) \/ SyncJobs(m) \/ Resync(m) \/ Crash(m)
               \/ Environment \/ UNCHANGED vars
        PROVE  StartingRuns'
    <2>1. run'.cond = run.cond
      BY <1>0, <1>2 DEF SyncRun, SyncJobs, Resync, Crash, Environment, DepsAppear, EditRun,
                        DeleteRun, JobRuns, JobBacksOff, JobEnds, JobMoves, vars
    <2>2. \/ w' = w \/ w' = Outdated(w)
          \/ \E m \in Managers : w' = [w EXCEPT ![m] = Idle]
      BY <1>2 DEF SyncRun, SyncJobs, Resync, Crash, Environment, DepsAppear, EditRun,
                  DeleteRun, JobRuns, JobBacksOff, JobEnds, JobMoves, vars
    <2>3. \A m \in Managers : w'[m].pc = "start" => w[m].pc = "start"
      <3>1. CASE w' = Outdated(w)
        BY <1>0, <3>1, OutdatedWorkers
      <3>2. CASE \E m \in Managers : w' = [w EXCEPT ![m] = Idle]
        BY <1>0, <3>2, IdleWorker
      <3>. QED
        BY <2>2, <3>1, <3>2
    <2>. QED
      BY <2>1, <2>3 DEF StartingRuns
  <1>. QED
    BY <1>1, <1>2 DEF Next

\* With leader election, or a single replica, RunActions starts nothing for a run
\* that is marked as finished.
THEOREM NothingAfterTheEnd ==
  ASSUME OneManager
  PROVE  Spec => NoStartAfterFinished
  <1>1. Init => StartingRuns
    BY IdleWorker DEF Init, StartingRuns
  <1>2. IndInv /\ StartingRuns /\ [Next]_vars => StartingRuns'
    BY StartingInd
  <1>3. IndInv /\ StartingRuns /\ [Next]_vars => [started' # started => ~isFinished(run.cond)]_vars
    <2> SUFFICES ASSUME IndInv, StartingRuns, [Next]_vars, started' # started
                 PROVE  ~isFinished(run.cond)
      OBVIOUS
    <2>1. PICK m \in Managers : RunAction(m) \/ RunActionFails(m)
      BY StepKinds
    <2>. QED
      BY <2>1 DEF RunAction, RunActionFails, StartingRuns, isRunning, isFinished
  <1>. QED
    BY <1>1, <1>2, <1>3, Invariance, PTL DEF Spec, NoStartAfterFinished
==============================================================================
