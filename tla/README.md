# Formal models of conure

TLA+ models, TLC configurations and TLAPS proofs for conure: the Kubernetes
controllers under `internal/controller/core` and the HTTP API server under
`cmd/api-server`. Paths below are relative to the repository root. Every
definition that models code is listed in `PROJECT.json` under `map` with the
lines it stands for.

## 1. Inventory

### The parts of the system

**Workflow controller** (`internal/controller/core/workflow`). Reconciles one
`WorkflowRun`. State: the run's status (one `Finished`/`Running` condition,
replaced as a whole by `setCondition`), the Jobs it owns. Operations: read the
run, its Application and Workflow; list the Jobs and derive a condition from
them; if nothing is active and the run is neither finished nor running, store
RunningAction and start every action of the Workflow (`RunActions`,
`RunAction`). Hard: the mark and the starts are separate calls; reads come from
a cache; leader election is off by default, so two managers may overlap.
Correct when the actions start once and in order, the condition tells how the
jobs ended, and every run ends.

**Application controller** (`internal/controller/core/application`). For every
component of an Application: create the `Component`, its `Workflow` and a
`WorkflowRun`; on a change update it, with a new run if the source changed;
copy the result of the run into the component's Workflow condition. State: the
Application's status, the component with its label (the run it belongs to) and
its conditions. Hard: each of some ten API calls may fail and the whole
reconciliation is then repeated from what the cache holds. Correct when a new
source never goes in without a run, the label names the newest run, the
component converges and the result is reported.

**Component controller** (`internal/controller/core/component`). Renders the
component, records the rendering in an annotation, applies its resources in
the order that `orderMap` gives their kinds, and on every reconciliation applies what the annotation records first.
It keeps the Ready condition in the object it shares with the application
controller. Hard: its own status writes wake it up again; a failure or a crash
between recording and applying. Correct when nothing is in the cluster that was
not recorded, resources come in their order, and the cluster converges.

**Conditions and hashing** (`internal/controller/core/common`). `ApplyStatus`
stores the caller's status under the newest resource version, up to five
attempts; the hash of a specification decides whether a component has changed.

**Component status** (`statusLoad`, `StatusApplication`, `StatusComponentHealth`,
`ComponentPods`, `StatusComponent` of `cmd/api-server/applications`, with the Vela
provider of `cmd/api-server/providers`). A row of reads, any of which ends the
request, then one call, or five goroutines that fill a response and share one
`err` variable; a channel brings the results to the handler. Hard: the data race,
a handler that leaves at the first error, and getters whose unchecked type
assertions panic where nothing recovers. Correct when every request is
answered, an error has a cause and a success a result.

**Log streaming** (`StreamLogs`, same directories). The same reads, then one
goroutine per pod, two unbuffered channels, a handler that writes to the client.
Hard: pods that end, also in the middle of a line, fail or fall silent while the
client leaves. Correct when no whole line is lost or repeated and errors and leaving
clients end the request.

**Deployer** (`DeployApplication`, `builder.go`, the Vela dispatcher). Builds a
manifest from the stored components and creates or replaces the Vela
application. Hard: overlapping requests, edits in between, Vela's own writes.

**Applications, environments and components** (`models`, `applications.go`,
`organizations.go`, `environment.go`, `components.go`). Documents in MongoDB: an
organization's applications, each with the list of its environments, and
components that name their application. Hard: every handler reads first, creating
an environment writes back the whole document it has read, and a component is
found by its id on any application's route. Correct when requests that do not
overlap lose nothing and what is deleted stays deleted.

**Variables and the encryption key** (`variables`, `models/variables.go`,
`routes/groups.go`, `main.go`). Servers share a Secret with the key, which the first
of them, or a command, makes; or one server keeps it in a file. Names are looked up
before they are inserted. Hard: the race for the key; a file that is written in two
steps; check-then-insert; errors taken for "not found". Correct when every stored
value can be decrypted and servers come up.

**Integrations** (`settings`, `models/integrations.go`). Credentials of an
organization, always encrypted under the same key; their names are not looked
up. Hard: they share the key's race with the variables.

**Users and authentication** (`auth`, `models/auth.go`, `middlewares`). A collection
of users; tokens that carry an email; login, change of the password, the check in
front of every other route, and two commands that create the superuser and reset
its password. Hard: every request decides from a copy of the user and then writes
without looking again; the email is looked up, then inserted. Correct when a
replaced password does not come back, a change needs the password it replaces, and
a token leads to the user who logged in.

**Kubernetes and Timoni helpers, API types and generated code, entry points**: see
section 7.

### How the parts interact

The API server writes to MongoDB and, on deployment, to the cluster. The
application controller owns Components, Workflows and WorkflowRuns; the
component controller is woken by the same Components and writes the same
status; the workflow controller works on the WorkflowRuns, and the application
controller reads how they ended. All controllers communicate only through the
API server, with optimistic locks, and see it through informer caches that lag.

### Hazards

`PROJECT.json` lists 40 of them at the line where they bite, with the properties
that would catch each going wrong.

## 2. Modules

| Module | Models | Extends |
|---|---|---|
| `ActionSequencer` | abstract: what a run promises about its actions | |
| `WorkflowRun` | workflow controller, API server, caches, jobs, faults | instantiates `ActionSequencer` |
| `WorkflowRunProofs` | theorems about `WorkflowRun` | `WorkflowRun`, `TLAPS` |
| `MCWorkflowRun` | symmetry for TLC | `WorkflowRun` |
| `ComponentObject` | the shared Component, its copies, `ApplyStatus`/Update/Patch | |
| `ComponentController` | component controller | `ComponentObject` |
| `ComponentSystem` | it, with the application controller's writes as environment | `ComponentController` |
| `MCComponentSystem` | the kinds of the rendered resources for TLC | `ComponentSystem` |
| `ComponentSystemProofs` | theorems about `ComponentSystem` | `ComponentSystem`, `TLAPS` |
| `ApplicationController` | application controller for one component | `ComponentObject` |
| `ApplicationSystem` | it, with the component controller's writes as environment | `ApplicationController` |
| `ApplicationSystemProofs` | theorems about `ApplicationSystem` | `ApplicationSystem`, `TLAPS` |
| `MCApplicationSystem` | view and combined bounds for TLC | `ApplicationSystem` |
| `StatusLoad` | the reads in front of every request about what is deployed; the requests with a single call | |
| `StatusFanOut` | component status with its goroutines | `StatusLoad` |
| `LogStreaming` | log streaming | `StatusLoad` |
| `ComponentRequests` | one request of any kind, from route to answer | `StatusFanOut`, `LogStreaming` |
| `ComponentRequestsProofs` | theorems about `ComponentRequests` | `ComponentRequests`, `TLAPS` |
| `Deployer` | deployer | |
| `DeployerProofs` | theorems about `Deployer` | `Deployer`, `TLAPS` |
| `ApplicationDocument` | organization, applications, environments and components | |
| `ApplicationDocumentProofs` | theorems about `ApplicationDocument` | `ApplicationDocument`, `TLAPS` |
| `MCApplicationDocument` | symmetry for TLC | `ApplicationDocument` |
| `VariableStore` | key under both strategies, boot, variables and integrations | |
| `VariableStoreProofs` | theorems about `VariableStore` | `VariableStore`, `TLAPS` |
| `Users` | users, tokens, passwords | |
| `UsersProofs` | theorems about `Users` | `Users`, `TLAPS` |
| `MCUsers` | symmetry for TLC | `Users` |

Each module opens with a comment on its state. Conventions:

* An action is one atomic step of the code: one API or database call with the
  computation around it. Operators keep the names of the functions they model.
* *Copies.* A resource version is only ever compared with the stored one, so a
  copy carries a bit `fresh` (nobody has written since it was read) instead of
  a number. An update under a resource version succeeds exactly from a fresh
  copy. A write that changes nothing keeps the version: a condition carries a
  time in seconds, so both outcomes are possible and both are modelled.
* *Caches.* Each manager's informer cache is a copy, brought up to date by a
  `Sync...` action at any later moment, which also queues the key. A crash
  drops worker and queue and lists everything anew.
* *Data.* A specification is a version number, a rendering the version it was
  made from, a key a number, a manifest the edit it was built from. Rendering
  and decoding are calls that succeed or fail.
* *Reduced list.* In `WorkflowRun` the jobs the loop does nothing for (no pods
  yet, or completed but not the last) are left out of the list when it is
  taken; they do not depend on anything that changes later.
* *External code* (API server, job controller, controller-runtime, Vela, pods,
  clients) is marked `external` in the map and modelled from how it is used.

Definitions commented *Mutant:* are not part of a specification. Each is a
plausible bug, recorded in `PROJECT.json` beside the property that catches it.

### Correspondence, module by module

`WorkflowRun`. `run.cond` is the status' only condition; `jobs[a]` the Job of
action `a`; `w[m].pc` the line of `Reconcile` where manager `m`'s worker is.
`FetchStop`/`Fetch`/`ListJobs` are the reads, `ScanActive`/`ScanFinished`/
`ScanDone` the loop over the jobs in any order, `MarkRunning` the mark,
`RunAction`/`RunActionFails` one turn of `RunActions`, `MarkFailed` its error
branch. `setCondition` has all outcomes of `Status().Update`: stored, conflict,
failed, stored with the answer lost. `started` and `aborted` are history.

`ComponentController`. `ReconcileDeployedObjects`, `SetRendering`,
`renderComponent`, `SetRenderingFailed/Succeed`, `ApplyRendered` and
`SetDeployingFailed` are the calls of one reconciliation in their order.
`Order[r]` is what `orderMap` holds for the kind of the r-th rendered resource (0
for a kind it does not know), `Before` the order of `sort.SliceStable`, and
`applyResources` one `ApplyObject` per step, the first resource of `todo` in that
order, any of which may be refused; it is used by `ApplyRecorded` for the
annotation's resources and by `ApplyRendered` for the new ones. A component
that came without annotations makes `renderComponent` panic.

`ApplicationController`. One action per API call of `createComponent`,
`updateComponent`, `runComponentWorkflow` and `updateWorkflowRunConditions`;
`apc` is the position. Versions in `SecondSource` have another source than the
others, so that an update with and one without a new run both occur.
`RunMoves` and `RunTurns` stand for the workflow controller: a run is marked running,
then finished, and the loop over its jobs can store another condition over a
Finished one, at most `MaxTurns` times. `EditApplication` stores any other version,
also one that was there before, at most `MaxEdits` times. In `ApplicationSystem` the
history variable `former` is the label before the last one.

`StatusLoad`. `load` is the read that comes next, `answer` what the handler has
answered; `statusLoad` is the row of reads, `Status` those of the provider.
`StatusApplication` does the same reads without a component. That a failure of the
first read is written to the response twice is left out. `found` is whether the
component is in the deployed application: each getter that asks for it fails if not.

`StatusFanOut`. `Assign` is the assignment of property and `err` in a
goroutine, `ReadErr` the evaluation of `err` in the send. The race leaves the
build free to reread the variable or to send the value just assigned; `ReadErr`
chooses either. `Panics` is an unchecked type assertion of a getter, or the decoding
of properties that are absent: no goroutine recovers, so the process ends, and
with it the request.

`LogStreaming`. `StreamLogs` lists the pods and starts the goroutines; `OpenLog` and `ReadLog` are the goroutine of a pod, `CheckClient`,
`SelectLine` and `SelectError` a round of `c.Stream`. The goroutine's sends do
not watch the context; its reads do. A log may end without a line end (`cut`):
`ReadString` then returns the last line together with the error, and it is dropped.

`Deployer`. `Begin` ... `UpdateApplication` are the handler's calls; `before` is
history (which requests had been answered when this one began).

`ApplicationDocument`. Reading and writing are separate actions of a request;
`CreateEnvironment` stores the list it has read, `DeleteEnvironmentByName` pulls
from the list that is stored. `UpdateComponent` stores the component under the
application of its route, as the code does, so it may move it. `promised`,
`removed` and `overlap` are history.

`VariableStore`. `GenerateRouter`, then `Save` (Secret) or `OpenFile` and `WriteFile`
(file) are the boot; `createSecretKey` is the command; `checkVariable`,
`EncryptValue` and `Insert` are the steps of `CreateVariable`; an integration skips
the check. A lost answer to `Save` restarts the server although its key is stored.
`os.WriteFile` truncates and then writes: `Torn` is the file in between. `since`
records how much a lookup saw, `lost` that a key in use was overwritten.

`Users`. Login, change and reset are each a reading and a writing action;
`CheckCurrentUser` and `CheckAuthenticatedUser` are the middlewares, `CreateLookup`
and `CreateUser` the two calls of `User.Create`. A hash is a password and a salt, so
that two hashes of one password differ as they do in the code. `account`, `old`,
`overlap`, `since` and `retired` are history.

## 3. Runs

Twelve runs; all bounds are CONSTANTS in the cfg files.

| Run | Bounds | What it shows |
|---|---|---|
| `run_one_manager` | 1 manager, 2 actions, 1 fault of 5 kinds | No action starts after the run is finished; `WorkflowRun` implements `ActionSequencer`; as long as nothing fails a claimed run goes through its actions and every run ends finished. |
| `run_two_managers` | 2 managers, 1 action, 2 faults | Actions start in order and once, a Finished condition is true, and no stale reconciliation takes it back. |
| `run_crash_leaves_run_stuck` | 1 manager, 1 action, 1 crash | Violation, see section 6. |
| `component` | 2 specifications, 4 resources of which 2 are of one kind and 1 of an unknown one, 2 faults, with and without annotations | Recorded before applied, applied in the order of `orderMap`, deployed in the end. |
| `application_safe` | 3 versions (source A, B, A), 2 runs, calls may fail, 2 edits or 1 and a foreign write | A new source comes with a new label, labels only grow, a run that was created in vain is never reported. |
| `application_live` | 2 versions with two sources, 3 runs, no failing call; 1 edit, or 1 foreign write and 1 turn of a finished run | The specification converges; a labelled component does not stay triggered or running, unless a foreign write took its Workflow condition away. |
| `application_no_run` | 1 version | Violation, see section 6. |
| `component_requests` | every kind of request; the 5 getters; 3 pods, 2 lines each | Every request but a stream is answered, unless a getter panics; no invented error, no success without a component or with nothing in it, no send on a closed channel; no line repeated, and none lost but an unterminated last one; errors and leaving clients end a stream. |
| `deployer` | 3 requests, 2 edits, 1 Vela write, 1 fault | Replaces only what it read; only overlapping requests roll an edit back. |
| `document` | 2 requests, 2 applications, 2 names, 2 environments, 2 components | A deleted component stays deleted, whichever route its updates are on; only an overlap with a creation in the same application loses or revives an environment. |
| `variable_store` | both strategies, 2 servers, 2 requests, 1 name, 2 documents, 4 keys, 1 fault | What is stored is under the key that is kept, unless a key file could not be read; duplicates only by overlap or failed lookup; every server comes up, with a key it can use if nothing failed. |
| `users` | 2 requests, 2 emails, 2 passwords of which 1 may be chosen, 2 users, 4 hashes | The hash of a replaced password does not come back; a change needs the password it replaces unless another came in between; a token leads to its user unless creations overlapped or a lookup failed. |

Why these bounds. Conflicts, stale reads and lost updates take two actors and
one write between a read and a write; every run has them. Two managers with one
action and two faults is where a second start would come from (a crash of one,
a lost answer of the other); the order of several actions concerns the single
worker inside `RunActions` and is checked with two actions and proved for any
number. Four resources have a kind that is rendered before one it has to follow, two
of one kind and one that `orderMap` does not know. Versions A, B, A are the
shortest sequence in which a source comes back; an edit may also go back to the
very version that the cache still holds. With two runs `ReportsLabelledRun` tells a
run that is not labelled from one that is; that the cache is never two labels behind
is left to the theorem. Edits are combined with at most one foreign write in
`application_safe` and with none in `application_live`: every further one multiplies
the states by ten or more, through the copy that the other controller holds. The
properties of `application_safe` do not depend on how a run ended, so runs do
not turn there. Three deployments are needed
for one to roll back a second that began after a third. Three pods let two
queue behind the one that fails. Two applications are what a component can move
between. `MaxKeys` is what two servers, the command and one fault can generate, so
the bound is never what stops a boot. Four hashes are a creation, a second one or a
change, and two writes that overlap it; every write of `Users` happens between
another request's reading and writing with two requests under way. In `application_live` three
runs are as many as one edit causes: the creation's, the update's, and the one that
an update from an outdated copy repeats.

`CHECK_DEADLOCK FALSE` is used where the system may stop: a deleted run, a
served set of requests, a cluster with nothing left to do.

`application_safe` uses a view that leaves out what is overwritten before it is
read; the comment of `MCApplicationSystem` gives the argument.
`run_two_managers` uses the symmetry of managers, `document` that of requests,
applications and names, `users` that of requests and emails; none of them has a
liveness property, and `Users` tells the passwords apart.

## 4. Fairness

* *Controllers*: weak fairness of the worker (controller-runtime workers keep
  taking keys; a reconciliation runs to its end), of the watches and of resync or
  `RequeueAfter` (both configured by the library or the code). No fairness of
  faults, edits or deletion.
* *Jobs*: weak fairness that a pending job's pods run, strong fairness that a
  job ends, because its back-off limit ends the loop between pods that fail
  and pods that are started again.
* *Readable dependencies*: the Application and the Workflow a run names are created
  by the application controller before or soon after the run.
* *API server*: weak fairness of goroutines and of calls that return. A log may
  stay silent for ever, so reading a log is only fair once its context is
  cancelled; a client need not leave, an operator need not edit.
* *Boot*: a server that panics is restarted, by its Deployment or its operator.

`FinishedEventually` and `SequencerProgress` are stated for behaviours in which
no fault happens (`faults = MaxFaults` throughout): section 6 shows that one
crash is enough to break them.

## 5. Proofs

Every invariant and every safety action property that a run checks is
also a theorem, for every value of the constants that the named assumptions
allow. Each component's theorems are in a module of their own and have the same
shape: `IndInv` is the inductive invariant, `InitInd` and `NextInd` show that
it holds at first and is kept, `Invariance` is `Spec => []IndInv`, and the results
follow from it.

| Module | Theorem | States |
|---|---|---|
| `WorkflowRunProofs` | `TypeCorrect` | `Spec => []TypeOK` |
| | `StartsOnce` | `Spec => []StartedInOrderOnce` |
| | `FinishedTruth` | `Spec => []FinishedIsTrue` |
| | `FinishedStays` | `Spec => FinishedIsFinal` |
| | `NothingAfterTheEnd` | `Spec => NoStartAfterFinished`, if there is one manager |
| | `Refinement` | `Spec => SequencerSpec`: `ActionSequencer!Spec` with claimed = marked, count = jobs created |
| `ComponentSystemProofs` | `TypeCorrect` | `Spec => []TypeOK` |
| | `AppliesWhatIsRecorded` | `Spec => []RecordedBeforeApplied` |
| | `AppliesInOrder` | `Spec => AppliedInOrder` |
| `ApplicationSystemProofs` | `TypeCorrect` | `Spec => []TypeOK` |
| | `LabelsAdvance` | `Spec => LabelNamesNewest` |
| | `SourcesAdvance` | `Spec => SourceMovesWithRun` |
| | `ReportsLabelled` | `Spec => ReportsLabelledRun` |
| `ComponentRequestsProofs` | `TypeCorrect` | `Spec => []TypeOK` |
| | `ClosedIsSafe` | `Spec => []NoSendAfterClose` |
| | `ErrorsAreReal` | `Spec => []ErrorHasCause` |
| | `SuccessesAreReal` | `Spec => []OkHasAResult` |
| | `OnlyLastLineLost` | `Spec => []LinesInOrder` |
| `DeployerProofs` | `TypeCorrect` | `Spec => []TypeOK` |
| | `ReplacesRead` | `Spec => ReplacesWhatItRead` |
| | `RollbacksOverlap` | `Spec => RollbackNeedsOverlap` |
| `ApplicationDocumentProofs` | `TypeCorrect` | `Spec => []TypeOK` |
| | `DeletionLasts` | `Spec => []DeletedComponentStays` |
| | `OnlyOverlapLoses` | `Spec => []LostOnlyByOverlap` |
| `VariableStoreProofs` | `TypeCorrect` | `Spec => []TypeOK` |
| | `StoredIsDecryptable` | `Spec => []Decryptable` |
| | `ClashesOverlap` | `Spec => []DuplicatesOverlap` |
| `UsersProofs` | `TypeCorrect` | `Spec => []TypeOK` |
| | `RetirementLasts` | `Spec => []RetiredStaysRetired` |
| | `TokensAct` | `Spec => []TokenActsAsItself` |
| | `ChangesCompare` | `Spec => ChangeNeedsPassword` |

*Assumptions.* The bounds (runs, turns, writes, faults, edits, keys, documents, users,
hashes, lines) are naturals; there is at least one action, one specification and
one resource; the fault kinds of a workflow run are known; versions with the second
source are versions, and strong passwords are passwords; `NoEvent` is not a pod. Two of
them are there for the proofs: `RequestsAssumption` (the requests of a deployer
are finitely many, because the resource version counts the ones that succeeded)
and `ServersAssumption` (there is a server, which the key file belongs to). All
are in the modules that declare the constants, and TLC evaluates them.

None of the properties but the simplest is inductive alone. What each `IndInv`
adds, and why:

`WorkflowRun`. `FreshCopies` (a fresh copy agrees with the stored run, so that the test for a
mark and its storing are one decision), `Unclaimed` (before the mark nobody has
started anything), `OneStarter` (one worker at most is inside `RunActions`, and it
is at the first action not yet started), `JobsOfStarted` (an action not started has
no job, so a job that ended stays as it ended) and `ListsAreTrue` (a job that ended, in
a cache or a worker's list, really ended so: lag never invents an end).
The argument for `StartsOnce`: a start needs a worker at `start`; it gets there
only by storing the mark from a fresh copy that had none; by `FreshCopies` the
stored run had none either, by `Unclaimed` nothing was started; the write makes
every other copy stale, so no one else can follow. `SetConditionEffect` and
`SetConditionInd` treat all outcomes of a status update once; `ReconcileInd` and
`OtherInd` go through the actions. `NothingAfterTheEnd` is the one theorem with a hypothesis,
`OneManager`: with two, one manager may store that a job failed while the other
is still inside `RunActions`. It adds `StartingRuns` (inside `RunActions` the run is
marked as running). `StepRefines` maps each step to a step of
`ActionSequencer` or a stutter.

`ComponentSystem`. `CachedAfterStored` (the cache knows of no component before there
is one), `WorksOnSomething` (what is queued or reconciled is in the cache) and
`AnnotationsRecorded` (an annotation, in whichever copy, and a rendering about to be
applied are ones the component has held). Both ways of applying, the annotation's
and the rendering's, are then one lemma, `ApplyInd`. `AppliesInOrder` needs
`AppliedSoFar`: the resources of this pass that are no longer to do are deployed as
the rendering has them. `ApplyFacts` says that a step applies one resource that
nothing left to do comes before in the sorted order; whatever comes before it was
therefore applied earlier in the same pass.

`ApplicationSystem`. `CopiesTrue` (a copy that is up to date equals the stored
component), `RunsNumbered` (runs have the numbers 1 to n, the label is one of
them or 0) and `WorkerSound` (a run the worker has created is newer than the label;
where it updates without one, its copy has the source it wants). The first two
action properties come from `Moves`, which every step is shown to satisfy together
with the invariant: an update succeeds only from a copy that is up to date, so a
label that it keeps is the stored one and a source that its copy has is the stored
one, whatever the worker compared when the reconciliation began. `ReportsLabelled`
needs a second invariant, `Recent`: the cache has the label or the one before it.
A label is written only from a copy that is up to date; such a copy was read from
the cache, or refreshed by `ApplyStatus`, which succeeds only while the cache is up
to date, so that at this moment the cache has the label that is replaced.

`ComponentRequests`. `Started` and `Assigned` (what runs when), `Counted` (the handler has one result of each
goroutine that ended, so that five are all of them: `NoSendAfterClose`), and
`ErrorsFromNil` and `SuccessFromSet` (whoever wrote `err` last, what is in it, or
was read from it, some getter had): the race may misattribute a result but not invent one.
A getter that panics ends the process and with it every step, so it weakens none of
these. `OnlyLastLineLost` follows the lines of a pod from reading to the client; the
one line that may be missing is an unterminated last one, which the reader drops.

`Deployer`. `VersionCounts` (the version is the number of successful deployments and of Vela's
writes), `ManifestsStored`, `ReadTogether` (a request that has read the
current version has read the current manifest) and `BuiltLater` (a request that
began after another was answered builds from components at least as new).

`ApplicationDocument`. `CreationsHoldTheList` (a creation holds the stored list of
environments unless it overlapped), `EmptyUntilStored` and `IdsGiven` (ids are never
given twice, so an insert revives nothing).

`VariableStore`. `OneWriter` (only the one server with a key file writes it, and it
is empty meanwhile), `ValuesKept` (what was encrypted, pending or stored, is under
the key that is kept unless one was lost), `IntegrationsEncrypted`,
`CheckedRequests` (a variable that clashes with a checked request was inserted after
its lookup) and `IdsCounted`.

`Users`. `UsersCounted` (ids are different and count the insertions), `TokensNamed`,
`EmailsOverlap`, `RequestsSound` (what a request has read is still true, its
password unless it was written since) and `SaltsFresh` (hashes in use, about to be
written and retired are different). `SameUsers` shows that replacing a hash keeps
the number of users.

*Only model-checked*: liveness (`Answered`, `LeavingEndsRequest`, `ErrorEndsRequest`,
`EveryServerUp`, `DeployedEventually`, `SpecConverges`, `ResultIsReported`,
`SequencerProgress`, `FinishedEventually`), which is out of this prover's reach, as is
ENABLED; and the two runs that show a violation.

## 6. What the models show that a reader might not expect

Two disagreements with comments in the code are runs of their own:

* `run_crash_leaves_run_stuck`: the comment "If there are no active jobs and the
  run is not marked as finished, run the actions" does not hold once a manager
  died between the mark and the first job: the run stays marked and not started.
  A lost answer to the mark, or a conflict while a failure is stored, has the same end.
* `application_no_run`: "If the component does not exist, create it and run its
  workflow" does not hold when the cache has not seen the new component in time
  for the first status write. The next reconciliation finds nothing to do.

Known limits that are in the models as steps, and in front of which the
properties stop:

* the loop over the jobs can store Finished and then RunningAction when an active
  job comes after the completed last one (`FinishedIsFinal` exempts it);
* `ApplyStatus` stores a whole status that may be older than its resource
  version, so one controller can take back the other's condition;
* a component without annotations is never deployed (`DeployedEventually` is
  conditional);
* a status that is taken back so far that the Workflow condition is none is never
  brought up to date again: the run is not looked up (`ResultIsReported` exempts it);
* a repeated update makes a second WorkflowRun for one change of the source. What a
  component reports is the state of the run of its label or of the label before it, at
  the moment it was looked up; the run may turn afterwards, as the first limit says;
* kinds that the order of kinds does not name are applied before all others;
* a status response can be OK with some properties missing; after an error the
  remaining goroutines wait for ever on the channel;
* a getter whose unchecked type assertion fails panics in a goroutine without a
  recover and ends the server process (`Answered` exempts it);
* a last log line without a newline is dropped;
* a log request whose pods all ended silently does not notice that its client left;
* overlapping creations of environments lose one, or bring a deleted one back;
* an update of a component on another application's route moves it there;
* a server that dies while it writes the key file leaves an empty one, which is
  accepted for ever after and with which every encrypted value is refused;
* a key file that exists and cannot be read is replaced, and the values under its
  key are lost (`Decryptable` exempts it through `lost`);
* a change of the password that overlaps a reset undoes it with the older password
  (`ChangeNeedsPassword` exempts the overlap); tokens stay valid after both;
* two users of one email come from overlapping creations, or from a lookup that
  failed; a token then leads to either of them. A password that is retired can be
  chosen again: `RetiredStaysRetired` is about hashes;
* nothing refuses a second component of a name, although
  `TestComponent_Create_Duplicate` expects it;
* a conflict while replacing the Vela application is answered as an error and
  not retried.

## 7. Not modelled

* *The external authentication strategy*: one call of another service, whose answer
  is the user; it keeps no state here.
* *Lists and details* of organizations, applications and components: they read and
  answer. What listing variables needs of the key is in `Decryptable`.
* *Methods of the models that no route calls* (deletion of users, organizations and
  applications, `DeleteEnvironmentByID`): only tests use them.
* *The controllers composed over one component.* Each of the two systems has the
  other controller's kinds of writes as its environment: `ApplicationSystem` a bounded
  number of status writes and annotation patches from cached copies, at any time;
  `ComponentSystem` new specifications and status writes from the stored object, so an
  application controller that takes back a Ready condition from an older copy is seen
  from `ApplicationSystem` only. Both systems in one state space (each with hundreds of
  thousands of states, nearly independent) are out of TLC's reach in minutes.
* *What a deployment contains of the documents*: `Deployer` has the edits of the
  components as steps of their own; their content is a version.
* *Kubernetes and Timoni helpers, API types, generated clients, entry points*: no
  state of their own. From the entry points two facts are used: leader election
  is off by default, and the workflow controller is not in the list of
  controllers that `internal/controller/core/setup.go` sets up.
* A Workflow with no action (the index -1 panics in every reconciliation).
* Collisions of the specification's hash.

## 8. Plan

Done: 1. `WorkflowRun` with its abstract specification and proofs. 2. The two
other controllers over the shared component. 3. The API server's concurrent
handlers, composed in `ComponentRequests`. 4. Documents of several applications,
deployment. 5. Variables and integrations under both key strategies. 6. Users.
7. Proofs of the safety properties of every component, each in a module beside
the one it is about.

Next:

* Abstract specifications of the other components, as `ActionSequencer` is one of
  the workflow controller, where they say more than the invariants do: the
  encryption key as a value that is written once, a status request as one that
  is answered with some subset of its results.

## 9. Running

    tlc -workers 2 -config WorkflowRun_one.cfg MCWorkflowRun
    tlapm WorkflowRunProofs.tla

and likewise for the seven other modules whose name ends in `Proofs`; each takes
from a few seconds to a few minutes.

Each cfg file names its module by its prefix (`MC` modules for `WorkflowRun`,
`ApplicationSystem`, `ComponentSystem`, `ApplicationDocument` and `Users`). The largest
run, `application_safe`, has about one million states; `application_live` and
`variable_store` take one to two minutes, the others less than one.
