------------------------------- MODULE Deployer -------------------------------
(***************************************************************************)
(* DeployApplication of the API server (cmd/api-server/applications, with  *)
(* the Vela dispatcher of cmd/api-server/providers): a request builds the  *)
(* manifest of the application from the components stored at that moment,  *)
(* makes the environment's namespace, and creates the Vela application or, *)
(* if there is one, reads its resource version and replaces it.  Requests  *)
(* overlap, with each other, with edits of the components and with Vela's  *)
(* own writes.  A manifest is the edit of the components it was built from.*)
(***************************************************************************)
EXTENDS Naturals, FiniteSets

CONSTANTS Requests,         \* PUT requests, each served once
          MaxEdits,         \* edits of the components
          MaxStatusWrites,  \* writes by Vela
          MaxFaults         \* failing calls

ASSUME BoundsAssumption ==
    MaxEdits \in Nat /\ MaxStatusWrites \in Nat /\ MaxFaults \in Nat
ASSUME RequestsAssumption == IsFiniteSet(Requests)

VARIABLES edit,             \* the stored components: edits so far
          namespace,        \* the namespace exists
          application,      \* the Vela application: its manifest, or None
          version,          \* its resource version
          request,          \* where each request is
          manifest,         \* what each has built
          seen,             \* the resource version each has read
          replaces,         \* the manifest each has read with it
          before,           \* the requests answered when each request began
          statusWrites, faults

vars == <<edit, namespace, application, version, request, manifest, seen,
          replaces, before, statusWrites, faults>>

None == MaxEdits + 1
Manifests == 0 .. None
Versions == 0 .. Cardinality(Requests) + MaxStatusWrites

Steps == {"begin", "build", "namespace", "create", "get", "update", "ok", "error"}

TypeOK ==
    /\ edit \in 0 .. MaxEdits /\ namespace \in BOOLEAN
    /\ application \in Manifests /\ version \in Versions
    /\ application = None <=> version = 0
    /\ request \in [Requests -> Steps]
    /\ manifest \in [Requests -> Manifests] /\ replaces \in [Requests -> Manifests]
    /\ seen \in [Requests -> Versions] /\ before \in [Requests -> SUBSET Requests]
    /\ statusWrites \in 0 .. MaxStatusWrites /\ faults \in 0 .. MaxFaults

Init ==
    /\ edit = 0 /\ namespace = FALSE /\ application = None /\ version = 0
    /\ request = [r \in Requests |-> "begin"]
    /\ manifest = [r \in Requests |-> None] /\ replaces = [r \in Requests |-> None]
    /\ seen = [r \in Requests |-> 0] /\ before = [r \in Requests |-> {}]
    /\ statusWrites = 0 /\ faults = 0

Goes(r, to) == request' = [request EXCEPT ![r] = to]

\* The client sends the request.
Begin(r) ==
    /\ request[r] = "begin" /\ Goes(r, "build")
    /\ before' = [before EXCEPT ![r] = {q \in Requests : request[q] \in {"ok", "error"}}]
    /\ UNCHANGED <<edit, namespace, application, version, manifest, seen, replaces,
                   statusWrites, faults>>

\* Mutant: the components are listed as they were some time ago.
BuildApplicationManifestStale(r) ==
    /\ request[r] = "build" /\ Goes(r, "namespace")
    /\ \E e \in 0 .. edit : manifest' = [manifest EXCEPT ![r] = e]
    /\ UNCHANGED <<edit, namespace, application, version, seen, replaces, before,
                   statusWrites, faults>>

\* Mutant: the error of the build is ignored.
BuildApplicationManifestIgnored(r) ==
    /\ request[r] = "build" /\ Goes(r, "namespace")
    /\ manifest' = [manifest EXCEPT ![r] = None]
    /\ UNCHANGED <<edit, namespace, application, version, seen, replaces, before,
                   statusWrites, faults>>

\* The components as they are stored.
ListComponents == edit

\* The environment is looked up, the components are listed and translated.
BuildApplicationManifest(r) ==
    /\ request[r] = "build" /\ Goes(r, "namespace")
    /\ manifest' = [manifest EXCEPT ![r] = ListComponents]
    /\ UNCHANGED <<edit, namespace, application, version, seen, replaces, before,
                   statusWrites, faults>>

\* A namespace that exists (409) is used.
createNamespace(r) ==
    /\ request[r] = "namespace" /\ Goes(r, "create")
    /\ namespace' = TRUE
    /\ UNCHANGED <<edit, application, version, manifest, seen, replaces, before,
                   statusWrites, faults>>

\* An application that exists (409) is to be updated instead.
DeployApplication(r) ==
    /\ request[r] = "create"
    /\ IF application = None
         THEN Goes(r, "ok") /\ application' = manifest[r] /\ version' = 1
         ELSE Goes(r, "get") /\ UNCHANGED <<application, version>>
    /\ UNCHANGED <<edit, namespace, manifest, seen, replaces, before, statusWrites, faults>>

GetApplication(r) ==
    /\ request[r] = "get" /\ Goes(r, "update")
    /\ seen' = [seen EXCEPT ![r] = version]
    /\ replaces' = [replaces EXCEPT ![r] = application]
    /\ UNCHANGED <<edit, namespace, application, version, manifest, before, statusWrites, faults>>

\* Mutant: the resource version is not set.
UpdateApplicationBlind(r) ==
    /\ request[r] = "update" /\ Goes(r, "ok")
    /\ application' = manifest[r] /\ version' = version + 1
    /\ UNCHANGED <<edit, namespace, manifest, seen, replaces, before, statusWrites, faults>>

\* The update succeeds if nothing was written since the read, and is not tried
\* again if something was.
UpdateApplication(r) ==
    /\ request[r] = "update"
    /\ IF seen[r] = version
         THEN Goes(r, "ok") /\ application' = manifest[r] /\ version' = version + 1
         ELSE Goes(r, "error") /\ UNCHANGED <<application, version>>
    /\ UNCHANGED <<edit, namespace, manifest, seen, replaces, before, statusWrites, faults>>

\* Any call of the handler fails, and it answers the error.
Fail(r) ==
    /\ request[r] \notin {"begin", "ok", "error"} /\ Goes(r, "error")
    /\ faults < MaxFaults /\ faults' = faults + 1
    /\ UNCHANGED <<edit, namespace, application, version, manifest, seen, replaces, before, statusWrites>>

\* CreateComponent, UpdateComponent and DeleteComponent change what is stored.
EditComponents ==
    /\ edit < MaxEdits /\ edit' = edit + 1
    /\ UNCHANGED <<namespace, application, version, request, manifest, seen, replaces, before,
                   statusWrites, faults>>

\* Vela writes the status of the application, which bumps its version.
VelaWrites ==
    /\ application # None /\ statusWrites < MaxStatusWrites
    /\ statusWrites' = statusWrites + 1 /\ version' = version + 1
    /\ UNCHANGED <<edit, namespace, application, request, manifest, seen, replaces, before, faults>>

Handle(r) ==
    \/ BuildApplicationManifest(r) \/ createNamespace(r) \/ DeployApplication(r)
    \/ GetApplication(r) \/ UpdateApplication(r) \/ Fail(r)

Next ==
    \/ \E r \in Requests : Begin(r) \/ Handle(r)
    \/ EditComponents \/ VelaWrites

Spec == Init /\ [][Next]_vars

-----------------------------------------------------------------------------
\* A deployment replaces only the manifest it has read: a manifest that another
\* request deployed in between makes it fail instead.
ReplacesWhatItRead ==
    [][\A r \in Requests :
          request[r] = "update" /\ request'[r] = "ok" => application = replaces[r]]_vars

\* A deployment takes the application back to an older manifest only if it
\* began before the deployment it replaces was answered: deployments that do not
\* overlap never undo each other's edits.
RollbackNeedsOverlap ==
    [][\A q, r \in Requests :
          /\ application # None /\ application' < application /\ manifest[q] = application'
          /\ request'[q] = "ok" /\ request[q] # "ok"
          /\ request[r] = "ok" /\ manifest[r] = application
          => r \notin before[q]]_vars
==============================================================================
