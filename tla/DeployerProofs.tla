---------------------------- MODULE DeployerProofs ----------------------------
(***************************************************************************)
(* Safety of DeployApplication for every finite set of requests, and any   *)
(* number of edits, writes by Vela and failing calls.                      *)
(***************************************************************************)
EXTENDS Deployer, FiniteSetTheorems, TLAPS

(***************************************************************************)
(* The inductive invariant.                                                *)
(***************************************************************************)
\* The steps at which a request holds a manifest.
Built == {"namespace", "create", "get", "update", "ok"}

Succeeded == {r \in Requests : request[r] = "ok"}

\* The resource version counts what was written.
VersionCounts == version = Cardinality(Succeeded) + statusWrites

\* A manifest was made of components that were stored at some time.
ManifestsStored == \A r \in Requests : request[r] \in Built => manifest[r] <= edit

\* What a request has read belongs to the version it has read.
ReadTogether ==
    \A r \in Requests :
        request[r] = "update" =>
            /\ seen[r] <= version
            /\ seen[r] = version => replaces[r] = application

\* A request that began after another was answered has a manifest at least as new.
BuiltLater ==
    \A q \in Requests : \A r \in before[q] :
        /\ request[r] \in {"ok", "error"}
        /\ request[q] \in Built /\ request[r] = "ok" => manifest[r] <= manifest[q]

IndInv == TypeOK /\ VersionCounts /\ ManifestsStored /\ ReadTogether /\ BuiltLater

(***************************************************************************)
(* Counting the deployments that succeeded.                                *)
(***************************************************************************)
\* One more request is answered with success: the count grows by one.
LEMMA OneMoreSucceeds ==
  ASSUME TypeOK, NEW r \in Requests, request[r] # "ok", Goes(r, "ok")
  PROVE  Cardinality(Succeeded') = Cardinality(Succeeded) + 1
  <1>1. Succeeded' = Succeeded \cup {r} /\ r \notin Succeeded
    BY DEF TypeOK, Goes, Succeeded, Steps
  <1>2. IsFiniteSet(Succeeded)
    BY RequestsAssumption, FS_Subset DEF Succeeded
  <1>. QED
    BY <1>1, <1>2, FS_AddElement

\* Any other step of a request leaves the count.
LEMMA NoneSucceeds ==
  ASSUME TypeOK, NEW r \in Requests, request[r] # "ok", NEW to \in Steps \ {"ok"}, Goes(r, to)
  PROVE  Succeeded' = Succeeded
  BY DEF TypeOK, Goes, Succeeded, Steps

\* There are no more successes than requests.
LEMMA SuccessesBounded ==
  /\ Cardinality(Requests) \in Nat
  /\ Cardinality(Succeeded) \in 0 .. Cardinality(Requests)
  /\ Cardinality(Succeeded') \in 0 .. Cardinality(Requests)
  BY RequestsAssumption, FS_Subset, FS_CardinalityType DEF Succeeded

(***************************************************************************)
(* Every step preserves the invariant.                                     *)
(***************************************************************************)
\* Before the first request everything holds.
LEMMA InitInd == Init => IndInv
  <1> SUFFICES ASSUME Init PROVE IndInv
    OBVIOUS
  <1>1. TypeOK
    <2>1. namespace \in BOOLEAN /\ (application = None <=> version = 0)
      BY DEF Init
    <2>. QED
      BY <2>1, SuccessesBounded, BoundsAssumption
      DEF Init, TypeOK, None, Manifests, Versions, Steps
  <1>2. VersionCounts
    <2>1. Succeeded = {}
      BY DEF Init, Succeeded
    <2>. QED
      BY <2>1, FS_EmptySet DEF Init, VersionCounts
  <1>. QED
    BY <1>1, <1>2 DEF Init, IndInv, ManifestsStored, ReadTogether, BuiltLater, Built

\* The steps of a request that write nothing but what the request holds.
LEMMA QuietInd ==
  ASSUME IndInv, NEW r \in Requests, 
         Begin(r) \/ BuildApplicationManifest(r) \/ createNamespace(r) \/ GetApplication(r) \/ Fail(r)
  PROVE  IndInv'
  <1>0. TypeOK /\ VersionCounts /\ ManifestsStored /\ ReadTogether /\ BuiltLater
    BY DEF IndInv
  <1>a. namespace' \in BOOLEAN /\ (application' = None <=> version' = 0)
    BY <1>0 DEF TypeOK, Begin, BuildApplicationManifest, createNamespace, GetApplication, Fail
  <1>1. TypeOK'
    BY <1>0, <1>a, BoundsAssumption
    DEF TypeOK, Begin, BuildApplicationManifest, ListComponents, createNamespace, GetApplication,
        Fail, Goes, Steps, Manifests, None
  <1>2. Succeeded' = Succeeded
    BY <1>0, NoneSucceeds
    DEF Begin, BuildApplicationManifest, createNamespace, GetApplication, Fail, Steps
  <1>3. VersionCounts'
    BY <1>0, <1>2
    DEF VersionCounts, Begin, BuildApplicationManifest, createNamespace, GetApplication, Fail
  <1>4. ManifestsStored'
    BY <1>0 DEF TypeOK, ManifestsStored, Built, Goes, Begin, BuildApplicationManifest,
                ListComponents, createNamespace, GetApplication, Fail
  <1>5. ReadTogether'
    BY <1>0, SuccessesBounded, BoundsAssumption
    DEF TypeOK, ReadTogether, Goes, Versions, Begin, BuildApplicationManifest, createNamespace,
        GetApplication, Fail
  <1>6. BuiltLater'
    BY <1>0 DEF TypeOK, BuiltLater, ManifestsStored, Built, Goes, Manifests, Begin,
                BuildApplicationManifest, ListComponents, createNamespace, GetApplication, Fail
  <1>. QED
    BY <1>1, <1>3, <1>4, <1>5, <1>6 DEF IndInv

\* A request whose Create or Update is accepted, and what it leaves behind.
LEMMA StoreInd ==
  ASSUME IndInv, NEW r \in Requests, request[r] \in {"create", "update"}, Goes(r, "ok"),
         application' = manifest[r], version' = version + 1,
         UNCHANGED <<edit, namespace, manifest, seen, replaces, before, statusWrites, faults>>
  PROVE  IndInv'
  <1>0. TypeOK /\ VersionCounts /\ ManifestsStored /\ ReadTogether /\ BuiltLater
    BY DEF IndInv
  <1>1. Cardinality(Succeeded') = Cardinality(Succeeded) + 1
    BY <1>0, OneMoreSucceeds
  <1>2. manifest[r] <= edit /\ manifest[r] \in 0 .. MaxEdits
    BY <1>0, BoundsAssumption DEF ManifestsStored, Built, TypeOK, Manifests, None
  <1>3. VersionCounts' /\ version' \in Versions /\ version' # 0 /\ version' > version
    BY <1>0, <1>1, SuccessesBounded, BoundsAssumption DEF VersionCounts, TypeOK, Versions
  <1>4. namespace' \in BOOLEAN /\ (application' = None <=> version' = 0)
    BY <1>0, <1>2, <1>3, BoundsAssumption DEF TypeOK, None
  <1>5. TypeOK'
    BY <1>0, <1>2, <1>3, <1>4, BoundsAssumption DEF TypeOK, Goes, Steps, Manifests, None
  <1>6. ManifestsStored' /\ BuiltLater'
    BY <1>0 DEF TypeOK, ManifestsStored, BuiltLater, Goes, Built, Steps
  <1>7. ReadTogether'
    BY <1>0, <1>3, SuccessesBounded, BoundsAssumption
    DEF TypeOK, ReadTogether, Goes, Steps, Versions
  <1>. QED
    BY <1>3, <1>5, <1>6, <1>7 DEF IndInv

\* A request whose Create or Update is refused.
LEMMA RefusedInd ==
  ASSUME IndInv, NEW r \in Requests, NEW to \in {"get", "error"},
         request[r] \in {"create", "update"}, Goes(r, to),
         UNCHANGED <<edit, namespace, application, version, manifest, seen, replaces, before,
                     statusWrites, faults>>
  PROVE  IndInv'
  <1>0. TypeOK /\ VersionCounts /\ ManifestsStored /\ ReadTogether /\ BuiltLater
    BY DEF IndInv
  <1>1. Succeeded' = Succeeded
    BY <1>0, NoneSucceeds DEF Steps
  <1>2. VersionCounts'
    BY <1>0, <1>1 DEF VersionCounts
  <1>3. TypeOK'
    BY <1>0 DEF TypeOK, Goes, Steps
  <1>4. ManifestsStored' /\ ReadTogether' /\ BuiltLater'
    BY <1>0 DEF TypeOK, ManifestsStored, ReadTogether, BuiltLater, Goes, Built, Steps
  <1>. QED
    BY <1>2, <1>3, <1>4 DEF IndInv

\* Edits of the components and Vela's writes.
LEMMA EnvironmentInd ==
  ASSUME IndInv, EditComponents \/ VelaWrites
  PROVE  IndInv'
  <1>0. TypeOK /\ VersionCounts /\ ManifestsStored /\ ReadTogether /\ BuiltLater
    BY DEF IndInv
  <1>1. Succeeded' = Succeeded
    BY DEF EditComponents, VelaWrites, Succeeded
  <1>2. VersionCounts'
    BY <1>0, <1>1, SuccessesBounded DEF VersionCounts, EditComponents, VelaWrites, TypeOK
  <1>3. namespace' \in BOOLEAN /\ (application' = None <=> version' = 0)
    BY <1>0, SuccessesBounded, BoundsAssumption DEF TypeOK, EditComponents, VelaWrites, Versions
  <1>4. version' \in Versions /\ statusWrites' \in 0 .. MaxStatusWrites /\ version' >= version
    BY <1>0, <1>1, <1>2, SuccessesBounded, BoundsAssumption
    DEF TypeOK, EditComponents, VelaWrites, Versions, VersionCounts
  <1>5. TypeOK'
    BY <1>0, <1>3, <1>4, BoundsAssumption DEF TypeOK, EditComponents, VelaWrites
  <1>6. ManifestsStored' /\ BuiltLater'
    BY <1>0, BoundsAssumption
    DEF TypeOK, ManifestsStored, BuiltLater, EditComponents, VelaWrites, Manifests, None
  <1>7. ReadTogether'
    BY <1>0, SuccessesBounded, BoundsAssumption
    DEF TypeOK, ReadTogether, EditComponents, VelaWrites, Versions
  <1>. QED
    BY <1>2, <1>5, <1>6, <1>7 DEF IndInv

\* Every step preserves the invariant.
LEMMA NextInd == IndInv /\ [Next]_vars => IndInv'
  <1> SUFFICES ASSUME IndInv, [Next]_vars PROVE IndInv'
    OBVIOUS
  <1>0. TypeOK
    BY DEF IndInv
  <1>1. ASSUME NEW r \in Requests, DeployApplication(r) PROVE IndInv'
    <2>1. CASE application = None
      <3>1. version = 0 /\ version' = version + 1
        BY <1>0, <1>1, <2>1 DEF TypeOK, DeployApplication
      <3>. QED
        BY <1>1, <2>1, <3>1, StoreInd DEF DeployApplication
    <2>2. CASE application # None
      BY <1>1, <2>2, RefusedInd DEF DeployApplication
    <2>. QED
      BY <2>1, <2>2
  <1>2. ASSUME NEW r \in Requests, UpdateApplication(r) PROVE IndInv'
    BY <1>2, StoreInd, RefusedInd DEF UpdateApplication
  <1>3. CASE UNCHANGED vars
    BY <1>3 DEF vars, IndInv, TypeOK, VersionCounts, Succeeded, ManifestsStored, ReadTogether,
                BuiltLater
  <1>. QED
    BY <1>1, <1>2, <1>3, QuietInd, EnvironmentInd DEF Next, Handle

(***************************************************************************)
(* The theorems.                                                           *)
(***************************************************************************)
\* The strengthened invariant holds in every reachable state.
THEOREM Invariance == Spec => []IndInv
  BY InitInd, NextInd, PTL DEF Spec

\* The state of the deployer is well typed: no request deploys a manifest that it
\* has not built, and the version counts what was written.
THEOREM TypeCorrect == Spec => []TypeOK
  <1>1. IndInv => TypeOK
    BY DEF IndInv
  <1>. QED
    BY <1>1, Invariance, PTL

\* Who is answered with success in a step, and from where.
LEMMA AnsweredStep ==
  ASSUME IndInv, [Next]_vars, NEW r \in Requests, request[r] # "ok", request'[r] = "ok"
  PROVE  /\ request[r] \in {"create", "update"}
         /\ request[r] = "create" => application = None
         /\ request[r] = "update" => seen[r] = version
  <1>0. TypeOK
    BY DEF IndInv
  <1>1. ASSUME NEW q \in Requests, Begin(q) \/ Handle(q)
        PROVE  /\ request[r] \in {"create", "update"}
               /\ request[r] = "create" => application = None
               /\ request[r] = "update" => seen[r] = version
    BY <1>0, <1>1
    DEF TypeOK, Steps, Begin, Handle, BuildApplicationManifest, createNamespace, DeployApplication,
        GetApplication, UpdateApplication, Fail, Goes
  <1>2. CASE EditComponents \/ VelaWrites \/ UNCHANGED vars
    BY <1>2 DEF EditComponents, VelaWrites, vars
  <1>. QED
    BY <1>1, <1>2 DEF Next

\* UpdateApplication replaces only the manifest that GetApplication has read.
THEOREM ReplacesRead == Spec => ReplacesWhatItRead
  <1>1. ASSUME IndInv, [Next]_vars, NEW r \in Requests, request[r] = "update", request'[r] = "ok"
        PROVE  application = replaces[r]
    BY <1>1, AnsweredStep DEF IndInv, ReadTogether
  <1>2. IndInv /\ [Next]_vars
          => [\A r \in Requests : request[r] = "update" /\ request'[r] = "ok"
                 => application = replaces[r]]_vars
    BY <1>1
  <1>. QED
    BY <1>2, Invariance, PTL DEF Spec, ReplacesWhatItRead

\* DeployApplication takes the application back to an older manifest only if the
\* request began before the one it replaces was answered.
THEOREM RollbacksOverlap == Spec => RollbackNeedsOverlap
  <1>1. ASSUME IndInv, [Next]_vars, NEW q \in Requests, NEW r \in Requests,
               application # None, application' < application, manifest[q] = application',
               request'[q] = "ok", request[q] # "ok",
               request[r] = "ok", manifest[r] = application, r \in before[q]
        PROVE  FALSE
    <2>1. request[q] \in Built
      BY <1>1, AnsweredStep DEF Built
    <2>2. manifest[r] <= manifest[q]
      BY <1>1, <2>1 DEF IndInv, BuiltLater
    <2>3. manifest[q] \in Nat /\ manifest[r] \in Nat
      BY <1>1, BoundsAssumption DEF IndInv, TypeOK, Manifests, None
    <2>. QED
      BY <1>1, <2>2, <2>3
  <1>2. IndInv /\ [Next]_vars
          => [\A q, r \in Requests :
                 /\ application # None /\ application' < application /\ manifest[q] = application'
                 /\ request'[q] = "ok" /\ request[q] # "ok"
                 /\ request[r] = "ok" /\ manifest[r] = application
                 => r \notin before[q]]_vars
    BY <1>1
  <1>. QED
    BY <1>2, Invariance, PTL DEF Spec, RollbackNeedsOverlap
==============================================================================
