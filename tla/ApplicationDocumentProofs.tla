---------------------- MODULE ApplicationDocumentProofs ----------------------
(***************************************************************************)
(* Safety of the documents of an organization, for any requests,           *)
(* applications and names, and any number of environments and components.  *)
(***************************************************************************)
EXTENDS ApplicationDocument, TLAPS

(***************************************************************************)
(* The inductive invariant.                                                *)
(***************************************************************************)
\* A request about an environment names a stored application; one that creates it
\* holds the list that is stored, unless another request has written it since.
CreationsHoldTheList ==
    \A r \in Requests :
        /\ request[r].op \in {"create environment", "delete environment"} =>
              request[r].app \in applications
        /\ request[r].op = "create environment" /\ request[r].app \notin overlap =>
              request[r].read = environments[request[r].app]

\* An application that is not stored yet has no environments.
EmptyUntilStored ==
    \A app \in Applications \ applications : environments[app] = {} /\ promised[app] = {}

\* The ids of components, those of requests under way too, are ones already given.
IdsGiven ==
    /\ \A comp \in components : comp.id <= created
    /\ \A r \in Requests :
          request[r].op \in {"update component", "delete component"} => request[r].read.id <= created
    /\ \A id \in removed : id <= created

IndInv ==
    /\ TypeOK /\ CreationsHoldTheList /\ EmptyUntilStored /\ IdsGiven
    /\ DeletedComponentStays /\ LostOnlyByOverlap

(***************************************************************************)
(* Facts about the requests and the operators.                             *)
(***************************************************************************)
\* The fields of a request by its operation.
LEMMA RequestFields ==
  ASSUME NEW q \in Request
  PROVE  /\ q.op = "create environment" =>
               q.app \in Applications /\ q.name \in Names /\ q.read \in SUBSET Environment
         /\ q.op = "delete environment" => q.app \in Applications /\ q.name \in Names
         /\ q.op \in {"update component", "delete component"} =>
               q.app \in Applications /\ q.read \in Component
  <1>1. CASE q = Idle
    BY <1>1 DEF Idle
  <1>2. CASE q \in [op : {"create environment"}, app : Applications, name : Names,
                    read : SUBSET Environment]
    BY <1>2
  <1>3. CASE q \in [op : {"delete environment"}, app : Applications, name : Names]
    BY <1>3
  <1>4. CASE q \in [op : {"update component", "delete component"}, app : Applications,
                    read : Component]
    BY <1>4
  <1>. QED
    BY <1>1, <1>2, <1>3, <1>4 DEF Request

\* An idle request has no operation.
LEMMA IdleRequest == Idle \in Request /\ Idle.op = "none"
  BY DEF Idle, Request

\* What a request's next step makes of the requests.
LEMMA GoesFields ==
  ASSUME TypeOK, NEW r \in Requests, NEW to \in Request, Goes(r, to)
  PROVE  /\ request' \in [Requests -> Request] /\ request'[r] = to
         /\ \A q \in Requests \ {r} : request'[q] = request[q]
  BY DEF TypeOK, Goes

(***************************************************************************)
(* The steps.                                                              *)
(***************************************************************************)
\* A step that changes at most one request, and nothing that is stored.
LEMMA RequestStep ==
  ASSUME IndInv, NEW r \in Requests, NEW to \in Request, Goes(r, to),
         UNCHANGED <<organization, applications, documents>>,
         to.op \in {"create environment", "delete environment"} => to.app \in applications,
         to.op = "create environment" => to.read = environments[to.app],
         to.op \in {"update component", "delete component"} => to.read.id <= created
  PROVE  IndInv'
  <1>0. /\ TypeOK /\ CreationsHoldTheList /\ EmptyUntilStored /\ IdsGiven
        /\ DeletedComponentStays /\ LostOnlyByOverlap
    BY DEF IndInv
  <1>1. /\ request' \in [Requests -> Request] /\ request'[r] = to
        /\ \A q \in Requests \ {r} : request'[q] = request[q]
    BY <1>0, GoesFields
  <1>2. TypeOK'
    BY <1>0, <1>1 DEF TypeOK, documents
  <1>3. CreationsHoldTheList'
    BY <1>0, <1>1 DEF CreationsHoldTheList, documents
  <1>4. IdsGiven'
    BY <1>0, <1>1 DEF IdsGiven, documents
  <1>5. EmptyUntilStored' /\ DeletedComponentStays' /\ LostOnlyByOverlap'
    BY <1>0 DEF EmptyUntilStored, DeletedComponentStays, LostOnlyByOverlap, documents
  <1>. QED
    BY <1>2, <1>3, <1>4, <1>5 DEF IndInv

\* A request ends, having written the list of its application.  Nobody holds the
\* list that it replaces, or the overlap is recorded.
LEMMA WriteStep ==
  ASSUME IndInv, NEW r \in Requests, NEW app \in applications, NEW list \in SUBSET Environment,
         NEW owed \in SUBSET Environment,
         request[r].app = app, Goes(r, Idle), Writes(r),
         environments' = [environments EXCEPT ![app] = list],
         promised' = [promised EXCEPT ![app] = owed],
         app \notin overlap => list = owed,
         made' \in 0 .. MaxIds,
         UNCHANGED <<organization, applications, components, created, removed>>
  PROVE  IndInv'
  <1>0. /\ TypeOK /\ CreationsHoldTheList /\ EmptyUntilStored /\ IdsGiven
        /\ DeletedComponentStays /\ LostOnlyByOverlap
    BY DEF IndInv
  <1>1. /\ request' \in [Requests -> Request] /\ request'[r].op = "none"
        /\ \A q \in Requests \ {r} : request'[q] = request[q]
    BY <1>0, GoesFields, IdleRequest
  <1>2. /\ overlap \subseteq overlap' /\ overlap' \subseteq overlap \cup {app}
        /\ \A q \in Requests \ {r} :
              request[q].op = "create environment" /\ request[q].app = app => app \in overlap'
    BY DEF Writes
  <1>3. /\ app \in Applications
        /\ environments' \in [Applications -> SUBSET Environment]
        /\ promised' \in [Applications -> SUBSET Environment]
        /\ environments'[app] = list /\ promised'[app] = owed
        /\ \A a \in Applications \ {app} :
              environments'[a] = environments[a] /\ promised'[a] = promised[a]
    BY <1>0 DEF TypeOK
  <1>4. TypeOK'
    BY <1>0, <1>1, <1>2, <1>3 DEF TypeOK
  <1>5. CreationsHoldTheList'
    <2>0. ASSUME NEW q \in Requests,
                 request'[q].op \in {"create environment", "delete environment"}
          PROVE  request'[q].app \in applications'
      BY <1>0, <1>1, <2>0 DEF CreationsHoldTheList
    <2> SUFFICES ASSUME NEW q \in Requests, request'[q].op = "create environment",
                        request'[q].app \notin overlap'
                 PROVE  request'[q].read = environments'[request'[q].app]
      BY <2>0 DEF CreationsHoldTheList
    <2>1. q # r /\ request'[q] = request[q]
      BY <1>1
    <2>2. request[q].app \in Applications
      BY <1>0, <2>1, RequestFields DEF TypeOK
    <2>3. request[q].app \notin overlap => request[q].read = environments[request[q].app]
      BY <1>0, <2>1 DEF CreationsHoldTheList
    <2>4. CASE request[q].app = app
      BY <1>2, <2>1, <2>3, <2>4
    <2>5. CASE request[q].app # app
      BY <1>2, <1>3, <2>1, <2>2, <2>3, <2>5
    <2>. QED
      BY <2>4, <2>5
  <1>6. EmptyUntilStored'
    BY <1>0, <1>3 DEF EmptyUntilStored
  <1>7. IdsGiven'
    BY <1>0, <1>1 DEF IdsGiven
  <1>8. DeletedComponentStays'
    BY <1>0 DEF DeletedComponentStays
  <1>9. LostOnlyByOverlap'
    BY <1>0, <1>2, <1>3 DEF LostOnlyByOverlap
  <1>. QED
    BY <1>4, <1>5, <1>6, <1>7, <1>8, <1>9 DEF IndInv

\* A step that writes components, and may end a request, and leaves the rest.
LEMMA ComponentStep ==
  ASSUME IndInv, components' \subseteq Component, created' \in 0 .. MaxIds, created <= created',
         removed' \subseteq 1 .. MaxIds,
         \/ UNCHANGED request
         \/ \E r \in Requests : Goes(r, Idle),
         \A comp \in components' : comp.id <= created' /\ comp.id \notin removed',
         \A id \in removed' : id <= created',
         UNCHANGED <<organization, applications, environments, made, promised, overlap>>
  PROVE  IndInv'
  <1>0. /\ TypeOK /\ CreationsHoldTheList /\ EmptyUntilStored /\ IdsGiven /\ LostOnlyByOverlap
    BY DEF IndInv
  <1>1. /\ request' \in [Requests -> Request]
        /\ \A q \in Requests : request'[q] \in {request[q], Idle}
    BY <1>0, GoesFields, IdleRequest DEF TypeOK
  <1>2. TypeOK'
    BY <1>0, <1>1 DEF TypeOK
  <1>3. CreationsHoldTheList'
    BY <1>0, <1>1, IdleRequest DEF CreationsHoldTheList
  <1>4. IdsGiven'
    <2>1. ASSUME NEW r \in Requests, request'[r].op \in {"update component", "delete component"}
          PROVE  request'[r].read.id <= created'
      <3>1. request'[r] = request[r] /\ request[r] \in Request
        BY <1>0, <1>1, <2>1, IdleRequest DEF TypeOK
      <3>2. request[r].read \in Component
        BY <2>1, <3>1, RequestFields
      <3>3. request[r].read.id \in 1 .. MaxIds /\ request[r].read.id <= created
        BY <1>0, <2>1, <3>1, <3>2 DEF IdsGiven, Component
      <3>. QED
        BY <1>0, <3>1, <3>3, BoundsAssumption DEF TypeOK
    <2>. QED
      BY <2>1 DEF IdsGiven
  <1>5. EmptyUntilStored' /\ LostOnlyByOverlap'
    BY <1>0 DEF EmptyUntilStored, LostOnlyByOverlap
  <1>6. DeletedComponentStays'
    BY DEF DeletedComponentStays
  <1>. QED
    BY <1>2, <1>3, <1>4, <1>5, <1>6 DEF IndInv

\* At first nothing is stored.
LEMMA InitInd == Init => IndInv
  <1> SUFFICES ASSUME Init PROVE IndInv
    OBVIOUS
  <1>1. organization \in BOOLEAN
    BY DEF Init
  <1>2. request \in [Requests -> Request] /\ \A r \in Requests : request[r].op = "none"
    BY IdleRequest DEF Init
  <1>3. TypeOK
    BY <1>1, <1>2, BoundsAssumption DEF Init, TypeOK
  <1>. QED
    BY <1>2, <1>3 DEF Init, IndInv, CreationsHoldTheList, EmptyUntilStored, IdsGiven,
                      DeletedComponentStays, LostOnlyByOverlap

\* Organizations and applications.
LEMMA ApplicationInd ==
  ASSUME IndInv, CreateOrganization \/ \E app \in Applications : CreateApplication(app)
  PROVE  IndInv'
  <1>0. /\ TypeOK /\ CreationsHoldTheList /\ EmptyUntilStored /\ IdsGiven
        /\ DeletedComponentStays /\ LostOnlyByOverlap
    BY DEF IndInv
  <1>1. /\ UNCHANGED <<components, request, made, created, promised, removed, overlap>>
        /\ applications \subseteq applications' /\ applications' \subseteq Applications
    BY <1>0 DEF CreateOrganization, CreateApplication, documents, TypeOK
  <1>2. environments' = environments
    BY <1>0 DEF CreateOrganization, CreateApplication, documents, TypeOK, EmptyUntilStored, NewApplication
  <1>3. organization' \in BOOLEAN
    BY <1>0 DEF CreateOrganization, CreateApplication, TypeOK
  <1>4. TypeOK'
    BY <1>0, <1>1, <1>2, <1>3 DEF TypeOK
  <1>5. CreationsHoldTheList' /\ EmptyUntilStored' /\ IdsGiven'
    BY <1>0, <1>1, <1>2 DEF CreationsHoldTheList, EmptyUntilStored, IdsGiven
  <1>6. DeletedComponentStays' /\ LostOnlyByOverlap'
    BY <1>0, <1>1, <1>2 DEF DeletedComponentStays, LostOnlyByOverlap
  <1>. QED
    BY <1>4, <1>5, <1>6 DEF IndInv

\* The readings at the start of the handlers, and a failure.
LEMMA ReadInd ==
  ASSUME IndInv, NEW r \in Requests,
         \/ \E app \in applications, name \in Names :
               ReadForCreate(r, app, name) \/ ReadForDelete(r, app, name)
         \/ \E app \in applications, comp \in components :
               \/ getComponentFromRoute(r, "update component", app, comp)
               \/ getComponentFromRoute(r, "delete component", app, comp)
         \/ Fail(r)
  PROVE  IndInv'
  <1>0. TypeOK /\ IdsGiven
    BY DEF IndInv
  <1>1. ASSUME NEW app \in applications, NEW name \in Names, ReadForCreate(r, app, name)
        PROVE  IndInv'
    <2> DEFINE to == [op |-> "create environment", app |-> app, name |-> name, read |-> environments[app]]
    <2>1. to \in Request
      BY <1>0 DEF TypeOK, Request
    <2>2. to.op = "create environment" /\ to.app = app /\ to.read = environments[app]
      OBVIOUS
    <2>3. Goes(r, to) /\ UNCHANGED <<organization, applications, documents>>
      BY <1>1 DEF ReadForCreate, GetByID
    <2> HIDE DEF to
    <2>. QED
      BY <2>1, <2>2, <2>3, RequestStep
  <1>2. ASSUME NEW app \in applications, NEW name \in Names, ReadForDelete(r, app, name)
        PROVE  IndInv'
    <2> DEFINE to == [op |-> "delete environment", app |-> app, name |-> name]
    <2>1. to \in Request
      BY <1>0 DEF TypeOK, Request
    <2>2. to.op = "delete environment" /\ to.app = app
      OBVIOUS
    <2>3. Goes(r, to) /\ UNCHANGED <<organization, applications, documents>>
      BY <1>2 DEF ReadForDelete
    <2> HIDE DEF to
    <2>. QED
      BY <2>1, <2>2, <2>3, RequestStep
  <1>3. ASSUME NEW app \in applications, NEW comp \in components,
               NEW op \in {"update component", "delete component"},
               getComponentFromRoute(r, op, app, comp)
        PROVE  IndInv'
    <2> DEFINE to == [op |-> op, app |-> app, read |-> comp]
    <2>1. to \in Request
      BY <1>0 DEF TypeOK, Request
    <2>2. to.op \notin {"create environment", "delete environment"} /\ to.read.id <= created
      BY <1>0 DEF IdsGiven
    <2>3. Goes(r, to) /\ UNCHANGED <<organization, applications, documents>>
      BY <1>3 DEF getComponentFromRoute
    <2> HIDE DEF to
    <2>. QED
      BY <2>1, <2>2, <2>3, RequestStep
  <1>4. CASE Fail(r)
    BY <1>4, IdleRequest, RequestStep DEF Fail
  <1>. QED
    BY <1>1, <1>2, <1>3, <1>4

\* The list that was read goes back with one environment more.
LEMMA CreateEnvironmentInd ==
  ASSUME IndInv, NEW r \in Requests, CreateEnvironment(r)
  PROVE  IndInv'
  <1>0. TypeOK /\ CreationsHoldTheList /\ LostOnlyByOverlap
    BY DEF IndInv
  <1> DEFINE app == request[r].app
             env == [id |-> made + 1, name |-> request[r].name]
  <1>1. /\ app \in applications /\ app \in Applications /\ request[r].name \in Names
        /\ request[r].read \in SUBSET Environment
        /\ app \notin overlap => request[r].read = environments[app]
    <2>1. request[r] \in Request /\ request[r].op = "create environment"
      BY <1>0 DEF CreateEnvironment, TypeOK
    <2>. QED
      BY <1>0, <2>1, RequestFields DEF CreationsHoldTheList
  <1>2. made + 1 \in 1 .. MaxIds /\ made' = made + 1
    <2>1. made \in 0 .. MaxIds /\ made < MaxIds /\ made' = made + 1
      BY <1>0 DEF CreateEnvironment, TypeOK
    <2>. QED
      BY <2>1, BoundsAssumption
  <1>3. env \in Environment
    BY <1>1, <1>2 DEF Environment
  <1>4. app \notin overlap => environments[app] = promised[app]
    BY <1>0, <1>1 DEF LostOnlyByOverlap
  <1>5. promised[app] \in SUBSET Environment
    BY <1>0, <1>1 DEF TypeOK
  <1>6. /\ environments' = [environments EXCEPT ![app] = request[r].read \cup {env}]
        /\ promised' = [promised EXCEPT ![app] = promised[app] \cup {env}]
        /\ Goes(r, Idle) /\ Writes(r)
        /\ UNCHANGED <<organization, applications, components, created, removed>>
    BY DEF CreateEnvironment, Update
  <1>7. /\ request[r].read \cup {env} \in SUBSET Environment
        /\ promised[app] \cup {env} \in SUBSET Environment
        /\ app \notin overlap => request[r].read \cup {env} = promised[app] \cup {env}
        /\ made' \in 0 .. MaxIds
    BY <1>1, <1>2, <1>3, <1>4, <1>5
  <1>8. request[r].app = app
    OBVIOUS
  <1> HIDE DEF app, env
  <1>. QED
    BY <1>1, <1>6, <1>7, <1>8, WriteStep

\* The environments of a name leave the stored list, and what the clients expect.
LEMMA DeleteEnvironmentInd ==
  ASSUME IndInv, NEW r \in Requests, DeleteEnvironmentByName(r)
  PROVE  IndInv'
  <1>0. TypeOK /\ CreationsHoldTheList /\ LostOnlyByOverlap
    BY DEF IndInv
  <1> DEFINE app == request[r].app
             left(list) == list \ Named(list, request[r].name)
  <1>1. app \in applications /\ app \in Applications
    <2>1. request[r] \in Request /\ request[r].op = "delete environment"
      BY <1>0 DEF DeleteEnvironmentByName, TypeOK
    <2>. QED
      BY <1>0, <2>1, RequestFields DEF CreationsHoldTheList
  <1>2. app \notin overlap => environments[app] = promised[app]
    BY <1>0, <1>1 DEF LostOnlyByOverlap
  <1>3. /\ environments' = [environments EXCEPT ![app] = left(environments[app])]
        /\ promised' = [promised EXCEPT ![app] = left(promised[app])]
        /\ Goes(r, Idle) /\ Writes(r)
        /\ UNCHANGED <<organization, applications, components, made, created, removed>>
    BY DEF DeleteEnvironmentByName
  <1>4. environments[app] \in SUBSET Environment /\ promised[app] \in SUBSET Environment
    BY <1>0, <1>1 DEF TypeOK
  <1>5. /\ left(environments[app]) \in SUBSET Environment /\ left(promised[app]) \in SUBSET Environment
        /\ app \notin overlap => left(environments[app]) = left(promised[app])
    BY <1>2, <1>4
  <1>6. made' \in 0 .. MaxIds /\ request[r].app = app
    BY <1>0, <1>3 DEF TypeOK
  <1> HIDE DEF app, left
  <1>. QED
    BY <1>1, <1>3, <1>5, <1>6, WriteStep

\* Components are inserted, replaced and deleted by id.
LEMMA ComponentInd ==
  ASSUME IndInv,
         \/ \E app \in applications, name \in Names : CreateComponent(app, name)
         \/ \E r \in Requests : \/ \E name \in Names : UpdateComponent(r, name)
                                \/ DeleteComponent(r)
  PROVE  IndInv'
  <1>0. TypeOK /\ IdsGiven /\ DeletedComponentStays /\ MaxIds \in Nat /\ created \in 0 .. MaxIds
        /\ components \subseteq Component /\ removed \subseteq 1 .. MaxIds
    BY BoundsAssumption DEF IndInv, TypeOK
  <1>1. ASSUME NEW app \in applications, NEW name \in Names, CreateComponent(app, name)
        PROVE  IndInv'
    <2> DEFINE new == [id |-> created + 1, app |-> app, name |-> name]
    <2>1. /\ created < MaxIds /\ created' = created + 1 /\ components' = components \cup {new}
          /\ UNCHANGED <<organization, applications, environments, request, made, promised, removed,
                         overlap>>
      BY <1>1 DEF CreateComponent, Create
    <2>2. new \in Component /\ new.id = created + 1
      BY <1>0, <2>1 DEF Component, TypeOK
    <2> HIDE DEF new
    <2>3. ASSUME NEW comp \in components' PROVE comp.id <= created' /\ comp.id \notin removed'
      <3>1. CASE comp \in components
        <4>1. comp.id \in 1 .. MaxIds
          BY <1>0, <3>1 DEF Component
        <4>2. comp.id <= created /\ comp.id \notin removed
          BY <1>0, <3>1 DEF IdsGiven, DeletedComponentStays
        <4>. QED
          BY <1>0, <2>1, <4>1, <4>2
      <3>2. CASE comp = new
        <4>1. ASSUME NEW id \in removed PROVE id <= created /\ id # created + 1
          <5>1. id \in 1 .. MaxIds /\ id <= created
            BY <1>0 DEF IdsGiven
          <5>. QED
            BY <1>0, <5>1
        <4>. QED
          BY <1>0, <2>1, <2>2, <3>2, <4>1
      <3>. QED
        BY <2>1, <3>1, <3>2
    <2>4. ASSUME NEW id \in removed' PROVE id <= created'
      <3>1. id \in 1 .. MaxIds /\ id <= created
        BY <1>0, <2>1 DEF IdsGiven
      <3>. QED
        BY <1>0, <2>1, <3>1
    <2>5. components' \subseteq Component /\ created' \in 0 .. MaxIds /\ created <= created'
      BY <1>0, <2>1, <2>2
    <2>. QED
      BY <1>0, <2>1, <2>3, <2>4, <2>5, ComponentStep
  <1>2. ASSUME NEW r \in Requests, NEW name \in Names, UpdateComponent(r, name)
        PROVE  IndInv'
    <2> DEFINE doc == [id |-> request[r].read.id, app |-> request[r].app, name |-> name]
    <2>1. /\ components' = {IF comp.id = doc.id THEN doc ELSE comp : comp \in components}
          /\ Goes(r, Idle)
          /\ UNCHANGED <<organization, applications, environments, made, created, promised, removed,
                         overlap>>
      BY <1>2 DEF UpdateComponent, Set
    <2>2. doc \in Component
      BY <1>0, <1>2, RequestFields DEF UpdateComponent, TypeOK, Component
    <2> HIDE DEF doc
    <2>3. ASSUME NEW comp \in components'
          PROVE  comp \in Component /\ \E old \in components : comp.id = old.id
      <3>1. PICK old \in components : comp = IF old.id = doc.id THEN doc ELSE old
        BY <2>1
      <3>. QED
        BY <1>0, <2>2, <3>1
    <2>4. \A comp \in components' : comp.id <= created' /\ comp.id \notin removed'
      BY <1>0, <2>1, <2>3 DEF IdsGiven, DeletedComponentStays
    <2>5. \A id \in removed' : id <= created'
      BY <1>0, <2>1 DEF IdsGiven
    <2>6. components' \subseteq Component /\ created' \in 0 .. MaxIds /\ created <= created'
          /\ removed' \subseteq 1 .. MaxIds
      BY <1>0, <2>1, <2>3
    <2>. QED
      BY <2>1, <2>4, <2>5, <2>6, ComponentStep
  <1>3. ASSUME NEW r \in Requests, DeleteComponent(r)
        PROVE  IndInv'
    <2> DEFINE id == request[r].read.id
    <2>1. /\ components' = {comp \in components : comp.id # id}
          /\ removed' = removed \cup {id}
          /\ Goes(r, Idle)
          /\ UNCHANGED <<organization, applications, environments, made, created, promised, overlap>>
      BY <1>3 DEF DeleteComponent, Delete
    <2>2. id \in 1 .. MaxIds /\ id <= created
      BY <1>0, <1>3, RequestFields DEF DeleteComponent, TypeOK, Component, IdsGiven
    <2> HIDE DEF id
    <2>3. \A comp \in components' : comp.id <= created' /\ comp.id \notin removed'
      BY <1>0, <2>1 DEF IdsGiven, DeletedComponentStays
    <2>4. \A i \in removed' : i <= created'
      BY <1>0, <2>1, <2>2 DEF IdsGiven
    <2>5. components' \subseteq Component /\ created' \in 0 .. MaxIds /\ created <= created'
          /\ removed' \subseteq 1 .. MaxIds
      BY <1>0, <2>1, <2>2
    <2>. QED
      BY <2>1, <2>3, <2>4, <2>5, ComponentStep
  <1>. QED
    BY <1>1, <1>2, <1>3

\* Every step of the handlers keeps the invariant.
LEMMA NextInd == IndInv /\ [Next]_vars => IndInv'
  <1> SUFFICES ASSUME IndInv, [Next]_vars PROVE IndInv'
    OBVIOUS
  <1>1. CASE CreateOrganization \/ \E app \in Applications : CreateApplication(app)
    BY <1>1, ApplicationInd
  <1>2. CASE \E app \in applications, name \in Names : CreateComponent(app, name)
    BY <1>2, ComponentInd
  <1>3. ASSUME NEW r \in Requests,
               \/ \E app \in applications, name \in Names :
                     ReadForCreate(r, app, name) \/ ReadForDelete(r, app, name)
               \/ CreateEnvironment(r) \/ DeleteEnvironmentByName(r)
               \/ \E app \in applications, comp \in components :
                     \/ getComponentFromRoute(r, "update component", app, comp)
                     \/ getComponentFromRoute(r, "delete component", app, comp)
               \/ \E name \in Names : UpdateComponent(r, name)
               \/ DeleteComponent(r) \/ Fail(r)
        PROVE  IndInv'
    BY <1>3, ReadInd, CreateEnvironmentInd, DeleteEnvironmentInd, ComponentInd
  <1>4. CASE UNCHANGED vars
    BY <1>4 DEF vars, IndInv, TypeOK, CreationsHoldTheList, EmptyUntilStored, IdsGiven,
                DeletedComponentStays, LostOnlyByOverlap
  <1>. QED
    BY <1>1, <1>2, <1>3, <1>4 DEF Next

\* The invariant holds from the empty database on.
THEOREM Invariance == Spec => []IndInv
  BY InitInd, NextInd, PTL DEF Spec

(***************************************************************************)
(* The results.                                                            *)
(***************************************************************************)
\* The documents and the requests have their type.
THEOREM TypeCorrect == Spec => []TypeOK
  <1>1. IndInv => TypeOK
    BY DEF IndInv
  <1>. QED
    BY <1>1, Invariance, PTL

\* No update that read a component before its deletion brings it back: $set
\* matches nothing, and no insert takes an id a second time.
THEOREM DeletionLasts == Spec => []DeletedComponentStays
  <1>1. IndInv => DeletedComponentStays
    BY DEF IndInv
  <1>. QED
    BY <1>1, Invariance, PTL

\* An application's list of environments is what its clients were promised unless
\* a request has written it while a creation held the list it had read.
THEOREM OnlyOverlapLoses == Spec => []LostOnlyByOverlap
  <1>1. IndInv => LostOnlyByOverlap
    BY DEF IndInv
  <1>. QED
    BY <1>1, Invariance, PTL
==============================================================================
