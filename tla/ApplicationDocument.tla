------------------------- MODULE ApplicationDocument -------------------------
(***************************************************************************)
(* The documents of one organization in the API server's database          *)
(* (cmd/api-server/applications and cmd/api-server/models): applications,  *)
(* each with its environments, a list inside the application's document,   *)
(* and components, documents of their own that name an application.        *)
(* Every handler reads the application before it writes: CreateEnvironment *)
(* then stores the whole document it has read, DeleteEnvironment pulls the *)
(* name out of what is stored.  The owner's check is left out: it refuses  *)
(* a request before it changes anything.  No handler deletes an            *)
(* organization or an application.                                         *)
(***************************************************************************)
EXTENDS Naturals, FiniteSets

CONSTANTS Requests,         \* requests in flight at most
          Applications,     \* ids the database gives to applications
          Names,            \* names of environments and of components
          MaxIds            \* environments, and components, ever made

ASSUME BoundsAssumption == MaxIds \in Nat

VARIABLES organization,     \* the organization is stored
          applications,     \* the applications that are stored
          environments,     \* the list in each application's document
          components,       \* the component documents
          request,          \* each request: its step and what it has read
          made,             \* environments ever made
          created,          \* components ever made
          promised,         \* environments the clients of each have been promised
          removed,          \* component ids the clients know to be deleted
          overlap           \* the applications whose list was written while a
                            \* creation held it

vars == <<organization, applications, environments, components, request, made,
          created, promised, removed, overlap>>

Environment == [id : 1 .. MaxIds, name : Names]
Component == [id : 1 .. MaxIds, app : Applications, name : Names]

Idle == [op |-> "none"]

\* `app' is the application of the route.
Request ==
    {Idle} \cup [op : {"create environment"}, app : Applications, name : Names,
                 read : SUBSET Environment]
           \cup [op : {"delete environment"}, app : Applications, name : Names]
           \cup [op : {"update component", "delete component"}, app : Applications,
                 read : Component]

TypeOK ==
    /\ organization \in BOOLEAN /\ applications \subseteq Applications
    /\ environments \in [Applications -> SUBSET Environment] /\ components \subseteq Component
    /\ request \in [Requests -> Request]
    /\ made \in 0 .. MaxIds /\ created \in 0 .. MaxIds
    /\ promised \in [Applications -> SUBSET Environment] /\ removed \subseteq 1 .. MaxIds
    /\ overlap \subseteq Applications

Init ==
    /\ organization = FALSE /\ applications = {}
    /\ environments = [app \in Applications |-> {}] /\ components = {}
    /\ request = [r \in Requests |-> Idle]
    /\ made = 0 /\ created = 0
    /\ promised = [app \in Applications |-> {}] /\ removed = {}
    /\ overlap = {}

Goes(r, to) == request' = [request EXCEPT ![r] = to]

\* Request r writes the list: does another creation hold what it has read?
Writes(r) ==
    LET app == request[r].app
    IN  overlap' = overlap \cup
            {a \in {app} : \E q \in Requests \ {r} :
                               request[q].op = "create environment" /\ request[q].app = a}

documents == <<environments, components, made, created, promised, removed, overlap>>

-----------------------------------------------------------------------------
\* One insert.
CreateOrganization ==
    /\ ~organization /\ organization' = TRUE
    /\ UNCHANGED <<applications, request, documents>>

\* The organization is read, then the application is inserted, without
\* environments, under an id nobody has.
GetById == organization
NewApplication == {}
CreateApplication(app) ==
    /\ GetById /\ app \notin applications
    /\ applications' = applications \cup {app}
    /\ environments' = [environments EXCEPT ![app] = NewApplication]
    /\ UNCHANGED <<organization, components, request, made, created, promised, removed, overlap>>

-----------------------------------------------------------------------------
\* GetByID decodes the whole document.
GetByID(app) == environments[app]

\* Update: $set of the whole document, with the list as the request has it.
Update(app, list) == environments' = [environments EXCEPT ![app] = list]

ReadForCreate(r, app, name) ==
    /\ request[r] = Idle /\ made < MaxIds
    /\ Goes(r, [op |-> "create environment", app |-> app, name |-> name, read |-> GetByID(app)])
    /\ UNCHANGED <<organization, applications, documents>>

\* Mutant: the list that was read is stored without the new environment.
CreateEnvironmentForgets(r) ==
    /\ request[r].op = "create environment" /\ made < MaxIds /\ made' = made + 1
    /\ LET env == [id |-> made + 1, name |-> request[r].name]
           app == request[r].app
       IN  /\ Update(app, request[r].read)
           /\ promised' = [promised EXCEPT ![app] = @ \cup {env}]
    /\ Goes(r, Idle) /\ Writes(r)
    /\ UNCHANGED <<organization, applications, components, created, removed>>

\* NewEnvironment, appended to the list that was read, then Update.
CreateEnvironment(r) ==
    /\ request[r].op = "create environment" /\ made < MaxIds /\ made' = made + 1
    /\ LET env == [id |-> made + 1, name |-> request[r].name]
           app == request[r].app
       IN  /\ Update(app, request[r].read \cup {env})
           /\ promised' = [promised EXCEPT ![app] = @ \cup {env}]
    /\ Goes(r, Idle) /\ Writes(r)
    /\ UNCHANGED <<organization, applications, components, created, removed>>

ReadForDelete(r, app, name) ==
    /\ request[r] = Idle
    /\ Goes(r, [op |-> "delete environment", app |-> app, name |-> name])
    /\ UNCHANGED <<organization, applications, documents>>

Named(list, name) == {env \in list : env.name = name}

\* $pull takes out every environment of the name; none is an error.
DeleteEnvironmentByName(r) ==
    /\ request[r].op = "delete environment"
    /\ LET app == request[r].app
           left(list) == list \ Named(list, request[r].name)
       IN  /\ environments' = [environments EXCEPT ![app] = left(@)]
           /\ promised' = [promised EXCEPT ![app] = left(@)]
    /\ Goes(r, Idle) /\ Writes(r)
    /\ UNCHANGED <<organization, applications, components, made, created, removed>>

-----------------------------------------------------------------------------
\* The collection of components: Create gives the document an id of its own, so
\* that no two inserts collide; $set and deletion are by id, and succeed when the
\* id matches nothing.
Create(app, name) ==
    components' = components \cup {[id |-> created + 1, app |-> app, name |-> name]}
Set(doc) == components' = {IF comp.id = doc.id THEN doc ELSE comp : comp \in components}
Delete(id) == components' = {comp \in components : comp.id # id}

CreateComponent(app, name) ==
    /\ created < MaxIds /\ created' = created + 1
    /\ Create(app, name)
    /\ UNCHANGED <<organization, applications, environments, request, made, promised, removed,
                   overlap>>

\* For an update and for a deletion: the component is read by its id, whatever
\* application it names.
getComponentFromRoute(r, op, app, comp) ==
    /\ request[r] = Idle
    /\ Goes(r, [op |-> op, app |-> app, read |-> comp])
    /\ UNCHANGED <<organization, applications, documents>>

\* Mutant: an update inserts a component that is not there.
UpdateComponentUpserts(r, name) ==
    /\ request[r].op = "update component"
    /\ components' = {comp \in components : comp.id # request[r].read.id}
                     \cup {[id |-> request[r].read.id, app |-> request[r].app, name |-> name]}
    /\ Goes(r, Idle)
    /\ UNCHANGED <<organization, applications, environments, made, created, promised, removed,
                   overlap>>

\* Mutant: the application's id is not set, and is stored as the zero id.
UpdateComponentUnowned(r, name) ==
    /\ request[r].op = "update component"
    /\ Set([id |-> request[r].read.id, app |-> "zero id", name |-> name])
    /\ Goes(r, Idle)
    /\ UNCHANGED <<organization, applications, environments, made, created, promised, removed,
                   overlap>>

\* The component is stored as the request has it, under the route's application:
\* of its settings only the name is kept here.
UpdateComponent(r, name) ==
    /\ request[r].op = "update component"
    /\ Set([id |-> request[r].read.id, app |-> request[r].app, name |-> name])
    /\ Goes(r, Idle)
    /\ UNCHANGED <<organization, applications, environments, made, created, promised, removed,
                   overlap>>

DeleteComponent(r) ==
    /\ request[r].op = "delete component"
    /\ Delete(request[r].read.id)
    /\ removed' = removed \cup {request[r].read.id}
    /\ Goes(r, Idle)
    /\ UNCHANGED <<organization, applications, environments, made, created, promised, overlap>>

\* A call of the database fails, and the request with it, before it has written.
Fail(r) ==
    /\ request[r] # Idle
    /\ Goes(r, Idle)
    /\ UNCHANGED <<organization, applications, documents>>

Next ==
    \/ CreateOrganization
    \/ \E app \in Applications : CreateApplication(app)
    \/ \E app \in applications, name \in Names : CreateComponent(app, name)
    \/ \E r \in Requests :
          \/ \E app \in applications, name \in Names :
                ReadForCreate(r, app, name) \/ ReadForDelete(r, app, name)
          \/ CreateEnvironment(r) \/ DeleteEnvironmentByName(r)
          \/ \E app \in applications, comp \in components :
                \/ getComponentFromRoute(r, "update component", app, comp)
                \/ getComponentFromRoute(r, "delete component", app, comp)
          \/ \E name \in Names : UpdateComponent(r, name)
          \/ DeleteComponent(r) \/ Fail(r)

Spec == Init /\ [][Next]_vars

-----------------------------------------------------------------------------
\* A component whose deletion was answered stays deleted, although updates that
\* have read it before, on a route of this or of another application, may still
\* be under way.
DeletedComponentStays == \A comp \in components : comp.id \notin removed

\* Each document holds the environments the clients were promised, unless its
\* list was written between another creation's reading and its writing: nothing
\* but such an overlap loses an environment or brings back a deleted one.  This
\* is what environment_test.go expects of a creation and a deletion in turn.
LostOnlyByOverlap ==
    \A app \in Applications \ overlap : environments[app] = promised[app]
==============================================================================
