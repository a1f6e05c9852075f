---------------------------- MODULE VariableStore ----------------------------
(***************************************************************************)
(* The variables and integrations of the API server                        *)
(* (cmd/api-server/variables and cmd/api-server/settings, with the boot in *)
(* cmd/api-server/routes).  Under the "k8s" strategy the servers share a   *)
(* Secret that holds the encryption key, which the first of them or the    *)
(* command `createsecretkey' makes; under the "local" strategy one server  *)
(* keeps it in a file.  Besides there are a collection of variables, in    *)
(* which a name is looked up before it is inserted, and one of             *)
(* integrations, which are always encrypted.  One organization,            *)
(* application, environment and component; a value is the key it was       *)
(* encrypted with.                                                         *)
(***************************************************************************)
EXTENDS Naturals

CONSTANTS Servers,          \* replicas of the API server
          Requests,         \* concurrent POST requests
          Names,            \* names of variables
          MaxVariables,     \* documents ever inserted
          MaxKeys,          \* keys ever generated
          MaxFaults         \* failing calls and crashes

ASSUME BoundsAssumption ==
    MaxVariables \in Nat /\ MaxKeys \in Nat /\ MaxFaults \in Nat
ASSUME ServersAssumption == Servers # {}

NoKey == 0
Torn == MaxKeys + 1         \* the file is there and empty

VariableType == {"organization", "environment", "component"}

VARIABLES strategy,         \* where the key is kept: "k8s" or "local"
          secret,           \* the key in the Secret or in the file
          keys,             \* keys generated
          server,           \* each server: "load", "save", "write", "up"
          fresh,            \* the key each server is about to save
          request,          \* each request
          variables,        \* the collection of variables
          integrations,     \* the collection of integrations
          inserted,         \* documents ever inserted: their ids
          lost,             \* a key that was in use has been overwritten
          faults

vars == <<strategy, secret, keys, server, fresh, request, variables, integrations,
          inserted, lost, faults>>

\* A key file belongs to one server.
Replicas == IF strategy = "k8s" THEN Servers ELSE {CHOOSE s \in Servers : TRUE}

Idle == [at |-> "idle"]

\* `since' is the number of insertions the lookup of the name has seen.
Pending == [at : {"check", "encrypt", "insert"}, server : Servers,
            type : VariableType \cup {"integration"},
            name : Names, encrypted : BOOLEAN, since : 0 .. MaxVariables, key : 0 .. MaxKeys]

Variable == [id : 1 .. MaxVariables, type : VariableType, name : Names,
             encrypted : BOOLEAN, since : 0 .. MaxVariables, key : 0 .. MaxKeys]

TypeOK ==
    /\ strategy \in {"k8s", "local"} /\ lost \in BOOLEAN
    /\ secret \in 0 .. Torn /\ keys \in 0 .. MaxKeys
    /\ server \in [Servers -> {"load", "save", "write", "up"}]
    /\ fresh \in [Servers -> 0 .. MaxKeys]
    /\ request \in [Requests -> Pending \cup {Idle}]
    /\ variables \subseteq Variable
    /\ integrations \subseteq [id : 1 .. MaxVariables, name : Names, key : 1 .. MaxKeys]
    /\ inserted \in 0 .. MaxVariables
    /\ faults \in 0 .. MaxFaults

Init ==
    /\ strategy \in {"k8s", "local"} /\ lost = FALSE
    /\ secret = NoKey /\ keys = 0
    /\ server = [s \in Servers |-> "load"] /\ fresh = [s \in Servers |-> NoKey]
    /\ request = [r \in Requests |-> Idle]
    /\ variables = {} /\ integrations = {} /\ inserted = 0 /\ faults = 0

Fault == faults < MaxFaults /\ faults' = faults + 1

-----------------------------------------------------------------------------
\* Mutant: the key in the Secret is not looked at.
LoadNever == FALSE

\* The Secret holds a key, because it is created with one.
Load == secret # NoKey

\* An empty file decodes to an empty key without an error.
LoadFile == secret # NoKey

\* Every key is a new one.
GenerateAESKey(s) ==
    /\ keys < MaxKeys
    /\ keys' = keys + 1 /\ fresh' = [fresh EXCEPT ![s] = keys + 1]

\* GenerateRouter: any failure to load the key makes the server generate one.
GenerateRouter(s) ==
    /\ server[s] = "load"
    /\ LET loads == IF strategy = "k8s" THEN Load ELSE LoadFile
       IN  \/ /\ loads
              /\ server' = [server EXCEPT ![s] = "up"]
              /\ UNCHANGED <<keys, fresh, faults>>
           \/ /\ (~loads /\ UNCHANGED faults) \/ (loads /\ Fault)
              /\ GenerateAESKey(s)
              /\ server' = [server EXCEPT ![s] = "save"]
    /\ UNCHANGED <<strategy, secret, request, variables, integrations, inserted, lost>>

\* The server goes on from Generate, which keeps no copy of the key.
Leaves(s, to) ==
    /\ server' = [server EXCEPT ![s] = to]
    /\ fresh' = [fresh EXCEPT ![s] = NoKey]

\* Mutant: a Secret that exists is overwritten.
SaveOver(s) ==
    /\ strategy = "k8s" /\ server[s] = "save"
    /\ secret' = fresh[s] /\ Leaves(s, "up")
    /\ UNCHANGED <<strategy, keys, request, variables, integrations, inserted, lost, faults>>

\* Save creates the Secret.  If another server has, if the call fails, or if its
\* answer is lost, the server panics and is started again.
Save(s) ==
    /\ strategy = "k8s" /\ server[s] = "save"
    /\ \/ secret = NoKey /\ secret' = fresh[s] /\ Leaves(s, "up") /\ UNCHANGED faults
       \/ /\ \/ secret # NoKey /\ UNCHANGED <<secret, faults>>
             \/ secret = NoKey /\ secret' \in {NoKey, fresh[s]} /\ Fault
          /\ Leaves(s, "load")
    /\ UNCHANGED <<strategy, keys, request, variables, integrations, inserted, lost>>

\* The command makes a Secret of its own accord, and panics if there is one.
createSecretKey ==
    /\ strategy = "k8s" /\ secret = NoKey
    /\ keys < MaxKeys /\ keys' = keys + 1 /\ secret' = keys + 1
    /\ UNCHANGED <<strategy, server, fresh, request, variables, integrations, inserted, lost, faults>>

\* WriteFile: the file is opened, which empties what is there, and written.  A
\* failure or the death of the server leaves it as it is at that moment.
OpenFile(s) ==
    /\ strategy = "local" /\ server[s] = "save"
    /\ \/ /\ secret' = Torn /\ lost' = (lost \/ secret \in 1 .. MaxKeys)
          /\ server' = [server EXCEPT ![s] = "write"] /\ UNCHANGED <<fresh, faults>>
       \/ Fault /\ Leaves(s, "load") /\ UNCHANGED <<secret, lost>>
    /\ UNCHANGED <<strategy, keys, request, variables, integrations, inserted>>

WriteFile(s) ==
    /\ server[s] = "write"
    /\ \/ secret' = fresh[s] /\ Leaves(s, "up") /\ UNCHANGED faults
       \/ Fault /\ Leaves(s, "load") /\ UNCHANGED secret
    /\ UNCHANGED <<strategy, keys, request, variables, integrations, inserted, lost>>

\* A server dies, with the requests it serves.
Crash(s) ==
    /\ server[s] = "up" /\ Fault
    /\ server' = [server EXCEPT ![s] = "load"]
    /\ request' = [r \in Requests |->
                      IF request[r] # Idle /\ request[r].server = s THEN Idle ELSE request[r]]
    /\ UNCHANGED <<strategy, secret, keys, fresh, variables, integrations, inserted, lost>>

-----------------------------------------------------------------------------
Goes(r, to) == request' = [request EXCEPT ![r] = to]

\* The request is valid as far as it can be seen without the database.
CreateVariable(r, s, type, name, encrypted) ==
    /\ request[r] = Idle /\ server[s] = "up" /\ inserted < MaxVariables
    /\ Goes(r, [at |-> "check", server |-> s, type |-> type, name |-> name,
                encrypted |-> encrypted, since |-> 0, key |-> NoKey])
    /\ UNCHANGED <<strategy, secret, keys, server, fresh, variables, integrations, inserted, faults, lost>>

\* An integration's name is not looked up and its value is always encrypted.
CreateIntegration(r, s, name) ==
    /\ request[r] = Idle /\ server[s] = "up" /\ inserted < MaxVariables
    /\ Goes(r, [at |-> "encrypt", server |-> s, type |-> "integration", name |-> name,
                encrypted |-> TRUE, since |-> 0, key |-> NoKey])
    /\ UNCHANGED <<strategy, secret, keys, server, fresh, variables, integrations, inserted, faults, lost>>

\* Mutant: the organization's lookup also filters on the type.
LookupTyped(type, name) == \E v \in variables : v.name = name /\ v.type = type

\* GetByOrgAndName does not filter on the type of the variable it finds; the
\* lookups of the two other types do.
Lookup(type, name) ==
    \E v \in variables : v.name = name /\ (type = "organization" \/ v.type = type)

\* checkVariable: only a lookup that finds the name refuses the request, so a
\* lookup that fails lets it through.
checkVariable(r) ==
    /\ request[r].at = "check"
    /\ \/ /\ Lookup(request[r].type, request[r].name)
          /\ Goes(r, Idle) /\ UNCHANGED faults
       \/ LET to(n) == [request[r] EXCEPT !.at = IF request[r].encrypted THEN "encrypt" ELSE "insert",
                                          !.since = n]
          IN  \/ /\ ~Lookup(request[r].type, request[r].name)
                 /\ Goes(r, to(inserted)) /\ UNCHANGED faults
              \/ Goes(r, to(0)) /\ Fault
    /\ UNCHANGED <<strategy, secret, keys, server, fresh, variables, integrations, inserted, lost>>

\* AES takes a key of its size, and the handler panics with any other.
encrypt(key) == key \in 1 .. MaxKeys

\* EncryptValue loads the key for every value; a failure ends the request.
EncryptValue(r) ==
    /\ request[r].at = "encrypt"
    /\ \/ /\ encrypt(secret)
          /\ Goes(r, [request[r] EXCEPT !.at = "insert", !.key = secret]) /\ UNCHANGED faults
       \/ ~encrypt(secret) /\ Goes(r, Idle) /\ UNCHANGED faults
       \/ Goes(r, Idle) /\ Fault
    /\ UNCHANGED <<strategy, secret, keys, server, fresh, variables, integrations, inserted, lost>>

\* Mutant: the variable is inserted twice, as by a retry.
InsertTwice(r) ==
    /\ request[r].at = "insert" /\ request[r].type # "integration"
    /\ variables' = variables \cup
          {[id |-> i, type |-> request[r].type, name |-> request[r].name,
            encrypted |-> request[r].encrypted, since |-> request[r].since,
            key |-> request[r].key] : i \in {inserted + 1, inserted + 2}}
    /\ inserted' = inserted + 2 /\ Goes(r, Idle)
    /\ UNCHANGED <<strategy, secret, keys, server, fresh, integrations, faults, lost>>

Insert(r) ==
    /\ request[r].at = "insert" /\ request[r].type # "integration"
    /\ \/ /\ inserted < MaxVariables /\ inserted' = inserted + 1 /\ UNCHANGED faults
          /\ variables' = variables \cup
                {[id |-> inserted + 1, type |-> request[r].type, name |-> request[r].name,
                  encrypted |-> request[r].encrypted, since |-> request[r].since,
                  key |-> request[r].key]}
       \/ Fault /\ UNCHANGED <<variables, inserted>>
    /\ Goes(r, Idle)
    /\ UNCHANGED <<strategy, secret, keys, server, fresh, integrations, lost>>

InsertIntegration(r) ==
    /\ request[r].at = "insert" /\ request[r].type = "integration"
    /\ \/ /\ inserted < MaxVariables /\ inserted' = inserted + 1 /\ UNCHANGED faults
          /\ integrations' = integrations \cup
                {[id |-> inserted + 1, name |-> request[r].name, key |-> request[r].key]}
       \/ Fault /\ UNCHANGED <<integrations, inserted>>
    /\ Goes(r, Idle)
    /\ UNCHANGED <<strategy, secret, keys, server, fresh, variables, lost>>

\* DeleteVariable checks the organization's owner and deletes by id.
DeleteVariable(v) ==
    /\ variables' = variables \ {v}
    /\ UNCHANGED <<strategy, secret, keys, server, fresh, request, integrations, inserted, faults, lost>>

\* DeleteIntegration goes on after a lookup that failed, with the zero id, which
\* no integration has.
DeleteIntegration(integration) ==
    /\ \E id \in {integration.id, 0} :
          /\ IF id = 0 THEN Fault ELSE UNCHANGED faults
          /\ integrations' = {i \in integrations : i.id # id}
    /\ UNCHANGED <<strategy, secret, keys, server, fresh, request, variables, inserted, lost>>

\* The variables of one type, by the filters of ListByOrg, ListByEnv and ListByComp.
List(type) == {v \in variables : v.type = type}

\* GCM authenticates: a value opens with the key it was sealed with, or panics.
decrypt(value, key) == value = key
DecryptValue(value) == Load /\ decrypt(value, secret)

\* The three list handlers answer, after decrypting what is encrypted.
ListAnswers(type) == \A v \in List(type) : v.encrypted => DecryptValue(v.key)

Boot(s) == GenerateRouter(s) \/ Save(s) \/ OpenFile(s) \/ WriteFile(s)

Next ==
    \/ \E s \in Replicas : Boot(s) \/ Crash(s)
    \/ createSecretKey
    \/ \E r \in Requests :
          \/ \E s \in Servers, type \in VariableType, name \in Names, encrypted \in BOOLEAN :
                CreateVariable(r, s, type, name, encrypted)
          \/ \E s \in Servers, name \in Names : CreateIntegration(r, s, name)
          \/ checkVariable(r) \/ EncryptValue(r) \/ Insert(r) \/ InsertIntegration(r)
    \/ \E v \in variables : DeleteVariable(v)
    \/ \E i \in integrations : DeleteIntegration(i)

Spec == Init /\ [][Next]_vars

\* A server that is started makes progress, and the orchestrator starts it again.
FairSpec == Spec /\ \A s \in Servers : WF_vars(s \in Replicas /\ Boot(s))

-----------------------------------------------------------------------------
\* No list fails on an encrypted value, and no integration's value is lost:
\* whichever server or command made the key, and whatever crashed meanwhile, what
\* is stored is under the key that is kept.  Only a key file that cannot be read
\* at boot is replaced while values are under its key.
Decryptable ==
    ~lost => /\ \A type \in VariableType : ListAnswers(type)
             /\ \A i \in integrations : DecryptValue(i.key)

\* The second of two variables that clash was looked up before the first was
\* inserted: nothing but an overlap, or a lookup that failed, makes a duplicate.
\* An organization's name also clashes with the older names under it.
Clash(new, old) ==
    /\ new.id > old.id /\ new.name = old.name
    /\ new.type = "organization" \/ new.type = old.type
DuplicatesOverlap ==
    \A new, old \in variables : Clash(new, old) => new.since < old.id

\* A server that loses the race for the key, or whose calls fail, still comes up,
\* again and again, and with a key it can use, unless something failed while the
\* key file was written: the empty file is then accepted for ever.
EveryServerUp ==
    \A s \in Servers :
        s \in Replicas ~> server[s] = "up" /\ (encrypt(secret) \/ faults > 0)
==============================================================================
