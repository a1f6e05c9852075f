------------------------- MODULE VariableStoreProofs -------------------------
(***************************************************************************)
(* Safety of the encryption key and of what is encrypted with it, for any  *)
(* servers, requests, names, and any number of keys, documents and faults, *)
(* under both strategies.                                                  *)
(***************************************************************************)
EXTENDS VariableStore, TLAPS

(***************************************************************************)
(* The inductive invariant.                                                *)
(***************************************************************************)
\* A key file is written by the one server that has it, and is empty meanwhile.
OneWriter ==
    \A s \in Servers :
        /\ strategy = "local" /\ server[s] # "load" => s \in Replicas
        /\ server[s] = "write" => strategy = "local" /\ secret = Torn

\* A value that was made with a key is under the one that is kept.
Kept(key) == key \in 1 .. MaxKeys /\ (~lost => key = secret)

\* So is every value that is stored, or about to be.
ValuesKept ==
    /\ \A v \in variables : v.encrypted => Kept(v.key)
    /\ \A i \in integrations : Kept(i.key)
    /\ \A r \in Requests :
          request[r].at = "insert" /\ request[r].encrypted => Kept(request[r].key)

\* An integration's value is always encrypted.
IntegrationsEncrypted ==
    \A r \in Requests :
        request[r] # Idle /\ request[r].type = "integration" => request[r].encrypted

\* The variables that the lookup for a request would have found.
Matches(type, name, v) == v.name = name /\ (type = "organization" \/ v.type = type)

\* A variable that a checked request clashes with was inserted after its lookup.
CheckedRequests ==
    \A r \in Requests :
        request[r].at \in {"encrypt", "insert"} /\ request[r].type # "integration" =>
            /\ request[r].since <= inserted
            /\ \A v \in variables :
                  Matches(request[r].type, request[r].name, v) => request[r].since < v.id

IdsCounted == \A v \in variables : v.id <= inserted

IndInv ==
    /\ TypeOK /\ OneWriter /\ ValuesKept /\ IntegrationsEncrypted
    /\ CheckedRequests /\ IdsCounted /\ DuplicatesOverlap

(***************************************************************************)
(* Facts about the model's constants and operators.                        *)
(***************************************************************************)
\* An empty file is no key.
LEMMA TornIsNoKey == Torn \notin 1 .. MaxKeys /\ Torn # NoKey /\ NoKey \notin 1 .. MaxKeys
  BY BoundsAssumption DEF Torn, NoKey

\* Every server that may act is one of the servers.
LEMMA ReplicasAreServers == Replicas \subseteq Servers
  BY ServersAssumption DEF Replicas

\* A request that is not under way is at no step.
LEMMA IdleRequest == Idle.at = "idle"
  BY DEF Idle

\* A call that fails is counted.
LEMMA FaultType == ASSUME TypeOK, Fault PROVE faults' \in 0 .. MaxFaults
  BY BoundsAssumption DEF TypeOK, Fault

(***************************************************************************)
(* The invariant in three parts.  Which of them a step can disturb depends *)
(* on what it writes.                                                      *)
(***************************************************************************)
\* At boot, before any server is up, everything holds.
LEMMA InitInd == Init => IndInv
  <1> SUFFICES ASSUME Init PROVE IndInv
    OBVIOUS
  <1>1. TypeOK
    <2>1. lost \in BOOLEAN /\ request \in [Requests -> Pending \cup {Idle}]
      BY DEF Init
    <2>2. variables \subseteq Variable
          /\ integrations \subseteq [id : 1 .. MaxVariables, name : Names, key : 1 .. MaxKeys]
      BY DEF Init
    <2>3. /\ secret \in 0 .. Torn /\ keys \in 0 .. MaxKeys /\ inserted \in 0 .. MaxVariables
          /\ faults \in 0 .. MaxFaults /\ fresh \in [Servers -> 0 .. MaxKeys]
      BY BoundsAssumption DEF Init, NoKey, Torn
    <2>. QED
      BY <2>1, <2>2, <2>3 DEF Init, TypeOK
  <1>2. OneWriter
    BY DEF Init, OneWriter
  <1>3. ValuesKept /\ IntegrationsEncrypted /\ CheckedRequests /\ IdsCounted /\ DuplicatesOverlap
    BY IdleRequest DEF Init, ValuesKept, IntegrationsEncrypted, CheckedRequests, IdsCounted, DuplicatesOverlap
  <1>. QED
    BY <1>1, <1>2, <1>3 DEF IndInv

\* A step of the boot, or of a crash, that keeps the requests and the documents:
\* what is stored stays under the key if the key stays, or if there was none.
LEMMA KeyStep ==
  ASSUME IndInv, TypeOK', OneWriter', UNCHANGED <<variables, integrations, inserted>>,
         \A r \in Requests : request'[r] \in {request[r], Idle},
         \/ secret' = secret /\ lost' = lost
         \/ lost'
         \/ lost' = lost /\ secret \notin 1 .. MaxKeys
  PROVE  IndInv'
  <1>0. ValuesKept /\ IntegrationsEncrypted /\ CheckedRequests /\ IdsCounted /\ DuplicatesOverlap
        /\ lost' \in BOOLEAN /\ lost \in BOOLEAN
    BY DEF IndInv, TypeOK
  <1>1. \A key : Kept(key) => Kept(key)'
    BY <1>0 DEF Kept
  <1>2. ValuesKept'
    BY <1>0, <1>1, IdleRequest DEF ValuesKept
  <1>3. IntegrationsEncrypted' /\ CheckedRequests'
    BY <1>0, IdleRequest DEF IntegrationsEncrypted, CheckedRequests, Matches
  <1>4. IdsCounted' /\ DuplicatesOverlap'
    BY <1>0 DEF IdsCounted, DuplicatesOverlap, Clash
  <1>. QED
    BY <1>2, <1>3, <1>4 DEF IndInv

\* The boot of a server, step by step, and a crash.
LEMMA BootInd ==
  ASSUME IndInv, NEW s \in Replicas, Boot(s) \/ Crash(s)
  PROVE  IndInv'
  <1>0. TypeOK /\ OneWriter /\ s \in Servers
    BY ReplicasAreServers DEF IndInv
  <1>a. /\ MaxKeys \in Nat /\ secret \in 0 .. Torn /\ keys \in 0 .. MaxKeys
        /\ fresh \in [Servers -> 0 .. MaxKeys] /\ fresh[s] \in 0 .. MaxKeys
        /\ server \in [Servers -> {"load", "save", "write", "up"}]
        /\ Replicas' = Replicas \/ strategy' # strategy
    BY <1>0, BoundsAssumption DEF TypeOK, Replicas
  <1>b. \A r \in Requests : UNCHANGED request => request'[r] \in {request[r], Idle}
    OBVIOUS
  <1>1. CASE GenerateRouter(s)
    <2>1. /\ UNCHANGED <<strategy, secret, request, variables, integrations, inserted, lost>>
          /\ server' = [server EXCEPT ![s] = "up"] \/ server' = [server EXCEPT ![s] = "save"]
      BY <1>1 DEF GenerateRouter
    <2>2. keys' \in 0 .. MaxKeys /\ fresh' \in [Servers -> 0 .. MaxKeys]
          /\ faults' \in 0 .. MaxFaults
      BY <1>0, <1>1, <1>a, FaultType DEF GenerateRouter, GenerateAESKey, TypeOK
    <2>3. server' \in [Servers -> {"load", "save", "write", "up"}]
      BY <1>a, <2>1
    <2>4. TypeOK'
      BY <1>0, <2>1, <2>2, <2>3 DEF TypeOK
    <2>5. OneWriter'
      BY <1>0, <1>a, <2>1 DEF OneWriter
    <2>. QED
      BY <1>b, <2>1, <2>4, <2>5, KeyStep
  <1>2. CASE Save(s)
    <2>1. /\ UNCHANGED <<strategy, keys, request, variables, integrations, inserted, lost>>
          /\ server' = [server EXCEPT ![s] = "up"] \/ server' = [server EXCEPT ![s] = "load"]
          /\ fresh' = [fresh EXCEPT ![s] = NoKey] /\ strategy = "k8s"
          /\ secret' = secret \/ (secret = NoKey /\ secret' \in {NoKey, fresh[s]})
      BY <1>2 DEF Save, Leaves
    <2>2. /\ fresh' \in [Servers -> 0 .. MaxKeys] /\ secret' \in 0 .. Torn
          /\ faults' \in 0 .. MaxFaults
      BY <1>0, <1>2, <1>a, <2>1, FaultType DEF Save, TypeOK, NoKey, Torn
    <2>3. server' \in [Servers -> {"load", "save", "write", "up"}]
      BY <1>a, <2>1
    <2>4. TypeOK'
      BY <1>0, <2>1, <2>2, <2>3 DEF TypeOK
    <2>5. OneWriter'
      BY <1>0, <1>a, <2>1 DEF OneWriter
    <2>. QED
      BY <1>b, <2>1, <2>4, <2>5, KeyStep, TornIsNoKey
  <1>3. CASE OpenFile(s)
    <2>1. /\ UNCHANGED <<strategy, keys, request, variables, integrations, inserted>>
          /\ strategy = "local"
          /\ fresh' = [fresh EXCEPT ![s] = NoKey] \/ fresh' = fresh
          /\ \/ /\ secret' = Torn /\ lost' = (lost \/ secret \in 1 .. MaxKeys)
                /\ server' = [server EXCEPT ![s] = "write"]
             \/ /\ UNCHANGED <<secret, lost>>
                /\ server' = [server EXCEPT ![s] = "load"]
      BY <1>3 DEF OpenFile, Leaves
    <2>2. /\ fresh' \in [Servers -> 0 .. MaxKeys] /\ secret' \in 0 .. Torn
          /\ faults' \in 0 .. MaxFaults
      BY <1>0, <1>3, <1>a, <2>1, FaultType DEF OpenFile, TypeOK, NoKey, Torn
    <2>3. server' \in [Servers -> {"load", "save", "write", "up"}]
      BY <1>a, <2>1
    <2>4. lost' \in BOOLEAN
      BY <1>0, <2>1 DEF TypeOK
    <2>5. TypeOK'
      BY <1>0, <2>1, <2>2, <2>3, <2>4 DEF TypeOK
    <2>6. OneWriter'
      <3> SUFFICES ASSUME NEW q \in Servers
                   PROVE  /\ strategy' = "local" /\ server'[q] # "load" => q \in Replicas'
                          /\ server'[q] = "write" => strategy' = "local" /\ secret' = Torn
        BY DEF OneWriter
      <3>1. Replicas' = Replicas
        BY <1>a, <2>1
      <3>2. CASE q = s
        BY <1>0, <1>a, <2>1, <3>1, <3>2
      <3>3. CASE q # s
        BY <1>0, <1>a, <2>1, <3>1, <3>3 DEF OneWriter
      <3>. QED
        BY <3>2, <3>3
    <2>7. \/ secret' = secret /\ lost' = lost
          \/ lost'
          \/ lost' = lost /\ secret \notin 1 .. MaxKeys
      BY <1>0, <2>1 DEF TypeOK
    <2>. QED
      BY <1>b, <2>1, <2>5, <2>6, <2>7, KeyStep
  <1>4. CASE WriteFile(s)
    <2>1. /\ UNCHANGED <<strategy, keys, request, variables, integrations, inserted, lost>>
          /\ server[s] = "write"
          /\ fresh' = [fresh EXCEPT ![s] = NoKey]
          /\ server' = [server EXCEPT ![s] = "up"] \/ server' = [server EXCEPT ![s] = "load"]
          /\ secret' \in {secret, fresh[s]}
      BY <1>4 DEF WriteFile, Leaves
    <2>2. secret = Torn /\ strategy = "local"
      BY <1>0, <2>1 DEF OneWriter
    <2>3. /\ fresh' \in [Servers -> 0 .. MaxKeys] /\ secret' \in 0 .. Torn
          /\ faults' \in 0 .. MaxFaults
      BY <1>0, <1>4, <1>a, <2>1, FaultType DEF WriteFile, TypeOK, NoKey, Torn
    <2>4. server' \in [Servers -> {"load", "save", "write", "up"}]
      BY <1>a, <2>1
    <2>5. TypeOK'
      BY <1>0, <2>1, <2>3, <2>4 DEF TypeOK
    <2>6. OneWriter'
      <3>1. Replicas' = Replicas /\ Replicas = {s}
        BY <1>a, <2>1, <2>2 DEF Replicas
      <3>2. \A q \in Servers : server[q] # "load" => q = s
        BY <1>0, <2>2, <3>1 DEF OneWriter
      <3>. QED
        BY <1>0, <1>a, <2>1, <2>2, <3>1, <3>2 DEF OneWriter
    <2>. QED
      BY <1>b, <2>1, <2>2, <2>5, <2>6, KeyStep, TornIsNoKey
  <1>5. CASE Crash(s)
    <2>1. /\ UNCHANGED <<strategy, secret, keys, fresh, variables, integrations, inserted, lost>>
          /\ server' = [server EXCEPT ![s] = "load"]
          /\ faults' \in 0 .. MaxFaults
      BY <1>0, <1>5, FaultType DEF Crash
    <2>2. /\ request' \in [Requests -> Pending \cup {Idle}]
          /\ \A r \in Requests : request'[r] \in {request[r], Idle}
      BY <1>0, <1>5 DEF Crash, TypeOK
    <2>3. server' \in [Servers -> {"load", "save", "write", "up"}]
      BY <1>a, <2>1
    <2>4. TypeOK'
      BY <1>0, <2>1, <2>2, <2>3 DEF TypeOK
    <2>5. OneWriter'
      BY <1>0, <1>a, <2>1 DEF OneWriter
    <2>. QED
      BY <2>1, <2>2, <2>4, <2>5, KeyStep
  <1>. QED
    BY <1>1, <1>2, <1>3, <1>4, <1>5 DEF Boot

\* The command makes a key only where there is none.
LEMMA CommandInd == ASSUME IndInv, createSecretKey PROVE IndInv'
  <1>0. TypeOK /\ OneWriter /\ MaxKeys \in Nat
    BY BoundsAssumption DEF IndInv
  <1>1. /\ UNCHANGED <<strategy, server, fresh, request, variables, integrations, inserted, lost, faults>>
        /\ strategy = "k8s" /\ secret = NoKey /\ keys < MaxKeys
        /\ keys' = keys + 1 /\ secret' = keys + 1
    BY DEF createSecretKey
  <1>2. keys' \in 0 .. MaxKeys /\ secret' \in 0 .. Torn
    BY <1>0, <1>1 DEF TypeOK, Torn
  <1>3. TypeOK'
    BY <1>0, <1>1, <1>2 DEF TypeOK
  <1>4. OneWriter'
    BY <1>0, <1>1 DEF OneWriter
  <1>. QED
    BY <1>1, <1>3, <1>4, KeyStep, TornIsNoKey

(***************************************************************************)
(* The requests.  They leave the key as it is, so that the invariant is    *)
(* kept if it is for the request that moves and for the new document.      *)
(***************************************************************************)
\* A request moves on, or ends, and no document is inserted.
LEMMA RequestStep ==
  ASSUME IndInv, NEW r \in Requests, NEW to, Goes(r, to), to \in Pending \cup {Idle},
         UNCHANGED <<strategy, secret, keys, server, fresh, variables, integrations, inserted, lost>>,
         faults' \in 0 .. MaxFaults,
         to.at = "insert" /\ to.encrypted => Kept(to.key),
         to # Idle /\ to.type = "integration" => to.encrypted,
         to.at \in {"encrypt", "insert"} /\ to.type # "integration" =>
            /\ to.since <= inserted
            /\ \A v \in variables : Matches(to.type, to.name, v) => to.since < v.id
  PROVE  IndInv'
  <1>0. /\ TypeOK /\ OneWriter /\ ValuesKept /\ IntegrationsEncrypted
        /\ CheckedRequests /\ IdsCounted /\ DuplicatesOverlap
    BY DEF IndInv
  <1>1. /\ request' \in [Requests -> Pending \cup {Idle}]
        /\ \A q \in Requests : request'[q] = IF q = r THEN to ELSE request[q]
    BY <1>0 DEF TypeOK, Goes
  <1>2. TypeOK'
    BY <1>0, <1>1 DEF TypeOK
  <1>3. OneWriter'
    BY <1>0 DEF OneWriter, Replicas
  <1>4. \A key : Kept(key)' <=> Kept(key)
    BY DEF Kept
  <1>5. ValuesKept'
    BY <1>0, <1>1, <1>4 DEF ValuesKept
  <1>6. IntegrationsEncrypted'
    BY <1>0, <1>1 DEF IntegrationsEncrypted
  <1>7. CheckedRequests'
    BY <1>0, <1>1 DEF CheckedRequests, Matches
  <1>8. IdsCounted' /\ DuplicatesOverlap'
    BY <1>0 DEF IdsCounted, DuplicatesOverlap, Clash
  <1>. QED
    BY <1>2, <1>3, <1>5, <1>6, <1>7, <1>8 DEF IndInv

\* A request ends, whatever its reason.
LEMMA EndStep ==
  ASSUME IndInv, NEW r \in Requests, Goes(r, Idle),
         UNCHANGED <<strategy, secret, keys, server, fresh, variables, integrations, inserted, lost>>,
         faults' \in 0 .. MaxFaults
  PROVE  IndInv'
  BY RequestStep, IdleRequest

\* A request that is at a step is not idle, and has the fields of one.
LEMMA PendingRequest ==
  ASSUME TypeOK, NEW r \in Requests, request[r].at # "idle"
  PROVE  request[r] \in Pending /\ request[r] # Idle
  BY IdleRequest DEF TypeOK

\* The handlers up to the insertion.
LEMMA HandlerInd ==
  ASSUME IndInv, NEW r \in Requests,
         \/ \E s \in Servers, type \in VariableType, name \in Names, encrypted \in BOOLEAN :
               CreateVariable(r, s, type, name, encrypted)
         \/ \E s \in Servers, name \in Names : CreateIntegration(r, s, name)
         \/ checkVariable(r)
         \/ EncryptValue(r)
  PROVE  IndInv'
  <1>0. /\ TypeOK /\ ValuesKept /\ IntegrationsEncrypted /\ CheckedRequests /\ IdsCounted
        /\ faults \in 0 .. MaxFaults /\ inserted \in 0 .. MaxVariables
        /\ MaxKeys \in Nat /\ MaxVariables \in Nat
    BY BoundsAssumption DEF IndInv, TypeOK
  <1>1. CASE \E s \in Servers, type \in VariableType, name \in Names, encrypted \in BOOLEAN :
                CreateVariable(r, s, type, name, encrypted)
    <2>1. PICK s \in Servers, type \in VariableType, name \in Names, encrypted \in BOOLEAN :
             CreateVariable(r, s, type, name, encrypted)
      BY <1>1
    <2> DEFINE to == [at |-> "check", server |-> s, type |-> type, name |-> name,
                      encrypted |-> encrypted, since |-> 0, key |-> NoKey]
    <2>2. to \in Pending
      BY <1>0 DEF Pending, NoKey
    <2>3. to.at = "check" /\ to.type \in VariableType
      OBVIOUS
    <2>4. to.type # "integration"
      BY <2>3 DEF VariableType
    <2>5. Goes(r, to)
          /\ UNCHANGED <<strategy, secret, keys, server, fresh, variables, integrations, inserted, lost>>
          /\ faults' \in 0 .. MaxFaults
      BY <1>0, <2>1 DEF CreateVariable
    <2> HIDE DEF to
    <2>. QED
      BY <2>2, <2>3, <2>4, <2>5, RequestStep
  <1>2. CASE \E s \in Servers, name \in Names : CreateIntegration(r, s, name)
    <2>1. PICK s \in Servers, name \in Names : CreateIntegration(r, s, name)
      BY <1>2
    <2> DEFINE to == [at |-> "encrypt", server |-> s, type |-> "integration", name |-> name,
                      encrypted |-> TRUE, since |-> 0, key |-> NoKey]
    <2>2. to \in Pending
      BY <1>0 DEF Pending, NoKey
    <2>3. to.at = "encrypt" /\ to.type = "integration" /\ to.encrypted
      OBVIOUS
    <2>4. Goes(r, to)
          /\ UNCHANGED <<strategy, secret, keys, server, fresh, variables, integrations, inserted, lost>>
          /\ faults' \in 0 .. MaxFaults
      BY <1>0, <2>1 DEF CreateIntegration
    <2> HIDE DEF to
    <2>. QED
      BY <2>2, <2>3, <2>4, RequestStep
  <1>3. CASE checkVariable(r)
    <2> DEFINE to(n) == [request[r] EXCEPT !.at = IF request[r].encrypted THEN "encrypt" ELSE "insert",
                                           !.since = n]
    <2>1. /\ UNCHANGED <<strategy, secret, keys, server, fresh, variables, integrations, inserted, lost>>
          /\ faults' \in 0 .. MaxFaults
      BY <1>0, <1>3, FaultType DEF checkVariable
    <2>2. request[r] \in Pending /\ request[r] # Idle
      BY <1>0, <1>3, PendingRequest DEF checkVariable
    <2>3. \/ Goes(r, Idle)
          \/ ~Lookup(request[r].type, request[r].name) /\ Goes(r, to(inserted))
          \/ Goes(r, to(0))
      BY <1>3 DEF checkVariable
    <2>4. ASSUME NEW n \in 0 .. inserted, Goes(r, to(n)),
                 \A v \in variables : Matches(request[r].type, request[r].name, v) => n < v.id
          PROVE  IndInv'
      <3> DEFINE next == to(n)
      <3>1. n \in 0 .. MaxVariables /\ n <= inserted
        BY <1>0, <2>4
      <3>2. next \in Pending
        BY <2>2, <3>1 DEF Pending
      <3>3. next.since = n /\ next.type = request[r].type /\ next.name = request[r].name
        BY <2>2 DEF Pending
      <3>4. next.encrypted = request[r].encrypted
        BY <2>2 DEF Pending
      <3>5. next.at = "insert" => ~request[r].encrypted
        BY <2>2 DEF Pending
      <3>6. Goes(r, next)
        BY <2>4
      <3> HIDE DEF next
      <3>7. next.at = "insert" /\ next.encrypted => Kept(next.key)
        BY <3>4, <3>5, Zenon
      <3>8. request[r].type = "integration" => request[r].encrypted
        BY <1>0, <2>2 DEF IntegrationsEncrypted
      <3>9. next # Idle /\ next.type = "integration" => next.encrypted
        BY <3>3, <3>4, <3>8, Zenon
      <3>10. /\ next.since <= inserted
             /\ \A v \in variables : Matches(next.type, next.name, v) => next.since < v.id
        BY <2>4, <3>1, <3>3
      <3>. QED
        BY <2>1, <3>2, <3>6, <3>7, <3>9, <3>10, RequestStep
    <2>5. ASSUME ~Lookup(request[r].type, request[r].name), Goes(r, to(inserted)) PROVE IndInv'
      <3>1. \A v \in variables : ~Matches(request[r].type, request[r].name, v)
        BY <2>5 DEF Lookup, Matches
      <3>2. inserted \in 0 .. inserted
        BY <1>0
      <3> HIDE DEF to
      <3>. QED
        BY <2>4, <2>5, <3>1, <3>2
    <2>6. ASSUME Goes(r, to(0)) PROVE IndInv'
      <3>1. \A v \in variables : 0 < v.id
        BY <1>0 DEF TypeOK, Variable
      <3>2. 0 \in 0 .. inserted
        BY <1>0
      <3> HIDE DEF to
      <3>. QED
        BY <2>4, <2>6, <3>1, <3>2
    <2>. QED
      BY <2>1, <2>3, <2>5, <2>6, EndStep
  <1>4. CASE EncryptValue(r)
    <2> DEFINE to == [request[r] EXCEPT !.at = "insert", !.key = secret]
    <2>1. /\ UNCHANGED <<strategy, secret, keys, server, fresh, variables, integrations, inserted, lost>>
          /\ faults' \in 0 .. MaxFaults
          /\ Goes(r, Idle) \/ (encrypt(secret) /\ Goes(r, to))
      BY <1>0, <1>4, FaultType DEF EncryptValue
    <2>2. request[r] \in Pending /\ request[r] # Idle /\ request[r].at = "encrypt"
      BY <1>0, <1>4, PendingRequest DEF EncryptValue
    <2>3. ASSUME encrypt(secret), Goes(r, to) PROVE IndInv'
      <3>1. secret \in 1 .. MaxKeys
        BY <2>3 DEF encrypt
      <3>2. /\ to.key = secret /\ to.type = request[r].type
            /\ to.name = request[r].name
            /\ to.at = "insert" /\ to.since = request[r].since
        BY <2>2 DEF Pending
      <3>3. Kept(to.key)
        BY <3>1, <3>2 DEF Kept
      <3>4. to.type = "integration" => to.encrypted
        <4>1. request[r].type = "integration" => request[r].encrypted
          BY <1>0, <2>2 DEF IntegrationsEncrypted
        <4>2. to.encrypted = request[r].encrypted
          BY <2>2 DEF Pending
        <4> HIDE DEF to
        <4>. QED
          BY <3>2, <4>1, <4>2, Zenon
      <3>5. to.type # "integration" =>
               /\ to.since <= inserted
               /\ \A v \in variables : Matches(to.type, to.name, v) => to.since < v.id
        BY <1>0, <2>2, <3>2 DEF CheckedRequests
      <3>6. to \in Pending
        <4>1. secret \in 0 .. MaxKeys
          BY <1>0, <3>1
        <4>. QED
          BY <2>2, <4>1 DEF Pending
      <3>7. Goes(r, to)
        BY <2>3
      <3> HIDE DEF to
      <3>. QED
        BY <2>1, <3>3, <3>4, <3>5, <3>6, <3>7, RequestStep
    <2>. QED
      BY <2>1, <2>3, EndStep
  <1>. QED
    BY <1>1, <1>2, <1>3, <1>4

\* A variable is inserted, with the next id, and its request ends.
LEMMA InsertInd == ASSUME IndInv, NEW r \in Requests, Insert(r) PROVE IndInv'
  <1>0. /\ TypeOK /\ OneWriter /\ ValuesKept /\ IntegrationsEncrypted
        /\ CheckedRequests /\ IdsCounted /\ DuplicatesOverlap
        /\ inserted \in 0 .. MaxVariables /\ MaxVariables \in Nat
    BY BoundsAssumption DEF IndInv, TypeOK
  <1>1. /\ UNCHANGED <<strategy, secret, keys, server, fresh, integrations, lost>>
        /\ Goes(r, Idle) /\ faults' \in 0 .. MaxFaults
        /\ request[r].at = "insert" /\ request[r].type # "integration"
    BY <1>0, FaultType DEF Insert, TypeOK
  <1>2. CASE UNCHANGED <<variables, inserted>>
    BY <1>1, <1>2, EndStep
  <1>3. CASE ~UNCHANGED <<variables, inserted>>
    <2> DEFINE new == [id |-> inserted + 1, type |-> request[r].type, name |-> request[r].name,
                       encrypted |-> request[r].encrypted, since |-> request[r].since,
                       key |-> request[r].key]
    <2>1. inserted < MaxVariables /\ inserted' = inserted + 1 /\ variables' = variables \cup {new}
      BY <1>3 DEF Insert
    <2>2. request[r] \in Pending
      BY <1>0, <1>1, PendingRequest
    <2>3. new \in Variable
      BY <1>0, <1>1, <2>1, <2>2 DEF Variable, Pending
    <2>4. /\ new.id = inserted + 1 /\ new.type = request[r].type /\ new.name = request[r].name
          /\ new.since = request[r].since /\ new.key = request[r].key
      OBVIOUS
    <2>5. new.encrypted => Kept(new.key)
      BY <1>0, <1>1 DEF ValuesKept
    <2>6. /\ new.since <= inserted
          /\ \A v \in variables : Matches(new.type, new.name, v) => new.since < v.id
      BY <1>0, <1>1, <2>4 DEF CheckedRequests
    <2> HIDE DEF new
    <2>7. /\ request' \in [Requests -> Pending \cup {Idle}]
          /\ \A q \in Requests : request'[q] = IF q = r THEN Idle ELSE request[q]
      BY <1>0, <1>1 DEF TypeOK, Goes
    <2>8. TypeOK'
      BY <1>0, <1>1, <2>1, <2>3, <2>7 DEF TypeOK
    <2>9. OneWriter'
      BY <1>0, <1>1 DEF OneWriter, Replicas
    <2>10. \A key : Kept(key)' <=> Kept(key)
      BY <1>1 DEF Kept
    <2>11. ValuesKept'
      BY <1>0, <1>1, <2>1, <2>5, <2>7, <2>10, IdleRequest DEF ValuesKept
    <2>12. IntegrationsEncrypted'
      BY <1>0, <2>7 DEF IntegrationsEncrypted
    <2>13. CheckedRequests'
      <3> SUFFICES ASSUME NEW q \in Requests, request'[q].at \in {"encrypt", "insert"},
                          request'[q].type # "integration"
                   PROVE  /\ request'[q].since <= inserted'
                          /\ \A v \in variables' :
                                Matches(request'[q].type, request'[q].name, v) => request'[q].since < v.id
        BY DEF CheckedRequests, Matches
      <3>1. q # r /\ request'[q] = request[q]
        BY <2>7, IdleRequest
      <3>2. request[q] \in Pending
        BY <1>0, <3>1, PendingRequest
      <3>3. request[q].since <= inserted /\ request[q].since \in Nat
        BY <1>0, <3>1, <3>2 DEF CheckedRequests, Pending
      <3>4. \A v \in variables : Matches(request[q].type, request[q].name, v) => request[q].since < v.id
        BY <1>0, <3>1 DEF CheckedRequests
      <3>. QED
        BY <1>0, <2>1, <2>4, <3>1, <3>3, <3>4
    <2>14. IdsCounted'
      BY <1>0, <2>1, <2>4 DEF IdsCounted, TypeOK, Variable
    <2>15. DuplicatesOverlap'
      <3> SUFFICES ASSUME NEW u \in variables', NEW v \in variables', Clash(u, v)
                   PROVE  u.since < v.id
        BY DEF DuplicatesOverlap, Clash
      <3>1. CASE u \in variables /\ v \in variables
        BY <1>0, <3>1 DEF DuplicatesOverlap
      <3>2. CASE u = new /\ v \in variables
        BY <2>6, <3>2 DEF Clash, Matches
      <3>3. CASE u \in variables /\ v = new
        BY <1>0, <2>4, <3>3 DEF IdsCounted, TypeOK, Variable, Clash
      <3>4. CASE u = new /\ v = new
        BY <1>0, <2>4, <3>4 DEF Clash
      <3>. QED
        BY <2>1, <3>1, <3>2, <3>3, <3>4
    <2>. QED
      BY <2>8, <2>9, <2>11, <2>12, <2>13, <2>14, <2>15 DEF IndInv
  <1>. QED
    BY <1>2, <1>3

\* So is an integration, whose value is encrypted.
LEMMA InsertIntegrationInd ==
  ASSUME IndInv, NEW r \in Requests, InsertIntegration(r) PROVE IndInv'
  <1>0. /\ TypeOK /\ OneWriter /\ ValuesKept /\ IntegrationsEncrypted
        /\ CheckedRequests /\ IdsCounted /\ DuplicatesOverlap
        /\ inserted \in 0 .. MaxVariables /\ MaxVariables \in Nat
    BY BoundsAssumption DEF IndInv, TypeOK
  <1>1. /\ UNCHANGED <<strategy, secret, keys, server, fresh, variables, lost>>
        /\ Goes(r, Idle) /\ faults' \in 0 .. MaxFaults
        /\ request[r].at = "insert" /\ request[r].type = "integration"
    BY <1>0, FaultType DEF InsertIntegration, TypeOK
  <1>2. CASE UNCHANGED <<integrations, inserted>>
    BY <1>1, <1>2, EndStep
  <1>3. CASE ~UNCHANGED <<integrations, inserted>>
    <2> DEFINE new == [id |-> inserted + 1, name |-> request[r].name, key |-> request[r].key]
    <2>1. /\ inserted < MaxVariables /\ inserted' = inserted + 1
          /\ integrations' = integrations \cup {new}
      BY <1>3 DEF InsertIntegration
    <2>2. request[r] \in Pending /\ request[r] # Idle
      BY <1>0, <1>1, PendingRequest
    <2>3. Kept(request[r].key)
      BY <1>0, <1>1, <2>2 DEF ValuesKept, IntegrationsEncrypted
    <2>4. new \in [id : 1 .. MaxVariables, name : Names, key : 1 .. MaxKeys] /\ new.key = request[r].key
      BY <1>0, <2>1, <2>2, <2>3 DEF Pending, Kept
    <2> HIDE DEF new
    <2>5. /\ request' \in [Requests -> Pending \cup {Idle}]
          /\ \A q \in Requests : request'[q] = IF q = r THEN Idle ELSE request[q]
      BY <1>0, <1>1 DEF TypeOK, Goes
    <2>6. TypeOK'
      BY <1>0, <1>1, <2>1, <2>4, <2>5 DEF TypeOK
    <2>7. OneWriter'
      BY <1>0, <1>1 DEF OneWriter, Replicas
    <2>8. \A key : Kept(key)' <=> Kept(key)
      BY <1>1 DEF Kept
    <2>9. ValuesKept'
      BY <1>0, <1>1, <2>1, <2>3, <2>4, <2>5, <2>8, IdleRequest DEF ValuesKept
    <2>10. IntegrationsEncrypted'
      BY <1>0, <2>5 DEF IntegrationsEncrypted
    <2>11. CheckedRequests'
      <3> SUFFICES ASSUME NEW q \in Requests, request'[q].at \in {"encrypt", "insert"},
                          request'[q].type # "integration"
                   PROVE  /\ request'[q].since <= inserted'
                          /\ \A v \in variables :
                                Matches(request'[q].type, request'[q].name, v) => request'[q].since < v.id
        BY <1>1 DEF CheckedRequests, Matches
      <3>1. request'[q] = request[q]
        BY <2>5, IdleRequest
      <3>2. request[q] \in Pending
        BY <1>0, <3>1, PendingRequest
      <3>. QED
        BY <1>0, <2>1, <3>1, <3>2 DEF CheckedRequests, Pending
    <2>12. IdsCounted'
      BY <1>0, <1>1, <2>1 DEF IdsCounted, TypeOK, Variable
    <2>13. DuplicatesOverlap'
      BY <1>0, <1>1 DEF DuplicatesOverlap, Clash
    <2>. QED
      BY <2>6, <2>7, <2>9, <2>10, <2>11, <2>12, <2>13 DEF IndInv
  <1>. QED
    BY <1>2, <1>3

\* A deletion leaves a part of what was stored.
LEMMA DeleteInd ==
  ASSUME IndInv,
         \/ \E v \in variables : DeleteVariable(v)
         \/ \E i \in integrations : DeleteIntegration(i)
  PROVE  IndInv'
  <1>0. /\ TypeOK /\ OneWriter /\ ValuesKept /\ IntegrationsEncrypted
        /\ CheckedRequests /\ IdsCounted /\ DuplicatesOverlap
    BY DEF IndInv
  <1>1. /\ UNCHANGED <<strategy, secret, keys, server, fresh, request, inserted, lost>>
        /\ variables' \subseteq variables /\ integrations' \subseteq integrations
        /\ faults' \in 0 .. MaxFaults
    BY <1>0, FaultType DEF DeleteVariable, DeleteIntegration, TypeOK
  <1>2. TypeOK'
    BY <1>0, <1>1 DEF TypeOK
  <1>3. OneWriter'
    BY <1>0, <1>1 DEF OneWriter, Replicas
  <1>4. \A key : Kept(key)' <=> Kept(key)
    BY <1>1 DEF Kept
  <1>5. ValuesKept' /\ IntegrationsEncrypted'
    BY <1>0, <1>1, <1>4 DEF ValuesKept, IntegrationsEncrypted
  <1>6. CheckedRequests'
    BY <1>0, <1>1 DEF CheckedRequests, Matches
  <1>7. IdsCounted' /\ DuplicatesOverlap'
    BY <1>0, <1>1 DEF IdsCounted, DuplicatesOverlap, Clash
  <1>. QED
    BY <1>2, <1>3, <1>5, <1>6, <1>7 DEF IndInv

\* Every step of the servers, the command and the requests keeps the invariant.
LEMMA NextInd == IndInv /\ [Next]_vars => IndInv'
  <1> SUFFICES ASSUME IndInv, [Next]_vars PROVE IndInv'
    OBVIOUS
  <1>1. CASE \E s \in Replicas : Boot(s) \/ Crash(s)
    BY <1>1, BootInd
  <1>2. CASE createSecretKey
    BY <1>2, CommandInd
  <1>3. ASSUME NEW r \in Requests,
               \/ \E s \in Servers, type \in VariableType, name \in Names, encrypted \in BOOLEAN :
                     CreateVariable(r, s, type, name, encrypted)
               \/ \E s \in Servers, name \in Names : CreateIntegration(r, s, name)
               \/ checkVariable(r) \/ EncryptValue(r) \/ Insert(r) \/ InsertIntegration(r)
        PROVE  IndInv'
    BY <1>3, HandlerInd, InsertInd, InsertIntegrationInd
  <1>4. CASE \/ \E v \in variables : DeleteVariable(v)
             \/ \E i \in integrations : DeleteIntegration(i)
    BY <1>4, DeleteInd
  <1>5. CASE UNCHANGED vars
    <2>1. TypeOK' /\ OneWriter'
      BY <1>5 DEF IndInv, TypeOK, OneWriter, Replicas, vars
    <2>. QED
      BY <1>5, <2>1, KeyStep DEF vars
  <1>. QED
    BY <1>1, <1>2, <1>3, <1>4, <1>5 DEF Next

\* The invariant holds from boot on.
THEOREM Invariance == Spec => []IndInv
  BY InitInd, NextInd, PTL DEF Spec

(***************************************************************************)
(* The results.                                                            *)
(***************************************************************************)
\* The state of the servers, the requests and the two collections has its type.
THEOREM TypeCorrect == Spec => []TypeOK
  <1>1. IndInv => TypeOK
    BY DEF IndInv
  <1>. QED
    BY <1>1, Invariance, PTL

\* Whatever races for the key or dies at boot, every list of variables and every
\* integration can be decrypted with the key that is kept, as long as no key in
\* use was overwritten.
THEOREM StoredIsDecryptable == Spec => []Decryptable
  <1>1. ASSUME IndInv PROVE Decryptable
    <2> SUFFICES ASSUME ~lost PROVE /\ \A type \in VariableType : ListAnswers(type)
                                    /\ \A i \in integrations : DecryptValue(i.key)
      BY DEF Decryptable
    <2>1. \A key : Kept(key) => DecryptValue(key)
      BY TornIsNoKey DEF Kept, DecryptValue, Load, decrypt
    <2>. QED
      BY <1>1, <2>1 DEF IndInv, ValuesKept, ListAnswers, List
  <1>. QED
    BY <1>1, Invariance, PTL

\* Of two variables that clash, the second was looked up before the first was
\* inserted: checkVariable is beaten by nothing but an overlap or a failed lookup.
THEOREM ClashesOverlap == Spec => []DuplicatesOverlap
  <1>1. IndInv => DuplicatesOverlap
    BY DEF IndInv
  <1>. QED
    BY <1>1, Invariance, PTL
==============================================================================
