----------------------------- MODULE StatusFanOut -----------------------------
(***************************************************************************)
(* StatusComponent of the API server (cmd/api-server/applications): five   *)
(* goroutines ask for one property each, assign it and the handler's `err' *)
(* variable, which they share, and send that variable over an unbuffered   *)
(* channel; the handler collects five results or stops at the first error. *)
(* Only whether `err' is nil is kept of it, which is one word of memory.   *)
(* The data race leaves two outcomes to the build: what a goroutine sends  *)
(* is read back from the variable, or is the value it has just assigned.   *)
(* Nothing recovers a panic of a goroutine: it ends the server's process.  *)
(***************************************************************************)
EXTENDS StatusLoad

VARIABLES pc,               \* where each goroutine is
          property,         \* what the response holds for each property
          err,              \* the shared variable is not nil
          value,            \* the result each goroutine is about to send
          received,         \* results the handler has collected
          results,          \* the channel: "open" or "closed"
          panicked          \* a goroutine has panicked, and with it the process

fanOut == <<pc, property, err, value, received, results, panicked>>

Getters == {"resources", "network", "storage", "source", "health"}

FanOutTypeOK ==
    /\ pc \in [Getters -> {"call", "read", "send", "end"}]
    /\ property \in [Getters -> {"unset", "nil", "set"}]
    /\ err \in BOOLEAN
    /\ value \in [Getters -> BOOLEAN]
    /\ received \in 0 .. 5
    /\ results \in {"open", "closed"} /\ panicked \in BOOLEAN

\* The response, the channel and the goroutines, which start once the load is done.
FanOutInit ==
    /\ pc = [g \in Getters |-> "call"]
    /\ property = [g \in Getters |-> "unset"]
    /\ err = FALSE
    /\ value = [g \in Getters |-> FALSE]
    /\ received = 0 /\ results = "open" /\ panicked = FALSE

\* `response.Properties.X, err = status.GetX(name)': every call may also fail
\* on its own, for what it reads from the cluster or cannot decode.
Assign(g) ==
    /\ kind = "status" /\ load = "done" /\ pc[g] = "call"
    /\ \E fails \in getVelaComponent :
          /\ property' = [property EXCEPT ![g] = IF fails THEN "nil" ELSE "set"]
          /\ err' = fails
    /\ pc' = [pc EXCEPT ![g] = "read"]
    /\ UNCHANGED <<kind, load, found, value, received, results, answer, panicked>>

\* A getter asserts the types of what it decodes without looking (the replicas,
\* the cpu and memory, the ports, the command), or decodes properties that are
\* not there.
Panics(g) ==
    /\ kind = "status" /\ load = "done" /\ pc[g] = "call" /\ found
    /\ panicked' = TRUE
    /\ UNCHANGED <<kind, load, found, pc, property, err, value, received, results, answer>>

GetResourcesProperties == Assign("resources") \/ Panics("resources")
GetNetworkProperties == Assign("network") \/ Panics("network")
GetStorageProperties == Assign("storage") \/ Panics("storage")
GetSourceProperties == Assign("source") \/ Panics("source")
GetComponentStatus == Assign("health")

\* Mutant: a goroutine that failed returns without a result.
ReadErrReturns(g) ==
    /\ pc[g] = "read"
    /\ value' = [value EXCEPT ![g] = err]
    /\ pc' = [pc EXCEPT ![g] = IF err THEN "end" ELSE "send"]
    /\ UNCHANGED <<kind, load, found, property, err, received, results, answer, panicked>>

\* Mutant: the goroutine assigns an `err' of its own and sends the handler's.
ReadErrShadowed(g) ==
    /\ pc[g] = "read"
    /\ value' = [value EXCEPT ![g] = FALSE]
    /\ pc' = [pc EXCEPT ![g] = "send"]
    /\ UNCHANGED <<kind, load, found, property, err, received, results, answer, panicked>>

\* `results <- err': the variable is read, and the send waits for the handler.
ReadErr(g) ==
    /\ pc[g] = "read"
    /\ \E v \in {err, property[g] = "nil"} : value' = [value EXCEPT ![g] = v]
    /\ pc' = [pc EXCEPT ![g] = "send"]
    /\ UNCHANGED <<kind, load, found, property, err, received, results, answer, panicked>>

\* Mutant: the test for nil is the wrong way round.
CollectInverted(g) ==
    /\ pc[g] = "send" /\ answer = "none" /\ received < 5
    /\ pc' = [pc EXCEPT ![g] = "end"]
    /\ IF value[g] THEN received' = received + 1 /\ UNCHANGED answer
                   ELSE answer' = "error" /\ UNCHANGED received
    /\ UNCHANGED <<kind, load, found, property, err, value, results, panicked>>

\* Mutant: a result is counted twice.
CollectTwice(g) ==
    /\ pc[g] = "send" /\ answer = "none" /\ received < 5
    /\ pc' = [pc EXCEPT ![g] = "end"]
    /\ IF value[g] THEN answer' = "error" /\ UNCHANGED received
                   ELSE received' = received + 2 /\ UNCHANGED answer
    /\ UNCHANGED <<kind, load, found, property, err, value, results, panicked>>

\* One round of the loop: the first error is the answer and ends it.
Collect(g) ==
    /\ pc[g] = "send" /\ answer = "none" /\ received < 5
    /\ pc' = [pc EXCEPT ![g] = "end"]
    /\ IF value[g] THEN answer' = "error" /\ UNCHANGED received
                   ELSE received' = received + 1 /\ UNCHANGED answer
    /\ UNCHANGED <<kind, load, found, property, err, value, results, panicked>>

\* Mutant: the loop ends one round early.
RespondEarly ==
    /\ received = 4 /\ answer = "none"
    /\ results' = "closed" /\ answer' = "ok"
    /\ UNCHANGED <<kind, load, found, pc, property, err, value, received, panicked>>

Respond ==
    /\ received = 5 /\ answer = "none"
    /\ results' = "closed" /\ answer' = "ok"
    /\ UNCHANGED <<kind, load, found, pc, property, err, value, received, panicked>>

FanOutNext ==
    /\ ~panicked
    /\ \/ GetResourcesProperties \/ GetNetworkProperties \/ GetStorageProperties
       \/ GetSourceProperties \/ GetComponentStatus
       \/ \E g \in Getters : ReadErr(g) \/ Collect(g)
       \/ Respond

\* No goroutine is left to send on the channel once it is closed, which would
\* take the whole server down.
NoSendAfterClose == results = "closed" => \A g \in Getters : pc[g] = "end"
==============================================================================
