-------------------------- MODULE ComponentRequests --------------------------
(***************************************************************************)
(* One request of the API server about what is deployed, of any kind, from *)
(* its route to its answer: the common load of StatusLoad, the single      *)
(* calls, the goroutines of StatusFanOut and the stream of LogStreaming.   *)
(***************************************************************************)
EXTENDS StatusFanOut, LogStreaming

vars == <<kind, load, found, answer, fanOut, logs>>

TypeOK == LoadTypeOK /\ FanOutTypeOK /\ LogsTypeOK

Init == LoadInit /\ FanOutInit /\ LogsInit

Loading == LoadNext /\ UNCHANGED <<fanOut, logs>>
Asking == FanOutNext /\ UNCHANGED logs
Streaming == LogsNext /\ UNCHANGED fanOut

Next == Loading \/ Asking \/ Streaming

Spec == Init /\ [][Next]_vars

\* Handlers and goroutines are scheduled and their calls return; a log may stay
\* silent, unless its context is cancelled; the client need not leave.
Fairness ==
    /\ WF_vars(Loading) /\ WF_vars(Asking)
    /\ WF_vars(StreamLogs /\ UNCHANGED fanOut) /\ WF_vars(CheckClient /\ UNCHANGED fanOut)
    /\ \A p \in Pods :
          /\ WF_vars(OpenLog(p) /\ UNCHANGED fanOut)
          /\ WF_vars(Cancelled /\ ReadLog(p) /\ UNCHANGED fanOut)
          /\ WF_vars(SelectLine(p) /\ UNCHANGED fanOut)
          /\ WF_vars(SelectError(p) /\ UNCHANGED fanOut)

FairSpec == Spec /\ Fairness

\* An error is answered only if a read of statusLoad or the last call failed,
\* although the variable it is read from is written by all five goroutines, and
\* if a stream ends with one it is a pod's that has reported it.
ErrorHasCause ==
    answer = "error" /\ load = "done" =>
        /\ kind # "application"
        /\ kind = "status" => \E g \in Getters : property[g] = "nil"
        /\ kind = "logs" => handler = "start" \/ (event \in Pods /\ pod[event] = "end")

\* An answer without an error is about something: a component that is not in the
\* deployed application is never answered with a health or an empty status.  A
\* status need not have all five results, because a success overwrites the error
\* of another goroutine.
OkHasAResult ==
    answer = "ok" =>
        /\ kind \in {"status", "health"} => found
        /\ kind = "status" => \E g \in Getters : property[g] = "set"

\* The client is answered, whatever fails and in whatever order, unless one of the
\* goroutines of a status panics on what it reads of a deployed component and
\* takes the server with it; only a stream may go on for ever.
Answered ==
    kind # "logs" ~> answer # "none" \/ (kind = "status" /\ found /\ panicked)
==============================================================================
