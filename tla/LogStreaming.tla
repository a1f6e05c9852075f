----------------------------- MODULE LogStreaming -----------------------------
(***************************************************************************)
(* StreamLogs of the API server: one goroutine per pod follows the pod's   *)
(* log (cmd/api-server/providers) and hands its lines over an unbuffered   *)
(* channel to the handler (cmd/api-server/applications), which writes them *)
(* to the client.  The goroutines stop reading when the request's context  *)
(* is cancelled, but wait at a channel whatever happens.                   *)
(***************************************************************************)
EXTENDS StatusLoad

CONSTANTS Pods,             \* the pods asked for
          MaxLines          \* lines of a pod's log

ASSUME MaxLinesAssumption == MaxLines \in Nat

VARIABLES pod,              \* where the goroutine of each pod is
          read,             \* lines it has read
          delivered,        \* lines of the pod written to the client
          cut,              \* its last line had no end, and was thrown away
          ended,            \* the end of the pod's log has reached its reader
          handler,          \* "start", then "check" the client and "select" in turn
          event,            \* the error event: none, or the pod it came from
          client            \* "there" or "gone"

logs == <<pod, read, delivered, cut, ended, handler, event, client>>

NoEvent == "no event"
ASSUME NoEventAssumption == NoEvent \notin Pods

LogsTypeOK ==
    /\ pod \in [Pods -> {"open", "read", "line", "error", "end"}]
    /\ read \in [Pods -> 0 .. MaxLines] /\ delivered \in [Pods -> 0 .. MaxLines]
    /\ cut \in [Pods -> BOOLEAN] /\ ended \in [Pods -> BOOLEAN]
    /\ handler \in {"start", "check", "select"}
    /\ event \in Pods \cup {NoEvent}
    /\ client \in {"there", "gone"}

LogsInit ==
    /\ pod = [p \in Pods |-> "open"]
    /\ read = [p \in Pods |-> 0] /\ delivered = [p \in Pods |-> 0]
    /\ cut = [p \in Pods |-> FALSE] /\ ended = [p \in Pods |-> FALSE]
    /\ handler = "start" /\ event = NoEvent /\ client = "there"

Goes(p, to) == pod' = [pod EXCEPT ![p] = to]

\* The handler has returned.
Returned == answer # "none"

\* Mutant: the logs are followed under a context of their own.
CancelledByHandler == Returned

\* The request's context: the server cancels it when the client is gone and
\* when the handler returns.
Cancelled == client = "gone" \/ Returned

\* The pods are named in the query, or the request is refused.
StreamLogs ==
    /\ kind = "logs" /\ load = "done" /\ handler = "start" /\ answer = "none"
    /\ \/ handler' = "check" /\ UNCHANGED answer
       \/ answer' = "error" /\ UNCHANGED handler
    /\ UNCHANGED <<kind, load, found, pod, read, delivered, cut, ended, event, client>>

\* The log is opened.  A pod that does not exist, or a failure that is not the
\* API server's, is reported; any other refusal ends the goroutine silently.
OpenLog(p) ==
    /\ handler # "start" /\ pod[p] = "open"
    /\ \/ ~Cancelled /\ Goes(p, "read")
       \/ Goes(p, "error")
       \/ ~Cancelled /\ Goes(p, "end")
    /\ UNCHANGED <<kind, load, found, answer, read, delivered, cut, ended, handler, event, client>>

\* The pod stops: its log ends, before the connection is torn down.
LogEnds(p) ==
    /\ pod[p] \in {"read", "line"} /\ ~ended[p] /\ ~Cancelled
    /\ ended' = [ended EXCEPT ![p] = TRUE]
    /\ UNCHANGED <<kind, load, found, answer, pod, read, delivered, cut, handler, event, client>>

\* ReadString returns what it has of a line without an end together with io.EOF
\* or the error, and the goroutine looks at the error only.
LastLineCut(p) ==
    /\ read[p] < MaxLines
    /\ read' = [read EXCEPT ![p] = read[p] + 1]
    /\ cut' = [cut EXCEPT ![p] = TRUE]

\* ReadString: the next line, which may have been buffered before the cancellation,
\* the end of the log, or a read error.
ReadLog(p) ==
    /\ pod[p] = "read"
    /\ \/ /\ read[p] < MaxLines
          /\ Goes(p, "line") /\ read' = [read EXCEPT ![p] = read[p] + 1]
          /\ UNCHANGED cut
       \/ /\ Goes(p, IF ended[p] THEN "end" ELSE "error")
          /\ \/ UNCHANGED <<read, cut>>
             \/ LastLineCut(p)
    /\ UNCHANGED <<kind, load, found, answer, delivered, ended, handler, event, client>>

\* c.Stream looks at the client before each round.
CheckClient ==
    /\ handler = "check" /\ ~Returned
    /\ IF client = "gone" THEN answer' = "ok" /\ UNCHANGED handler
                          ELSE handler' = "select" /\ UNCHANGED answer
    /\ UNCHANGED <<kind, load, found, pod, read, delivered, cut, ended, event, client>>

\* Mutant: two goroutines hand over the lines that one of them has read.
SelectLineAll(p) ==
    /\ handler = "select" /\ ~Returned /\ pod[p] = "line"
    /\ pod' = [q \in Pods |-> IF pod[q] = "line" THEN "read" ELSE pod[q]]
    /\ delivered' = [delivered EXCEPT ![p] = delivered[p] + 1] /\ handler' = "check"
    /\ UNCHANGED <<kind, load, found, answer, read, cut, ended, event, client>>

\* The round's select, which watches nothing but the two channels.
SelectLine(p) ==
    /\ handler = "select" /\ ~Returned /\ pod[p] = "line"
    /\ Goes(p, "read")
    /\ delivered' = [delivered EXCEPT ![p] = delivered[p] + 1] /\ handler' = "check"
    /\ UNCHANGED <<kind, load, found, answer, read, cut, ended, event, client>>

\* Mutant: an error does not end the stream.
SelectErrorGoesOn(p) ==
    /\ handler = "select" /\ ~Returned /\ pod[p] = "error"
    /\ Goes(p, "end")
    /\ event' = p
    /\ UNCHANGED <<kind, load, found, answer, handler, read, delivered, cut, ended, client>>

SelectError(p) ==
    /\ handler = "select" /\ ~Returned /\ pod[p] = "error"
    /\ Goes(p, "end")
    /\ event' = p /\ answer' = "error"
    /\ UNCHANGED <<kind, load, found, handler, read, delivered, cut, ended, client>>

ClientLeaves ==
    /\ kind = "logs" /\ client = "there" /\ client' = "gone"
    /\ UNCHANGED <<kind, load, found, answer, pod, read, delivered, cut, ended, handler, event>>

LogsNext ==
    \/ StreamLogs \/ CheckClient \/ ClientLeaves
    \/ \E p \in Pods : OpenLog(p) \/ LogEnds(p) \/ ReadLog(p) \/ SelectLine(p) \/ SelectError(p)

\* Every line that has been read is written or in its goroutine's hands: the
\* pods' lines may mix, but each pod's come in order, none twice, and none is lost
\* but the last one of a log that stops in the middle of it.
LinesInOrder ==
    \A p \in Pods :
        /\ read[p] = delivered[p] + (IF pod[p] = "line" \/ cut[p] THEN 1 ELSE 0)
        /\ cut[p] => pod[p] \in {"error", "end"}

\* A client that leaves takes its request with it, as long as one of the pods is
\* still writing its log: the cancelled read unblocks the select.
LeavingEndsRequest ==
    (client = "gone" /\ \E p \in Pods : pod[p] # "end" /\ ~ended[p]) ~> Returned

\* A pod that cannot be followed ends the request, however many lines the
\* others have.
ErrorEndsRequest == (\E p \in Pods : pod[p] = "error") ~> Returned
==============================================================================
