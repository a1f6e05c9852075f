----------------------- MODULE ComponentRequestsProofs -----------------------
(***************************************************************************)
(* Safety of the requests about what is deployed: what StatusComponent     *)
(* makes of five goroutines and one error variable, and StreamLogs of any  *)
(* pods, with logs of any length.                                          *)
(***************************************************************************)
EXTENDS ComponentRequests, TLAPS

(***************************************************************************)
(* The inductive invariant.                                                *)
(***************************************************************************)
\* Goroutines run, and the stream begins, only for the requests that start them,
\* and after the load.
Started ==
    /\ \A g \in Getters : pc[g] # "call" => kind = "status" /\ load = "done"
    /\ handler # "start" => kind = "logs" /\ load = "done"

\* A getter assigns its property before anything else.
Assigned == \A g \in Getters : property[g] = "unset" <=> pc[g] = "call"

Ended(g) == IF pc[g] = "end" THEN 1 ELSE 0

\* Until it answers, the handler has a result of each goroutine that has ended.
Counted ==
    answer = "none" => received = Ended("resources") + Ended("network") + Ended("storage")
                                  + Ended("source") + Ended("health")

SomeNil == \E g \in Getters : property[g] = "nil"
SomeSet == \E g \in Getters : property[g] = "set"

\* Whoever wrote it last, an error in the shared variable, or in a result, is one
\* that a getter had.
ErrorsFromNil == /\ err => SomeNil
                 /\ \A g \in Getters : value[g] => SomeNil

\* And a success is one that a getter had, with the component in the application.
SuccessFromSet ==
    /\ ~err => (\A g \in Getters : property[g] = "unset") \/ SomeSet
    /\ \A g \in Getters : /\ pc[g] \in {"send", "end"} /\ ~value[g] => SomeSet
                          /\ answer = "none" /\ pc[g] = "end" => ~value[g]
                          /\ property[g] = "set" => found

\* The pod of an error event has been given up.
EventEnded == event \in Pods => pod[event] = "end"

IndInv ==
    /\ TypeOK /\ Started /\ Assigned /\ Counted /\ ErrorsFromNil /\ SuccessFromSet /\ EventEnded
    /\ NoSendAfterClose /\ ErrorHasCause /\ OkHasAResult /\ LinesInOrder

(***************************************************************************)
(* The steps.                                                              *)
(***************************************************************************)
\* Before the route is looked at, no goroutine has been started.
LEMMA InitInd == Init => IndInv
  <1> SUFFICES ASSUME Init PROVE IndInv
    OBVIOUS
  <1>0. LoadInit /\ FanOutInit /\ LogsInit
    BY DEF Init
  <1>1. LoadTypeOK
    <2>1. CASE kind \in {"status", "health"}
      BY <1>0, <2>1 DEF LoadInit, LoadTypeOK
    <2>2. CASE kind \notin {"status", "health"}
      <3>1. found = TRUE
        BY <1>0, <2>2 DEF LoadInit
      <3>. QED
        BY <1>0, <3>1 DEF LoadInit, LoadTypeOK
    <2>. QED
      BY <2>1, <2>2
  <1>2. FanOutTypeOK
    <2>1. err \in BOOLEAN /\ value \in [Getters -> BOOLEAN]
      BY <1>0 DEF FanOutInit
    <2>2. received \in 0 .. 5
      BY <1>0 DEF FanOutInit
    <2>. QED
      BY <1>0, <2>1, <2>2 DEF FanOutInit, FanOutTypeOK
  <1>3. LogsTypeOK
    BY <1>0, MaxLinesAssumption DEF LogsInit, LogsTypeOK
  <1>4. Started /\ Assigned
    BY <1>0 DEF Started, Assigned, FanOutInit, LogsInit
  <1>5. Counted
    BY <1>0 DEF Counted, Ended, Getters, FanOutInit
  <1>6. ErrorsFromNil /\ SuccessFromSet
    BY <1>0 DEF FanOutInit, ErrorsFromNil, SuccessFromSet
  <1>7. EventEnded /\ LinesInOrder
    BY <1>0, NoEventAssumption DEF LogsInit, EventEnded, LinesInOrder
  <1>8. NoSendAfterClose /\ ErrorHasCause /\ OkHasAResult
    BY <1>0 DEF LoadInit, FanOutInit, NoSendAfterClose, ErrorHasCause, OkHasAResult
  <1>. QED
    BY <1>1, <1>2, <1>3, <1>4, <1>5, <1>6, <1>7, <1>8 DEF IndInv, TypeOK

\* The load, and the requests that end with one call.
LEMMA LoadingInd == ASSUME IndInv, Loading PROVE IndInv'
  <1>0. /\ UNCHANGED <<pc, property, err, value, received, results, panicked>>
        /\ UNCHANGED <<pod, read, delivered, cut, ended, handler, event, client>>
        /\ UNCHANGED <<kind, found>>
    BY DEF Loading, fanOut, logs, LoadNext, statusLoad, getHandlerFromRoute, getComponentFromRoute,
           GetEnvironmentByName, Status, NewProviderStatus, NewProviderStatusVela, GetApplicationByLabels,
           Loads, StatusApplication, StatusComponentHealth, ComponentPods, Replies
  <1>1. /\ answer = "none"
        /\ \/ load # "done" /\ load' \in {"component", "environment", "provider", "clientset", "application", "done"}
              /\ answer' = "none"
           \/ load # "done" /\ load' = load /\ answer' = "error"
           \/ load = "done" /\ load' = load /\ kind = "application" /\ answer' = "ok"
           \/ load = "done" /\ load' = load /\ kind = "pods" /\ answer' \in {"ok", "error"}
           \/ load = "done" /\ load' = load /\ kind = "health"
              /\ answer' \in IF found THEN {"ok", "error"} ELSE {"error"}
    <2>1. CASE statusLoad
      BY <2>1 DEF statusLoad, getHandlerFromRoute, getComponentFromRoute,
           GetEnvironmentByName, Status, NewProviderStatus, NewProviderStatusVela, GetApplicationByLabels, Loads
    <2>2. CASE StatusApplication
      BY <2>2 DEF StatusApplication, Replies, GetApplicationStatus
    <2>3. CASE StatusComponentHealth
      BY <2>3 DEF StatusComponentHealth, Replies, getVelaComponent
    <2>4. CASE ComponentPods
      BY <2>4 DEF ComponentPods, Replies, GetPodList
    <2>. QED
      BY <2>1, <2>2, <2>3, <2>4 DEF Loading, LoadNext
  <1>2. LoadTypeOK'
    BY <1>0, <1>1 DEF IndInv, TypeOK, LoadTypeOK
  <1>3. FanOutTypeOK'
    BY <1>0 DEF IndInv, TypeOK, FanOutTypeOK
  <1>4. LogsTypeOK'
    BY <1>0 DEF IndInv, TypeOK, LogsTypeOK
  <1>5. Started' /\ Assigned' /\ Counted'
    BY <1>0, <1>1 DEF IndInv, Started, Assigned, Counted, Ended
  <1>6. ErrorsFromNil' /\ SuccessFromSet'
    BY <1>0, <1>1 DEF IndInv, ErrorsFromNil, SuccessFromSet, SomeNil, SomeSet
  <1>7. EventEnded' /\ LinesInOrder' /\ NoSendAfterClose'
    BY <1>0 DEF IndInv, EventEnded, LinesInOrder, NoSendAfterClose
  <1>8. ErrorHasCause' /\ OkHasAResult'
    BY <1>0, <1>1 DEF IndInv, ErrorHasCause, OkHasAResult
  <1>. QED
    BY <1>2, <1>3, <1>4, <1>5, <1>6, <1>7, <1>8 DEF IndInv, TypeOK

\* A getter assigns its property and the variable that all of them share.
LEMMA AssignInd ==
  ASSUME IndInv, NEW g \in Getters, Assign(g), UNCHANGED logs
  PROVE  IndInv'
  <1>0. /\ UNCHANGED <<pod, read, delivered, cut, ended, handler, event, client>>
        /\ UNCHANGED <<kind, load, found, value, received, results, answer, panicked>>
        /\ kind = "status" /\ load = "done" /\ pc[g] = "call"
    BY DEF Assign, logs
  <1>1. PICK fails \in getVelaComponent :
          /\ property' = [property EXCEPT ![g] = IF fails THEN "nil" ELSE "set"]
          /\ err' = fails
    BY DEF Assign
  <1>2. pc' = [pc EXCEPT ![g] = "read"]
    BY DEF Assign
  <1>3. pc \in [Getters -> {"call", "read", "send", "end"}]
        /\ property \in [Getters -> {"unset", "nil", "set"}]
    BY DEF IndInv, TypeOK, FanOutTypeOK
  <1>4. /\ pc'[g] = "read" /\ \A h \in Getters : h # g => pc'[h] = pc[h] /\ property'[h] = property[h]
        /\ property[g] = "unset"
    BY <1>0, <1>1, <1>2, <1>3 DEF IndInv, Assigned
  <1>5. \/ property'[g] = "nil" /\ err' = TRUE
        \/ property'[g] = "set" /\ err' = FALSE /\ found
    <2>1. CASE fails
      <3>1. fails = TRUE
        BY <2>1 DEF getVelaComponent
      <3>. QED
        BY <1>1, <1>3, <3>1
    <2>2. CASE ~fails
      <3>1. found
        BY <2>2 DEF getVelaComponent
      <3>2. fails = FALSE
        BY <2>2, <3>1 DEF getVelaComponent
      <3>. QED
        BY <1>1, <1>3, <3>1, <3>2
    <2>. QED
      BY <2>1, <2>2
  <1>6. LoadTypeOK' /\ LogsTypeOK'
    BY <1>0 DEF IndInv, TypeOK, LoadTypeOK, LogsTypeOK
  <1>7. FanOutTypeOK'
    <2>1. err' \in BOOLEAN /\ property' \in [Getters -> {"unset", "nil", "set"}]
      BY <1>1, <1>3, <1>5
    <2>2. pc' \in [Getters -> {"call", "read", "send", "end"}]
      BY <1>2, <1>3
    <2>. QED
      BY <1>0, <2>1, <2>2 DEF IndInv, TypeOK, FanOutTypeOK
  <1>8. Started' /\ Assigned'
    BY <1>0, <1>4, <1>5 DEF IndInv, Started, Assigned
  <1>9. Counted'
    BY <1>0, <1>2, <1>3 DEF IndInv, Counted, Ended, Getters
  <1>10. (SomeNil => SomeNil') /\ (SomeSet => SomeSet')
    BY <1>4 DEF SomeNil, SomeSet
  <1>11. (err' = TRUE => SomeNil') /\ (err' = FALSE => SomeSet')
    BY <1>5 DEF SomeNil, SomeSet
  <1>12. ErrorsFromNil'
    BY <1>0, <1>5, <1>10, <1>11 DEF IndInv, ErrorsFromNil
  <1>13. SuccessFromSet'
    <2>1. ~err' => SomeSet'
      BY <1>5, <1>11
    <2>2. ASSUME NEW h \in Getters
          PROVE  /\ pc'[h] \in {"send", "end"} /\ ~value'[h] => SomeSet'
                 /\ answer' = "none" /\ pc'[h] = "end" => ~value'[h]
                 /\ property'[h] = "set" => found'
      BY <1>0, <1>4, <1>5, <1>10 DEF IndInv, SuccessFromSet
    <2>. QED
      BY <2>1, <2>2 DEF SuccessFromSet
  <1>14. EventEnded' /\ LinesInOrder'
    BY <1>0 DEF IndInv, EventEnded, LinesInOrder
  <1>15. NoSendAfterClose'
    BY <1>0, <1>4 DEF IndInv, NoSendAfterClose
  <1>16. ErrorHasCause' /\ OkHasAResult'
    BY <1>0, <1>10 DEF IndInv, ErrorHasCause, OkHasAResult, SomeNil, SomeSet
  <1>. QED
    BY <1>6, <1>7, <1>8, <1>9, <1>12, <1>13, <1>14, <1>15, <1>16 DEF IndInv, TypeOK

\* A panic leaves everything as it is, for good.
LEMMA PanicsInd ==
  ASSUME IndInv, NEW g \in Getters, Panics(g), UNCHANGED logs
  PROVE  IndInv'
  <1>0. /\ UNCHANGED <<pod, read, delivered, cut, ended, handler, event, client>>
        /\ UNCHANGED <<kind, load, found, pc, property, err, value, received, results, answer>>
        /\ panicked' \in BOOLEAN
    BY DEF Panics, logs
  <1>1. TypeOK'
    BY <1>0 DEF IndInv, TypeOK, LoadTypeOK, FanOutTypeOK, LogsTypeOK
  <1>2. Started' /\ Assigned' /\ Counted' /\ EventEnded' /\ LinesInOrder' /\ NoSendAfterClose'
    BY <1>0 DEF IndInv, Started, Assigned, Counted, Ended, EventEnded, LinesInOrder, NoSendAfterClose
  <1>3. ErrorsFromNil' /\ SuccessFromSet' /\ ErrorHasCause' /\ OkHasAResult'
    BY <1>0 DEF IndInv, ErrorsFromNil, SuccessFromSet, SomeNil, SomeSet, ErrorHasCause, OkHasAResult
  <1>. QED
    BY <1>1, <1>2, <1>3 DEF IndInv

\* What it sends is what the variable holds by then, or what it has assigned.
LEMMA ReadErrInd ==
  ASSUME IndInv, NEW g \in Getters, ReadErr(g), UNCHANGED logs
  PROVE  IndInv'
  <1>0. /\ UNCHANGED <<pod, read, delivered, cut, ended, handler, event, client>>
        /\ UNCHANGED <<kind, load, found, property, err, received, results, answer, panicked>>
        /\ pc[g] = "read"
    BY DEF ReadErr, logs
  <1>1. PICK v \in {err, property[g] = "nil"} : value' = [value EXCEPT ![g] = v]
    BY DEF ReadErr
  <1>2. pc' = [pc EXCEPT ![g] = "send"]
    BY DEF ReadErr
  <1>3. pc \in [Getters -> {"call", "read", "send", "end"}] /\ value \in [Getters -> BOOLEAN]
        /\ property \in [Getters -> {"unset", "nil", "set"}] /\ err \in BOOLEAN
    BY DEF IndInv, TypeOK, FanOutTypeOK
  <1>4. /\ pc'[g] = "send" /\ \A h \in Getters : h # g => pc'[h] = pc[h] /\ value'[h] = value[h]
        /\ property[g] # "unset"
    BY <1>0, <1>1, <1>2, <1>3 DEF IndInv, Assigned
  <1>5. v \in BOOLEAN
    BY <1>1, <1>3
  <1>6. value'[g] = v
    BY <1>1, <1>3
  <1>7. (v => SomeNil) /\ (~v => SomeSet)
    <2>1. CASE v = err
      <3>1. (err => SomeNil) /\ (~err => (\A h \in Getters : property[h] = "unset") \/ SomeSet)
        BY DEF IndInv, ErrorsFromNil, SuccessFromSet
      <3>. QED
        BY <1>4, <2>1, <3>1
    <2>2. CASE v = (property[g] = "nil")
      BY <1>3, <1>4, <2>2 DEF SomeNil, SomeSet
    <2>. QED
      BY <1>1, <2>1, <2>2
  <1>8. LoadTypeOK' /\ LogsTypeOK'
    BY <1>0 DEF IndInv, TypeOK, LoadTypeOK, LogsTypeOK
  <1>9. FanOutTypeOK'
    <2>1. value' \in [Getters -> BOOLEAN]
      BY <1>1, <1>3, <1>5
    <2>2. pc' \in [Getters -> {"call", "read", "send", "end"}]
      BY <1>2, <1>3
    <2>. QED
      BY <1>0, <2>1, <2>2 DEF IndInv, TypeOK, FanOutTypeOK
  <1>10. Started' /\ Assigned'
    BY <1>0, <1>4 DEF IndInv, Started, Assigned
  <1>11. Counted'
    BY <1>0, <1>2, <1>3 DEF IndInv, Counted, Ended, Getters
  <1>12. (SomeNil' <=> SomeNil) /\ (SomeSet' <=> SomeSet)
    BY <1>0 DEF SomeNil, SomeSet
  <1>13. ErrorsFromNil'
    BY <1>0, <1>4, <1>6, <1>7, <1>12 DEF IndInv, ErrorsFromNil
  <1>14. SuccessFromSet'
    BY <1>0, <1>4, <1>6, <1>7, <1>12 DEF IndInv, SuccessFromSet
  <1>15. EventEnded' /\ LinesInOrder'
    BY <1>0 DEF IndInv, EventEnded, LinesInOrder
  <1>16. NoSendAfterClose'
    BY <1>0, <1>4 DEF IndInv, NoSendAfterClose
  <1>17. ErrorHasCause' /\ OkHasAResult'
    BY <1>0 DEF IndInv, ErrorHasCause, OkHasAResult
  <1>. QED
    BY <1>8, <1>9, <1>10, <1>11, <1>13, <1>14, <1>15, <1>16, <1>17 DEF IndInv, TypeOK

\* The handler takes a result: an error is its answer, anything else is counted.
LEMMA CollectInd ==
  ASSUME IndInv, NEW g \in Getters, Collect(g), UNCHANGED logs
  PROVE  IndInv'
  <1>0. /\ UNCHANGED <<pod, read, delivered, cut, ended, handler, event, client>>
        /\ UNCHANGED <<kind, load, found, property, err, value, results, panicked>>
        /\ pc[g] = "send" /\ answer = "none" /\ received < 5
        /\ pc' = [pc EXCEPT ![g] = "end"]
    BY DEF Collect, logs
  <1>1. \/ value[g] /\ answer' = "error" /\ received' = received
        \/ ~value[g] /\ received' = received + 1 /\ answer' = "none"
    BY DEF Collect
  <1>2. pc \in [Getters -> {"call", "read", "send", "end"}] /\ received \in 0 .. 5
    BY DEF IndInv, TypeOK, FanOutTypeOK
  <1>3. pc'[g] = "end" /\ \A h \in Getters : h # g => pc'[h] = pc[h]
    BY <1>0, <1>2
  <1>4. kind = "status" /\ load = "done"
    BY <1>0 DEF IndInv, Started
  <1>5. LoadTypeOK' /\ LogsTypeOK'
    BY <1>0, <1>1 DEF IndInv, TypeOK, LoadTypeOK, LogsTypeOK
  <1>6. FanOutTypeOK'
    <2>1. received' \in 0 .. 5
      BY <1>0, <1>1, <1>2
    <2>2. pc' \in [Getters -> {"call", "read", "send", "end"}]
      BY <1>0, <1>2
    <2>. QED
      BY <1>0, <2>1, <2>2 DEF IndInv, TypeOK, FanOutTypeOK
  <1>7. Started' /\ Assigned'
    BY <1>0, <1>3, <1>4 DEF IndInv, Started, Assigned
  <1>8. Counted'
    <2> SUFFICES ASSUME answer' = "none"
                 PROVE  received' = (Ended("resources") + Ended("network") + Ended("storage")
                                     + Ended("source") + Ended("health"))'
      BY DEF Counted
    <2>1. received' = received + 1
      BY <1>1
    <2>2. received = Ended("resources") + Ended("network") + Ended("storage")
                     + Ended("source") + Ended("health")
      BY <1>0 DEF IndInv, Counted
    <2>3. \A h \in Getters : Ended(h) \in {0, 1} /\ Ended(h)' = IF h = g THEN Ended(h) + 1 ELSE Ended(h)
      BY <1>0, <1>3 DEF Ended
    <2>4. g \in {"resources", "network", "storage", "source", "health"}
      BY DEF Getters
    <2>. QED
      BY <2>1, <2>2, <2>3, <2>4 DEF Getters
  <1>9. (SomeNil' <=> SomeNil) /\ (SomeSet' <=> SomeSet)
    BY <1>0 DEF SomeNil, SomeSet
  <1>10. ErrorsFromNil'
    BY <1>0, <1>9 DEF IndInv, ErrorsFromNil
  <1>11. SuccessFromSet'
    BY <1>0, <1>1, <1>3, <1>9 DEF IndInv, SuccessFromSet
  <1>12. EventEnded' /\ LinesInOrder'
    BY <1>0 DEF IndInv, EventEnded, LinesInOrder
  <1>13. NoSendAfterClose'
    BY <1>0, <1>3 DEF IndInv, NoSendAfterClose
  <1>14. ErrorHasCause' /\ OkHasAResult'
    BY <1>0, <1>1, <1>4 DEF IndInv, ErrorHasCause, OkHasAResult, ErrorsFromNil, SomeNil
  <1>. QED
    BY <1>5, <1>6, <1>7, <1>8, <1>10, <1>11, <1>12, <1>13, <1>14 DEF IndInv, TypeOK

\* With five results the handler closes the channel and answers.
LEMMA RespondInd == ASSUME IndInv, Respond, UNCHANGED logs PROVE IndInv'
  <1>0. /\ UNCHANGED <<pod, read, delivered, cut, ended, handler, event, client>>
        /\ UNCHANGED <<kind, load, found, pc, property, err, value, received, panicked>>
        /\ received = 5 /\ answer = "none" /\ results' = "closed" /\ answer' = "ok"
    BY DEF Respond, logs
  <1>1. \A g \in Getters : pc[g] = "end"
    <2>1. Ended("resources") + Ended("network") + Ended("storage")
          + Ended("source") + Ended("health") = 5
      BY <1>0 DEF IndInv, Counted
    <2>. QED
      BY <2>1 DEF Ended, Getters
  <1>2. kind = "status" /\ load = "done" /\ SomeSet /\ found
    <2>1. "health" \in Getters
      BY DEF Getters
    <2>2. kind = "status" /\ load = "done"
      BY <1>1, <2>1 DEF IndInv, Started
    <2>3. SomeSet
      BY <1>0, <1>1, <2>1 DEF IndInv, SuccessFromSet
    <2>. QED
      BY <2>2, <2>3 DEF IndInv, SuccessFromSet, SomeSet
  <1>3. LoadTypeOK' /\ LogsTypeOK'
    BY <1>0 DEF IndInv, TypeOK, LoadTypeOK, LogsTypeOK
  <1>4. FanOutTypeOK'
    BY <1>0 DEF IndInv, TypeOK, FanOutTypeOK
  <1>5. Started' /\ Assigned' /\ Counted'
    BY <1>0 DEF IndInv, Started, Assigned, Counted
  <1>6. ErrorsFromNil' /\ SuccessFromSet'
    BY <1>0 DEF IndInv, ErrorsFromNil, SuccessFromSet, SomeNil, SomeSet
  <1>7. EventEnded' /\ LinesInOrder' /\ NoSendAfterClose'
    BY <1>0, <1>1 DEF IndInv, EventEnded, LinesInOrder, NoSendAfterClose
  <1>8. ErrorHasCause' /\ OkHasAResult'
    BY <1>0, <1>2 DEF ErrorHasCause, OkHasAResult, SomeSet
  <1>. QED
    BY <1>3, <1>4, <1>5, <1>6, <1>7, <1>8 DEF IndInv, TypeOK

\* The stream: the goroutines of the pods, the handler and its client.
LEMMA StreamingInd == ASSUME IndInv, Streaming PROVE IndInv'
  <1>0. /\ UNCHANGED <<pc, property, err, value, received, results, panicked>>
        /\ UNCHANGED <<kind, load, found>>
    BY DEF Streaming, fanOut, LogsNext, StreamLogs, CheckClient, ClientLeaves, OpenLog, LogEnds,
           ReadLog, SelectLine, SelectError
  <1>a. /\ pod \in [Pods -> {"open", "read", "line", "error", "end"}]
        /\ read \in [Pods -> 0 .. MaxLines] /\ delivered \in [Pods -> 0 .. MaxLines]
        /\ MaxLines \in Nat
        /\ handler \in {"start", "check", "select"} /\ event \in Pods \cup {NoEvent}
        /\ client \in {"there", "gone"} /\ answer \in {"none", "ok", "error"}
    BY MaxLinesAssumption DEF IndInv, TypeOK, LogsTypeOK, LoadTypeOK
  <1>b. ended \in [Pods -> BOOLEAN] /\ cut \in [Pods -> BOOLEAN]
    BY DEF IndInv, TypeOK, LogsTypeOK
  <1>c. Started /\ EventEnded /\ LinesInOrder
    BY DEF IndInv
  \* What such a step may make of the answer, and what it has to keep.
  <1>1. SUFFICES /\ LogsTypeOK' /\ EventEnded' /\ LinesInOrder'
                 /\ answer' = answer \/ (kind = "logs" /\ answer = "none" /\ answer' \in {"ok", "error"})
                 /\ handler' # "start" => kind = "logs" /\ load = "done"
                 /\ answer' = "error" /\ kind = "logs" /\ load = "done" =>
                       handler' = "start" \/ (event' \in Pods /\ pod'[event'] = "end")
    <2>1. LoadTypeOK'
      BY <1>0, <1>1, <1>a DEF IndInv, TypeOK, LoadTypeOK
    <2>2. FanOutTypeOK'
      BY <1>0 DEF IndInv, TypeOK, FanOutTypeOK
    <2>3. Started' /\ Assigned'
      BY <1>0, <1>1 DEF IndInv, Started, Assigned
    <2>4. Counted'
      BY <1>0, <1>1 DEF IndInv, Counted, Ended
    <2>5. ErrorsFromNil' /\ NoSendAfterClose'
      BY <1>0 DEF IndInv, ErrorsFromNil, SomeNil, NoSendAfterClose
    <2>6. SuccessFromSet'
      BY <1>0, <1>1 DEF IndInv, SuccessFromSet, SomeSet
    <2>7. ErrorHasCause' /\ OkHasAResult'
      BY <1>0, <1>1 DEF IndInv, ErrorHasCause, OkHasAResult
    <2>. QED
      BY <1>1, <2>1, <2>2, <2>3, <2>4, <2>5, <2>6, <2>7 DEF IndInv, TypeOK
  <1>d. answer = "error" /\ kind = "logs" /\ load = "done" =>
           handler = "start" \/ (event \in Pods /\ pod[event] = "end")
    BY DEF IndInv, ErrorHasCause
  <1>2. CASE StreamLogs \/ CheckClient \/ ClientLeaves
    <2>1. UNCHANGED <<pod, read, delivered, cut, ended, event>>
      BY <1>2 DEF StreamLogs, CheckClient, ClientLeaves
    <2>2. /\ client' \in {"there", "gone"}
          /\ \/ answer' = answer /\ handler' = handler
             \/ /\ answer = "none" /\ answer' = "none" /\ handler' # "start"
                /\ handler' \in {"check", "select"} /\ kind = "logs" /\ load = "done"
             \/ answer = "none" /\ answer' = "error" /\ handler' = "start" /\ handler = "start" /\ kind = "logs"
             \/ answer = "none" /\ answer' = "ok" /\ handler' = handler /\ handler = "check"
      BY <1>2, <1>a, <1>c DEF StreamLogs, CheckClient, ClientLeaves, Returned, Started
    <2>3. LogsTypeOK'
      BY <1>a, <1>b, <2>1, <2>2 DEF LogsTypeOK
    <2>4. EventEnded' /\ LinesInOrder'
      BY <1>c, <2>1 DEF EventEnded, LinesInOrder
    <2>. QED
      BY <1>c, <1>d, <2>1, <2>2, <2>3, <2>4 DEF Started
  <1>3. ASSUME NEW p \in Pods, OpenLog(p) \/ LogEnds(p) \/ ReadLog(p) \/ SelectLine(p) \/ SelectError(p)
        PROVE  /\ LogsTypeOK' /\ EventEnded' /\ LinesInOrder'
               /\ answer' = answer \/ (kind = "logs" /\ answer = "none" /\ answer' \in {"ok", "error"})
               /\ handler' # "start" => kind = "logs" /\ load = "done"
               /\ answer' = "error" /\ kind = "logs" /\ load = "done" =>
                     handler' = "start" \/ (event' \in Pods /\ pod'[event'] = "end")
    <2>1. CASE OpenLog(p)
      <3>1. /\ UNCHANGED <<answer, read, delivered, cut, ended, handler, event, client>>
            /\ pod[p] = "open" /\ \E to \in {"read", "error", "end"} : pod' = [pod EXCEPT ![p] = to]
        BY <2>1 DEF OpenLog, Goes
      <3>2. LogsTypeOK'
        BY <1>a, <1>b, <3>1 DEF LogsTypeOK
      <3>3. EventEnded' /\ LinesInOrder'
        BY <1>a, <1>c, <3>1 DEF EventEnded, LinesInOrder
      <3>. QED
        BY <1>a, <1>c, <1>d, <3>1, <3>2, <3>3 DEF Started
    <2>2. CASE LogEnds(p)
      <3>1. /\ UNCHANGED <<answer, pod, read, delivered, cut, handler, event, client>>
            /\ ended' = [ended EXCEPT ![p] = TRUE]
        BY <2>2 DEF LogEnds
      <3>2. ended' \in [Pods -> BOOLEAN] /\ cut' \in [Pods -> BOOLEAN]
        BY <1>b, <3>1
      <3>3. LogsTypeOK'
        BY <1>a, <3>1, <3>2 DEF LogsTypeOK
      <3>4. EventEnded' /\ LinesInOrder'
        BY <1>c, <3>1 DEF EventEnded, LinesInOrder
      <3>. QED
        BY <1>c, <1>d, <3>1, <3>3, <3>4 DEF Started
    <2>3. CASE ReadLog(p)
      <3>1. /\ UNCHANGED <<answer, delivered, ended, handler, event, client>>
            /\ pod[p] = "read"
        BY <2>3 DEF ReadLog
      <3>2. CASE /\ read[p] < MaxLines /\ Goes(p, "line")
                 /\ read' = [read EXCEPT ![p] = read[p] + 1] /\ UNCHANGED cut
        <4>1. LogsTypeOK'
          BY <1>a, <1>b, <3>1, <3>2 DEF LogsTypeOK, Goes
        <4>2. EventEnded' /\ LinesInOrder'
          BY <1>a, <1>c, <3>1, <3>2 DEF EventEnded, LinesInOrder, Goes
        <4>. QED
          BY <1>a, <1>c, <1>d, <3>1, <3>2, <4>1, <4>2 DEF Started, Goes
      <3>3. CASE (Goes(p, "end") \/ Goes(p, "error")) /\ UNCHANGED <<read, cut>>
        <4>1. \E to \in {"error", "end"} : pod' = [pod EXCEPT ![p] = to]
          BY <3>3 DEF Goes
        <4>2. LogsTypeOK'
          BY <1>a, <1>b, <3>1, <3>3, <4>1 DEF LogsTypeOK
        <4>3. EventEnded' /\ LinesInOrder'
          BY <1>a, <1>c, <3>1, <3>3, <4>1 DEF EventEnded, LinesInOrder
        <4>. QED
          BY <1>a, <1>c, <1>d, <3>1, <3>3, <4>1, <4>2, <4>3 DEF Started
      <3>4. CASE (Goes(p, "end") \/ Goes(p, "error")) /\ LastLineCut(p)
        <4>1. \E to \in {"error", "end"} : pod' = [pod EXCEPT ![p] = to]
          BY <3>4 DEF Goes
        <4>2. /\ read[p] < MaxLines /\ read' = [read EXCEPT ![p] = read[p] + 1]
              /\ cut' = [cut EXCEPT ![p] = TRUE]
          BY <3>4 DEF LastLineCut
        <4>3. read[p] = delivered[p]
          <5>1. ~cut[p]
            BY <1>c, <3>1 DEF LinesInOrder
          <5>2. read[p] = delivered[p] + (IF pod[p] = "line" \/ cut[p] THEN 1 ELSE 0)
            BY <1>c DEF LinesInOrder
          <5>. QED
            BY <1>a, <3>1, <5>1, <5>2
        <4>4. cut' \in [Pods -> BOOLEAN]
          BY <1>b, <4>2
        <4>5. LogsTypeOK'
          BY <1>a, <1>b, <3>1, <4>1, <4>2, <4>4 DEF LogsTypeOK
        <4>6. EventEnded'
          BY <1>a, <1>c, <3>1, <4>1 DEF EventEnded
        <4>7. LinesInOrder'
          <5> SUFFICES ASSUME NEW q \in Pods
                       PROVE  /\ read'[q] = delivered'[q] + (IF pod'[q] = "line" \/ cut'[q] THEN 1 ELSE 0)
                              /\ cut'[q] => pod'[q] \in {"error", "end"}
            BY DEF LinesInOrder
          <5>1. CASE q = p
            <6>1. pod'[q] \in {"error", "end"}
              BY <1>a, <4>1, <5>1
            <6>2. cut'[q] = TRUE
              BY <1>b, <4>2, <5>1
            <6>3. read'[q] = delivered'[q] + 1
              BY <1>a, <3>1, <4>2, <4>3, <5>1
            <6>. QED
              BY <6>1, <6>2, <6>3
          <5>2. CASE q # p
            <6>1. pod'[q] = pod[q] /\ cut'[q] = cut[q] /\ read'[q] = read[q] /\ delivered'[q] = delivered[q]
              BY <1>a, <1>b, <3>1, <4>1, <4>2, <5>2
            <6>. QED
              BY <1>c, <6>1 DEF LinesInOrder
          <5>. QED
            BY <5>1, <5>2
        <4>. QED
          BY <1>a, <1>c, <1>d, <3>1, <4>1, <4>5, <4>6, <4>7 DEF Started
      <3>. QED
        BY <2>3, <3>2, <3>3, <3>4 DEF ReadLog
    <2>4. CASE SelectLine(p)
      <3>1. /\ UNCHANGED <<answer, read, cut, ended, event, client>>
            /\ pod[p] = "line" /\ handler = "select" /\ pod' = [pod EXCEPT ![p] = "read"]
            /\ delivered' = [delivered EXCEPT ![p] = delivered[p] + 1] /\ handler' = "check"
        BY <2>4 DEF SelectLine, Goes
      <3>2. delivered[p] + 1 = read[p]
        BY <1>c, <3>1 DEF LinesInOrder
      <3>3. delivered' \in [Pods -> 0 .. MaxLines]
        BY <1>a, <3>1, <3>2
      <3>4. LogsTypeOK'
        BY <1>a, <1>b, <3>1, <3>3 DEF LogsTypeOK
      <3>5. EventEnded' /\ LinesInOrder'
        BY <1>a, <1>c, <3>1 DEF EventEnded, LinesInOrder
      <3>. QED
        BY <1>a, <1>c, <1>d, <3>1, <3>4, <3>5 DEF Started
    <2>5. CASE SelectError(p)
      <3>1. /\ UNCHANGED <<handler, read, delivered, cut, ended, client>>
            /\ pod[p] = "error" /\ handler = "select" /\ pod' = [pod EXCEPT ![p] = "end"]
            /\ event' = p /\ answer = "none" /\ answer' = "error"
        BY <2>5 DEF SelectError, Goes, Returned
      <3>2. LogsTypeOK'
        BY <1>a, <1>b, <3>1 DEF LogsTypeOK
      <3>3. EventEnded' /\ LinesInOrder'
        BY <1>a, <1>c, <3>1 DEF EventEnded, LinesInOrder
      <3>. QED
        BY <1>a, <1>c, <3>1, <3>2, <3>3 DEF Started
    <2>. QED
      BY <1>3, <2>1, <2>2, <2>3, <2>4, <2>5
  <1>. QED
    BY <1>2, <1>3 DEF Streaming, LogsNext

\* Every step of the request keeps the invariant.
LEMMA NextInd == IndInv /\ [Next]_vars => IndInv'
  <1> SUFFICES ASSUME IndInv, [Next]_vars PROVE IndInv'
    OBVIOUS
  <1>1. CASE Loading
    BY <1>1, LoadingInd
  <1>2. CASE Asking
    <2>1. ASSUME NEW g \in Getters, Assign(g) PROVE IndInv'
      BY <1>2, <2>1, AssignInd DEF Asking
    <2>2. ASSUME NEW g \in Getters, ReadErr(g) \/ Collect(g) PROVE IndInv'
      BY <1>2, <2>2, ReadErrInd, CollectInd DEF Asking
    <2>3. CASE Respond
      BY <1>2, <2>3, RespondInd DEF Asking
    <2>4. ASSUME NEW g \in Getters, Panics(g) PROVE IndInv'
      BY <1>2, <2>4, PanicsInd DEF Asking
    <2>. QED
      BY <1>2, <2>1, <2>2, <2>3, <2>4
      DEF Asking, FanOutNext, GetResourcesProperties, GetNetworkProperties, GetStorageProperties,
          GetSourceProperties, GetComponentStatus, Getters
  <1>3. CASE Streaming
    BY <1>3, StreamingInd
  <1>4. CASE UNCHANGED vars
    <2>0. UNCHANGED <<kind, load, found, answer, pc, property, err, value, received, results, panicked>>
          /\ UNCHANGED <<pod, read, delivered, cut, ended, handler, event, client>>
      BY <1>4 DEF vars, fanOut, logs
    <2>1. TypeOK'
      BY <2>0 DEF IndInv, TypeOK, LoadTypeOK, FanOutTypeOK, LogsTypeOK
    <2>2. Started' /\ Assigned' /\ Counted' /\ EventEnded' /\ LinesInOrder' /\ NoSendAfterClose'
      BY <2>0 DEF IndInv, Started, Assigned, Counted, Ended, EventEnded, LinesInOrder, NoSendAfterClose
    <2>3. ErrorsFromNil' /\ SuccessFromSet' /\ ErrorHasCause' /\ OkHasAResult'
      BY <2>0 DEF IndInv, ErrorsFromNil, SuccessFromSet, SomeNil, SomeSet, ErrorHasCause, OkHasAResult
    <2>. QED
      BY <2>1, <2>2, <2>3 DEF IndInv
  <1>. QED
    BY <1>1, <1>2, <1>3, <1>4 DEF Next

\* The invariant holds from the route on.
THEOREM Invariance == Spec => []IndInv
  BY InitInd, NextInd, PTL DEF Spec

(***************************************************************************)
(* The results.                                                            *)
(***************************************************************************)
\* The request, its goroutines and its stream have their type: five results at
\* most are counted, and no pod has more lines written than it has.
THEOREM TypeCorrect == Spec => []TypeOK
  <1>1. IndInv => TypeOK
    BY DEF IndInv
  <1>. QED
    BY <1>1, Invariance, PTL

\* StatusComponent closes the channel after five results only, when no goroutine
\* is left that would send on it.
THEOREM ClosedIsSafe == Spec => []NoSendAfterClose
  <1>1. IndInv => NoSendAfterClose
    BY DEF IndInv
  <1>. QED
    BY <1>1, Invariance, PTL

\* The data race on `err' makes no error up: a getter has failed.  A stream that
\* ends with an error has a pod that reported it.
THEOREM ErrorsAreReal == Spec => []ErrorHasCause
  <1>1. IndInv => ErrorHasCause
    BY DEF IndInv
  <1>. QED
    BY <1>1, Invariance, PTL

\* Nor does it make up a success of five failures: a component that is not
\* deployed has no status.
THEOREM SuccessesAreReal == Spec => []OkHasAResult
  <1>1. IndInv => OkHasAResult
    BY DEF IndInv
  <1>. QED
    BY <1>1, Invariance, PTL

\* StreamLogs writes each pod's lines in order and none twice, and the only line of
\* a log that it can lose is one that the log stops in the middle of.
THEOREM OnlyLastLineLost == Spec => []LinesInOrder
  <1>1. IndInv => LinesInOrder
    BY DEF IndInv
  <1>. QED
    BY <1>1, Invariance, PTL
==============================================================================
