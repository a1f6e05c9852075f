------------------------------ MODULE StatusLoad ------------------------------
(***************************************************************************)
(* How the API server's requests about what is deployed begin: statusLoad  *)
(* (cmd/api-server/applications) reads the application, the component and  *)
(* the environment, then the Vela application they were deployed as, and   *)
(* any of the reads may end the request.  The requests that make one call  *)
(* more and answer are complete here; the two that start goroutines go on  *)
(* in StatusFanOut and LogStreaming.                                       *)
(***************************************************************************)
EXTENDS Naturals

VARIABLES kind,             \* what the client asks for
          load,             \* how far statusLoad is
          found,            \* the component is in the deployed application
          answer            \* what the handler has answered when it returned

Kinds == {"application", "status", "health", "pods", "logs"}

LoadTypeOK ==
    /\ kind \in Kinds
    /\ load \in {"route", "component", "environment", "provider",
                 "clientset", "application", "done"}
    /\ found \in BOOLEAN
    /\ answer \in {"none", "ok", "error"}

\* Whether the component is deployed is looked at for two of the kinds.
LoadInit ==
    /\ kind \in Kinds /\ found \in IF kind \in {"status", "health"} THEN BOOLEAN ELSE {TRUE}
    /\ load = "route" /\ answer = "none"

\* A read goes on to the next one or ends the request.
Loads(from, to) ==
    /\ load = from /\ answer = "none"
    /\ \/ load' = to /\ UNCHANGED answer
       \/ answer' = "error" /\ UNCHANGED load
    /\ UNCHANGED <<kind, found>>

\* StatusApplication has no component to read.
getHandlerFromRoute ==
    Loads("route", IF kind = "application" THEN "environment" ELSE "component")
getComponentFromRoute == Loads("component", "environment")
GetEnvironmentByName == Loads("environment", "provider")

\* ApplicationHandler.Status makes the provider's view of the application.
NewProviderStatus == Loads("provider", "clientset")
NewProviderStatusVela == Loads("clientset", "application")
GetApplicationByLabels == Loads("application", "done")
Status == NewProviderStatus \/ NewProviderStatusVela \/ GetApplicationByLabels

statusLoad ==
    \/ getHandlerFromRoute \/ getComponentFromRoute
    \/ GetEnvironmentByName \/ Status

\* The handler's last call, of which `outcomes' says whether it fails.
Replies(to, outcomes) ==
    /\ kind = to /\ load = "done" /\ answer = "none"
    /\ \E fails \in outcomes : answer' = IF fails THEN "error" ELSE "ok"
    /\ UNCHANGED <<kind, load, found>>

\* getVelaComponent: what is missing is missing for every getter, and each may
\* also fail for what it reads from the cluster or cannot decode.
getVelaComponent == IF found THEN BOOLEAN ELSE {TRUE}

\* The phase is part of the application that was read.
GetApplicationStatus == {FALSE}

\* Pods are listed by label: a component that is not deployed has none.
GetPodList == BOOLEAN

StatusApplication == Replies("application", GetApplicationStatus)
StatusComponentHealth == Replies("health", getVelaComponent)
ComponentPods == Replies("pods", GetPodList)

LoadNext == statusLoad \/ StatusApplication \/ StatusComponentHealth \/ ComponentPods
==============================================================================
