--------------------------- MODULE ActionSequencer ---------------------------
(***************************************************************************)
(* What a WorkflowRun promises about its actions, with no controller in    *)
(* sight: somebody claims the run, the actions are then started one after  *)
(* the other in the order of the workflow, each at most once, and a start  *)
(* that fails ends the sequence for good.  WorkflowRun implements it.      *)
(***************************************************************************)
EXTENDS Naturals

CONSTANT N                  \* number of actions of the workflow

VARIABLES claimed,          \* the run has been marked as running
          count,            \* actions started so far
          aborted           \* starting an action has failed

vars == <<claimed, count, aborted>>

Init == claimed = FALSE /\ count = 0 /\ aborted = FALSE

Claim == ~claimed /\ claimed' = TRUE /\ UNCHANGED <<count, aborted>>

Start == /\ claimed /\ ~aborted /\ count < N
         /\ count' = count + 1
         /\ UNCHANGED <<claimed, aborted>>

\* The failing action may have left its job behind (count grows) or not.
Abort == /\ claimed /\ ~aborted /\ count < N
         /\ count' \in {count, count + 1}
         /\ aborted' = TRUE
         /\ UNCHANGED claimed

Next == Claim \/ Start \/ Abort

Spec == Init /\ [][Next]_vars

\* The controller, once it has claimed the run, goes through all its actions.
Progress == WF_vars(Start \/ Abort)
==============================================================================
