------------------------- MODULE MCApplicationSystem -------------------------
(***************************************************************************)
(* ApplicationSystem on small instances.  The safety run tells states      *)
(* apart only by what is still going to be read: not by what the worker    *)
(* holds where it is about to end or to read anew, of the other            *)
(* controller's copy only by the two fields that it writes from, and not   *)
(* by the annotation, which is written at most once there (MaxWrites = 1)  *)
(* and read by nobody.  What disturbs the controllers is combined as far   *)
(* as the state space allows: in the safety run two edits of the user, or  *)
(* one and a write of the other controller; in the liveness run an edit,   *)
(* or a write and a turn of a finished run.                                *)
(***************************************************************************)
EXTENDS ApplicationSystem

Ending == {"status", "createFailed", "updateFailed"}
Seen(c) == [c EXCEPT !.ann = 0]
WorkerCopy == IF apc \in Ending \cup {"idle", "creating", "create"} THEN NoCopy
              ELSE Seen(obj["application"])
WorkerTask == IF apc \in Ending THEN << >> ELSE <<target, wflr>>
OtherCopy == IF writes = 0 THEN << >> ELSE <<obj["component"].spec, obj["component"].wf>>

StateView == <<Seen(comp), Seen(cache), WorkerCopy, WorkerTask, OtherCopy, Elsewhere,
               apc, aqueue, writes, former>>

SafeInit == Init /\ edits + writes = 2
SafeSpec == SafeInit /\ [][Next]_vars

LiveInit == Init /\ (edits = 0 \/ turns + writes = 0)
LiveSpec == LiveInit /\ [][Next]_vars /\ Fairness
==============================================================================
