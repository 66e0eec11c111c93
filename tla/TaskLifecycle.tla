--------------------------- MODULE TaskLifecycle ---------------------------
(***************************************************************************)
(* What TaskBoard promises about one background task after another         *)
(* (Server2/server/orchestrator/task_board.py, Status and                  *)
(* TERMINAL_STATUSES): a task is registered once, runs and pauses, comes   *)
(* to an end once, and never leaves it except to be forgotten.             *)
(***************************************************************************)
CONSTANT Ids
VARIABLE status

Terminal == {"done", "error", "cancelled"}
Ended == Terminal \cup {"waiting_user"}

Init == status = [id \in Ids |-> "new"]

Becomes(id, from, to) == status[id] \in from /\ status' = [status EXCEPT ![id] = to]

Register(id) == Becomes(id, {"new"}, "running")
Pause(id) == Becomes(id, {"running"}, "paused")
Resume(id) == Becomes(id, {"paused"}, "running")
End(id) == \E s \in Ended : Becomes(id, {"running", "paused"}, s)

(* The list of completed tasks is short: an end may push out an older one.   *)
EndAndForget(id) ==
  \E other \in Ids \ {id}, s \in Ended :
    /\ status[id] \in {"running", "paused"} /\ status[other] \in Ended
    /\ status' = [status EXCEPT ![id] = s, ![other] = "forgotten"]

Next ==
  \E id \in Ids : Register(id) \/ Pause(id) \/ Resume(id) \/ End(id) \/ EndAndForget(id)

Spec == Init /\ [][Next]_status
=============================================================================
