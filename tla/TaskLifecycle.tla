---------------------------- MODULE TaskLifecycle ----------------------------
(***************************************************************************)
(* The life cycle of an ingestion task as                                  *)
(* common/src/storage/types/ingestion_task.rs declares it with             *)
(* state_machine! (TaskLifecycleMachine), plus the creation and deletion   *)
(* of the row, which the machine does not speak of.  Nothing is said of    *)
(* workers, locks or time: this is what an observer of `state` may see.    *)
(***************************************************************************)
CONSTANT Tasks

VARIABLE status

Move(t, from, to) ==
  /\ status[t] = from
  /\ status' = [status EXCEPT ![t] = to]

Reserve(t)         == Move(t, "Pending", "Reserved") \/ Move(t, "Failed", "Reserved")
StartProcessing(t) == Move(t, "Reserved", "Processing")
Succeed(t)         == Move(t, "Processing", "Succeeded")
Fail(t)            == Move(t, "Processing", "Failed")
Cancel(t)          == \E s \in {"Pending", "Reserved", "Processing"} : Move(t, s, "Cancelled")
Bury(t)            == Move(t, "Failed", "DeadLetter")
Release(t)         == Move(t, "Reserved", "Pending")

Create(t) == Move(t, "Absent", "Pending")
Delete(t) == /\ status[t] # "Absent"
             /\ status' = [status EXCEPT ![t] = "Deleted"]

(* What the declared machine lacks: claim_next_ready also takes back a     *)
(* task whose lease has run out.  From Reserved nothing is seen.           *)
Reclaim(t) == Move(t, "Processing", "Reserved")

Init == status = [t \in Tasks |-> "Absent"]

Next ==
  \E t \in Tasks :
    \/ Create(t) \/ Delete(t)
    \/ Reserve(t) \/ StartProcessing(t) \/ Succeed(t) \/ Fail(t)
    \/ Cancel(t) \/ Bury(t) \/ Release(t) \/ Reclaim(t)

Spec == Init /\ [][Next]_status
=============================================================================
