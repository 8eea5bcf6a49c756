----------------------------- MODULE JobContract -----------------------------
(***************************************************************************)
(* What the ingestion queue promises the user who submits a job, with no   *)
(* word about workers, leases, retries or time.  IngestionQueue implements *)
(* it as long as no worker outstays its lease (see the README).            *)
(***************************************************************************)
CONSTANT Tasks

VARIABLES
  outcome,             \* what has become of the job
  content              \* whether what it ingested is there, and whether it ever was

vars == <<outcome, content>>

Outcomes == {"absent", "open", "succeeded", "abandoned", "withdrawn"}

Init ==
  /\ outcome = [t \in Tasks |-> "absent"]
  /\ content = [t \in Tasks |-> "never"]

Settle(t, result) ==
  /\ outcome' = [outcome EXCEPT ![t] = result]
  /\ UNCHANGED content

Submit(t) == outcome[t] = "absent" /\ Settle(t, "open")

(* Content appears only while the job is open, or when it was withdrawn    *)
(* too late to stop the run: a settled job writes no more.                 *)
Ingest(t) ==
  /\ outcome[t] \in {"open", "withdrawn"}
  /\ content' = [content EXCEPT ![t] = "present"]
  /\ UNCHANGED outcome

(* Success means that the content was written. *)
Succeed(t) == outcome[t] = "open" /\ content[t] # "never" /\ Settle(t, "succeeded")

Abandon(t) == outcome[t] = "open" /\ Settle(t, "abandoned")

(* The user deletes the job, before or after it settles ... *)
Withdraw(t) == outcome[t] \notin {"absent", "withdrawn"} /\ Settle(t, "withdrawn")

(* ... or the content *)
Discard(t) ==
  /\ content[t] = "present"
  /\ content' = [content EXCEPT ![t] = "removed"]
  /\ UNCHANGED outcome

Next ==
  \E t \in Tasks :
    \/ Submit(t) \/ Ingest(t) \/ Succeed(t) \/ Abandon(t)
    \/ Withdraw(t) \/ Discard(t)

Spec == Init /\ [][Next]_vars
=============================================================================
