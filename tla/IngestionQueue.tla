--------------------------- MODULE IngestionQueue ---------------------------
(***************************************************************************)
(* The ingestion queue: worker processes that claim tasks and run the      *)
(* ingestion pipeline on them (ingestion-pipeline/src/lib.rs and           *)
(* pipeline/mod.rs), users who submit and delete jobs and delete ingested  *)
(* content, and the failures the code handles or is exposed to.            *)
(*                                                                         *)
(* A worker runs one process_task call at a time.  pc says where in that   *)
(* call it is; between two steps anything may happen to the database.      *)
(*   idle       in run_worker_loop, about to call claim_next_ready         *)
(*   claimed    process_task entered, before mark_processing               *)
(*   checking   before artifacts_persisted                                 *)
(*   running    in drive_pipeline, before the persist transaction          *)
(*   persisting before execute_persist_transaction                         *)
(*   finalizing in finalize_succeeded, before a mark_succeeded             *)
(*   retrying   before the mark_failed of a failure that is retried        *)
(*   rejecting  before the mark_failed of a failure that is not            *)
(*   burying    before the mark_dead_letter that follows                   *)
(***************************************************************************)
EXTENDS IngestionTask

CONSTANTS
  NoTask,
  PersistAttempts,     \* persist_attempts: mark_succeeded is tried this often
  MaxStay,             \* ticks a worker may spend in one phase of a call (a bound)
  MaxFaults            \* crashes and failed statements in a behaviour (a bound)

VARIABLES
  content,             \* the text_content row of a task and everything persisted with it
  pc,                  \* where each worker is
  job,                 \* the task it works on
  seen,                \* processing_task.attempts, the worker's copy
  tries,               \* failed mark_succeeded calls so far
  stay,                \* ticks since the worker last wrote its lock time
  faults               \* crashes and failed statements so far

workerVars == <<pc, job, seen, tries, stay>>
vars == <<taskVars, content, workerVars, faults>>

ASSUME QueueAssumption ==
  /\ NoTask \notin Tasks
  /\ PersistAttempts \in Nat \ {0}
  /\ MaxStay \in Nat
  /\ MaxFaults \in Nat

Steps == {"idle", "claimed", "checking", "running", "persisting",
          "finalizing", "retrying", "rejecting", "burying"}

(* The steps from which a worker writes with its worker id as the guard *)
Guarded == Steps \ {"idle", "burying"}

(* Those at which it believes the task to be Processing *)
InProcess == Guarded \ {"claimed"}

-----------------------------------------------------------------------------
Init ==
  /\ InitTasks
  /\ content = [t \in Tasks |-> "never"]
  /\ pc      = [w \in Workers |-> "idle"]
  /\ job     = [w \in Workers |-> NoTask]
  /\ seen    = [w \in Workers |-> 0]
  /\ tries   = [w \in Workers |-> 0]
  /\ stay    = [w \in Workers |-> 0]
  /\ faults  = 0

(* The call goes on at another step *)
GoTo(w, step) ==
  /\ pc' = [pc EXCEPT ![w] = step]
  /\ UNCHANGED <<job, seen, tries, stay>>

(* process_task returns, or its process dies: nothing local survives *)
BackToLoop(w) ==
  /\ pc'    = [pc    EXCEPT ![w] = "idle"]
  /\ job'   = [job   EXCEPT ![w] = NoTask]
  /\ seen'  = [seen  EXCEPT ![w] = 0]
  /\ tries' = [tries EXCEPT ![w] = 0]
  /\ stay'  = [stay  EXCEPT ![w] = 0]

-----------------------------------------------------------------------------
(* run_worker_loop: claim the next task and enter process_task *)
Claim(w) ==
  /\ pc[w] = "idle"
  /\ \E t \in Tasks :
       /\ ClaimTask(w, t)
       /\ job' = [job EXCEPT ![w] = t]
  /\ pc'   = [pc   EXCEPT ![w] = "claimed"]
  /\ stay' = [stay EXCEPT ![w] = 0]
  /\ UNCHANGED <<content, seen, tries, faults>>

(* The returned row replaces the claimed one: seen is a copy of its        *)
(* attempts.  When the lease was lost meanwhile the call ends in an error. *)
StartProcessing(w) ==
  /\ pc[w] = "claimed"
  /\ \/ /\ MarkProcessing(w, job[w])
        /\ pc'   = [pc   EXCEPT ![w] = "checking"]
        /\ seen' = [seen EXCEPT ![w] = attempts[job[w]]]
        /\ stay' = [stay EXCEPT ![w] = 0]
        /\ UNCHANGED <<job, tries>>
     \/ /\ ~CanMarkProcessing(w, job[w])
        /\ BackToLoop(w)
        /\ UNCHANGED taskVars
  /\ UNCHANGED <<content, faults>>

(* artifacts_persisted: an earlier run may have got as far as the content *)
CheckArtifacts(w) ==
  /\ pc[w] = "checking"
  /\ GoTo(w, IF content[job[w]] = "present" THEN "finalizing" ELSE "running")
  /\ UNCHANGED <<taskVars, content, faults>>

(* Slip: the persist stage is skipped *)
PipelineReadyUnpersisted(w) ==
  /\ pc[w] = "running"
  /\ GoTo(w, "finalizing")
  /\ UNCHANGED <<taskVars, content, faults>>

(* prepare, retrieve and enrich, the artifacts built and validated *)
PipelineReady(w) ==
  /\ pc[w] = "running"
  /\ GoTo(w, "persisting")
  /\ UNCHANGED <<taskVars, content, faults>>

(* Slip: one attempt too many *)
AfterFailureOffByOne(w, retryable) ==
  IF retryable /\ seen[w] <= MaxAttempts THEN "retrying" ELSE "rejecting"

(* The match on a failed pipeline: anything but AppError::Validation is    *)
(* retryable, and can_retry is asked of the worker's copy.                 *)
AfterFailure(w, retryable) ==
  IF retryable /\ seen[w] < MaxAttempts THEN "retrying" ELSE "rejecting"

(* A stage, or the persist transaction, returns an error and has written   *)
(* nothing.                                                                *)
PipelineFails(w) ==
  /\ pc[w] \in {"running", "persisting"}
  /\ \E retryable \in BOOLEAN : GoTo(w, AfterFailure(w, retryable))
  /\ UNCHANGED <<taskVars, content, faults>>

(* execute_persist_transaction: one transaction keyed by the task id.  It  *)
(* asks nothing of the task's row.                                         *)
Persist(w) ==
  /\ pc[w] = "persisting"
  /\ content' = [content EXCEPT ![job[w]] = "present"]
  /\ GoTo(w, "finalizing")
  /\ UNCHANGED <<taskVars, faults>>

(* Slip: one try too many *)
FinalizeAgainOffByOne(w) ==
  IF tries[w] + 1 <= PersistAttempts
    THEN /\ tries' = [tries EXCEPT ![w] = @ + 1]
         /\ UNCHANGED <<pc, job, seen, stay>>
    ELSE BackToLoop(w)

(* mark_succeeded did not succeed: try again or give up *)
FinalizeAgain(w) ==
  IF tries[w] + 1 < PersistAttempts
    THEN /\ tries' = [tries EXCEPT ![w] = @ + 1]
         /\ UNCHANGED <<pc, job, seen, stay>>
    ELSE BackToLoop(w)

Finalize(w) ==
  /\ pc[w] = "finalizing"
  /\ \/ /\ MarkSucceeded(w, job[w])
        /\ BackToLoop(w)
     \/ /\ ~OwnsProcessing(w, job[w])
        /\ FinalizeAgain(w)
        /\ UNCHANGED taskVars
  /\ UNCHANGED <<content, faults>>

(* The failure is retried after a delay.  In either failing step a lost    *)
(* lease ends the call.                                                    *)
ScheduleRetry(w) ==
  /\ pc[w] = "retrying"
  /\ \/ MarkFailed(w, job[w], RetryDelay(seen[w]))
     \/ ~OwnsProcessing(w, job[w]) /\ UNCHANGED taskVars
  /\ BackToLoop(w)
  /\ UNCHANGED <<content, faults>>

(* The failure is final: Failed with no delay first ... *)
Reject(w) ==
  /\ pc[w] = "rejecting"
  /\ \/ MarkFailed(w, job[w], 0) /\ GoTo(w, "burying")
     \/ ~OwnsProcessing(w, job[w]) /\ BackToLoop(w) /\ UNCHANGED taskVars
  /\ UNCHANGED <<content, faults>>

(* ... and DeadLetter in a second statement *)
Bury(w) ==
  /\ pc[w] = "burying"
  /\ \/ MarkDeadLetter(job[w])
     \/ ~CanMarkDeadLetter(job[w]) /\ UNCHANGED taskVars
  /\ BackToLoop(w)
  /\ UNCHANGED <<content, faults>>

Work(w) ==
  \/ Claim(w) \/ StartProcessing(w) \/ CheckArtifacts(w)
  \/ PipelineReady(w) \/ PipelineFails(w) \/ Persist(w)
  \/ Finalize(w) \/ ScheduleRetry(w) \/ Reject(w) \/ Bury(w)

-----------------------------------------------------------------------------
Fault == faults < MaxFaults /\ faults' = faults + 1

(* The worker process dies and is started again, with a fresh worker id.   *)
(* No row names the fresh id, and an idle worker sends no guarded write,   *)
(* so the name may stand for both.  A statement that ran but whose reply   *)
(* was lost is that statement followed by this.                            *)
Crash(w) ==
  /\ pc[w] # "idle"
  /\ Fault
  /\ BackToLoop(w)
  /\ UNCHANGED <<taskVars, content>>

(* A statement of process_task fails in the database and has no effect:    *)
(* `?` ends the call, except that finalize_succeeded tries again.          *)
StatementFails(w) ==
  /\ pc[w] \in {"claimed", "checking", "finalizing", "retrying", "rejecting", "burying"}
  /\ Fault
  /\ IF pc[w] = "finalizing" THEN FinalizeAgain(w) ELSE BackToLoop(w)
  /\ UNCHANGED <<taskVars, content>>

(* The persist transaction commits but its reply is lost: the pipeline     *)
(* takes it for a failure.                                                 *)
PersistReplyLost(w) ==
  /\ pc[w] = "persisting"
  /\ Fault
  /\ content' = [content EXCEPT ![job[w]] = "present"]
  /\ GoTo(w, AfterFailure(w, TRUE))
  /\ UNCHANGED taskVars

-----------------------------------------------------------------------------
(* A user submits a job *)
Submit(t) == CreateTask(t) /\ UNCHANGED <<content, workerVars, faults>>

(* A user deletes a job, in whatever state it is *)
DeleteJob(t) == DeleteTask(t) /\ UNCHANGED <<content, workerVars, faults>>

(* A user deletes the ingested content; the task row is not looked at *)
DeleteContent(t) ==
  /\ content[t] = "present"
  /\ content' = [content EXCEPT ![t] = "removed"]
  /\ UNCHANGED <<taskVars, workerVars, faults>>

(* Time passes as long as no worker has stayed longer than MaxStay *)
PassTime ==
  /\ Tick
  /\ \A w \in Workers : pc[w] # "idle" => stay[w] < MaxStay
  /\ stay' = [w \in Workers |-> IF pc[w] = "idle" THEN 0 ELSE stay[w] + 1]
  /\ UNCHANGED <<content, pc, job, seen, tries, faults>>

Next ==
  \/ \E w \in Workers : Work(w)
  \/ \E w \in Workers : Crash(w) \/ StatementFails(w) \/ PersistReplyLost(w)
  \/ \E t \in Tasks : Submit(t) \/ DeleteJob(t) \/ DeleteContent(t)
  \/ PassTime

Spec == Init /\ [][Next]_vars

(* Every worker keeps stepping while its process lives, and the clock does *)
(* not stop.  Nobody has to submit or delete anything, and nothing has to  *)
(* fail.                                                                   *)
FairSpec ==
  /\ Spec
  /\ \A w \in Workers : WF_vars(Work(w))
  /\ WF_vars(PassTime)
-----------------------------------------------------------------------------
(* Every variable has a value of its type. *)
TypeOK ==
  /\ TaskTypeOK
  /\ content \in [Tasks -> {"never", "present", "removed"}]
  /\ pc      \in [Workers -> Steps]
  /\ job     \in [Workers -> Tasks \cup {NoTask}]
  /\ seen    \in [Workers -> 0..MaxAttempts]
  /\ tries   \in [Workers -> 0..(PersistAttempts - 1)]
  /\ stay    \in [Workers -> 0..MaxStay]
  /\ faults  \in 0..MaxFaults
  /\ \A w \in Workers : pc[w] = "idle" <=> job[w] = NoTask

(* A worker that the row still names is where it thinks it is.  However    *)
(* late its statements are, and whoever reclaimed the task or gave it up   *)
(* meanwhile: if the row of its job carries its worker id, then the row is *)
(* in the state the worker left it in and the attempts it copied are still *)
(* current, so that neither its next mark_* nor its can_retry decision is  *)
(* based on a stale row.                                                   *)
OwnerIsCurrent ==
  \A w \in Workers :
    pc[w] \in Guarded /\ owner[job[w]] = w =>
      /\ pc[w] = "claimed"    => state[job[w]] = "Reserved"
      /\ pc[w] \in InProcess => /\ state[job[w]] = "Processing"
                                /\ seen[w] = attempts[job[w]]

(* A job reported as done was ingested: its content was committed before   *)
(* mark_succeeded, by this run or by an earlier one that did not live to   *)
(* report it.                                                              *)
SuccessHasContent ==
  \A t \in Tasks : state[t] = "Succeeded" => content[t] # "never"

(* A task that has used up its attempts and is Failed cannot be claimed    *)
(* again.  Unless a fault struck, a worker is about to dead-letter it:     *)
(* lost leases and races alone strand no task.                             *)
ExhaustedIsBeingBuried ==
  \A t \in Tasks :
    state[t] = "Failed" /\ attempts[t] = MaxAttempts /\ faults = 0 =>
      \E w \in Workers : pc[w] = "burying" /\ job[w] = t

(* As long as no worker stays in a phase of its call for the length of the *)
(* lease, no two workers run the same task: neither the clear-and-insert   *)
(* of persist_artifacts nor the LLM calls are ever done twice at once.     *)
OneRunPerTask ==
  \A v, w \in Workers :
    pc[v] \in Guarded /\ pc[w] \in Guarded /\ job[v] = job[w] => v = w

(* JobContract, with the lock states and Failed all seen as "open". *)
Outcome(t) ==
  CASE state[t] = "Absent"        -> "absent"
    [] state[t] \in Unfinished    -> "open"
    [] state[t] = "Succeeded"     -> "succeeded"
    [] state[t] = "DeadLetter"    -> "abandoned"
    [] state[t] = "Cancelled"     -> "abandoned"
    [] state[t] = "Deleted"       -> "withdrawn"

Contract == INSTANCE JobContract WITH outcome <- [t \in Tasks |-> Outcome(t)]

(* No worker outstaying its lease, the queue keeps the contract: a settled *)
(* job is never reopened and writes no content, and one that succeeded     *)
(* had its content written.                                                *)
KeepsContract == Contract!Spec

(* Stranded: Failed with no attempts left, which no claim takes, after a   *)
(* fault.                                                                  *)
Stranded(t) == state[t] = "Failed" /\ attempts[t] = MaxAttempts /\ faults > 0

(* Every submitted job settles: it succeeds, is dead-lettered, or its      *)
(* owner deletes it, unless a fault struck between the two statements of a *)
(* rejection.  Nothing is retried for ever, no order of failures leaves a  *)
(* task in between, and the leases give interrupted tasks back.            *)
JobsOutliveFaults ==
  \A t \in Tasks :
    state[t] = "Pending" ~> state[t] \in Terminal \cup {"Deleted"} \/ Stranded(t)

(* "The task will be rescheduled for retry after `retry_delay`": the doc   *)
(* comment of mark_failed (ingestion_task.rs:430).  A Failed task moves    *)
(* on.                                                                     *)
FailedMovesOn ==
  \A t \in Tasks : state[t] = "Failed" ~> state[t] # "Failed"

(* A validation failure dead-letters the task, as the test                 *)
(* ingestion_pipeline_validation_failure_dead_letters_task expects         *)
(* (ingestion-pipeline/src/pipeline/tests.rs:526): when the call that      *)
(* rejected a job returns, the job is in DeadLetter or deleted.            *)
RejectedIsBuried ==
  [][\A w \in Workers :
       pc[w] = "burying" /\ pc'[w] = "idle" /\ faults' = faults
         => state'[job[w]] \in {"DeadLetter", "Deleted"}]_vars
=============================================================================
