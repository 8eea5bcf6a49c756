---------------------------- MODULE IngestionTask ----------------------------
(***************************************************************************)
(* The `ingestion_task` table and the statements of                        *)
(* common/src/storage/types/ingestion_task.rs that change it.  Each        *)
(* statement is one SurrealDB UPDATE, CREATE or DELETE and therefore one   *)
(* atomic action; a guarded UPDATE whose WHERE clause matches no row       *)
(* changes nothing and the caller gets an error, so every statement comes  *)
(* with a predicate for its WHERE clause.                                  *)
(*                                                                         *)
(* Time.  The code compares scheduled_at and locked_at with the clock and  *)
(* never looks at an absolute time, so both columns are kept relative to   *)
(* now: dueIn is scheduled_at - now and lockAge is now - locked_at.  Tick  *)
(* moves the clock.  A lock older than the lease is as good as one exactly *)
(* that old, and due times further back than Horizon compare equal.        *)
(***************************************************************************)
EXTENDS Integers

CONSTANTS
  Tasks,               \* task ids; an id is created once (Uuid::new_v4)
  Workers,             \* worker ids; a restarted process takes a fresh one
  NoWorker,            \* worker_id = NONE
  MaxAttempts,         \* MAX_ATTEMPTS
  Lease,               \* DEFAULT_LEASE_SECS, in ticks
  RetryBaseDelay,      \* retry_base_delay_secs, in ticks
  RetryCapExponent,    \* retry_backoff_cap_exponent
  RetryMaxDelay,       \* retry_max_delay_secs, in ticks
  Horizon              \* how far back due times are told apart (a bound)

VARIABLES
  state,               \* column `state`, or "Absent" before CREATE, "Deleted" after DELETE
  attempts,            \* column `attempts`
  dueIn,               \* scheduled_at - now
  lockAge,             \* now - locked_at, or NoLock
  owner                \* column `worker_id`

taskVars == <<state, attempts, dueIn, lockAge, owner>>

-----------------------------------------------------------------------------
NoLock == -1

(* TaskState::is_terminal *)
Terminal == {"Succeeded", "Cancelled", "DeadLetter"}

(* $sticky_states of the claim query: a worker has the task *)
Held == {"Reserved", "Processing"}

(* $candidate_states of the claim query: every non-terminal state *)
Unfinished == {"Pending", "Failed"} \cup Held

(* The states in which there is a row *)
Stored == Unfinished \cup Terminal

TaskStates == Stored \cup {"Absent", "Deleted"}

(* IngestionPipeline::retry_delay, with u32/u64 saturation out of reach of *)
(* the attempts a task can have                                            *)
RetryDelay(attempt) ==
  LET exponent == IF attempt - 1 <= RetryCapExponent
                    THEN IF attempt = 0 THEN 0 ELSE attempt - 1
                    ELSE RetryCapExponent
      delay    == RetryBaseDelay * 2^exponent
  IN  IF delay <= RetryMaxDelay THEN delay ELSE RetryMaxDelay

ASSUME TaskAssumption ==
  /\ NoWorker \notin Workers
  /\ MaxAttempts \in Nat \ {0}
  /\ Lease \in Nat \ {0}
  /\ Horizon \in Nat
  /\ RetryMaxDelay \in Nat

(* Arithmetic the provers have no theory for (exponentiation); TLC         *)
(* evaluates it for the constants of every run.                            *)
ASSUME RetryDelayAssumption ==
  \A a \in 0..MaxAttempts : RetryDelay(a) \in 0..RetryMaxDelay

-----------------------------------------------------------------------------
InitTasks ==
  /\ state    = [t \in Tasks |-> "Absent"]
  /\ attempts = [t \in Tasks |-> 0]
  /\ dueIn    = [t \in Tasks |-> 0]
  /\ lockAge  = [t \in Tasks |-> NoLock]
  /\ owner    = [t \in Tasks |-> NoWorker]

(* IngestionTask::new and store_item *)
CreateTask(t) ==
  /\ state[t] = "Absent"
  /\ state'    = [state    EXCEPT ![t] = "Pending"]
  /\ attempts' = [attempts EXCEPT ![t] = 0]
  /\ dueIn'    = [dueIn    EXCEPT ![t] = 0]
  /\ lockAge'  = [lockAge  EXCEPT ![t] = NoLock]
  /\ owner'    = [owner    EXCEPT ![t] = NoWorker]

(* Slips: the lock is not looked at; the attempts count for held tasks too *)
ClaimableWhileLocked(t) ==
  /\ state[t] \in Unfinished
  /\ dueIn[t] <= 0
  /\ attempts[t] < MaxAttempts \/ state[t] \in Held

ClaimableWithAttemptsLeft(t) ==
  /\ state[t] \in Unfinished
  /\ dueIn[t] <= 0
  /\ attempts[t] < MaxAttempts
  /\ lockAge[t] = NoLock \/ lockAge[t] >= Lease

(* The WHERE clause of the claim query *)
Claimable(t) ==
  /\ state[t] \in Unfinished
  /\ dueIn[t] <= 0
  /\ attempts[t] < MaxAttempts \/ state[t] \in Held
  /\ lockAge[t] = NoLock \/ lockAge[t] >= Lease

(* ORDER BY priority DESC, scheduled_at ASC, created_at ASC LIMIT 1: every *)
(* task has the default priority, and the order of tasks due in the same   *)
(* tick is not determined at this resolution of the clock.                 *)
NextReady(t) ==
  /\ Claimable(t)
  /\ \A u \in Tasks : Claimable(u) => dueIn[t] <= dueIn[u]

(* Slip: every claim counts *)
ClaimTaskCountingReclaims(w, t) ==
  /\ NextReady(t)
  /\ state'    = [state    EXCEPT ![t] = "Reserved"]
  /\ attempts' = [attempts EXCEPT ![t] = @ + 1]
  /\ lockAge'  = [lockAge  EXCEPT ![t] = 0]
  /\ owner'    = [owner    EXCEPT ![t] = w]
  /\ UNCHANGED dueIn

(* claim_next_ready: first claims and claims after a failure count as an   *)
(* attempt, reclaiming a task whose lease ran out does not.                *)
ClaimTask(w, t) ==
  /\ NextReady(t)
  /\ state'    = [state    EXCEPT ![t] = "Reserved"]
  /\ attempts' = [attempts EXCEPT ![t] =
                    IF state[t] \in Held \/ @ + 1 > MaxAttempts THEN @ ELSE @ + 1]
  /\ lockAge'  = [lockAge  EXCEPT ![t] = 0]
  /\ owner'    = [owner    EXCEPT ![t] = w]
  /\ UNCHANGED dueIn

(* Slip: any worker may start a reserved task *)
CanMarkProcessingByAnyone(w, t) == state[t] = "Reserved"

CanMarkProcessing(w, t) == state[t] = "Reserved" /\ owner[t] = w

(* Slip: the lock time of the claim is kept *)
MarkProcessingKeepingLock(w, t) ==
  /\ CanMarkProcessing(w, t)
  /\ state' = [state EXCEPT ![t] = "Processing"]
  /\ UNCHANGED <<attempts, dueIn, lockAge, owner>>

MarkProcessing(w, t) ==
  /\ CanMarkProcessing(w, t)
  /\ state'   = [state   EXCEPT ![t] = "Processing"]
  /\ lockAge' = [lockAge EXCEPT ![t] = 0]
  /\ UNCHANGED <<attempts, dueIn, owner>>

(* Slips: the worker alone is checked; an expired lock is refused *)
OwnsHeld(w, t) == owner[t] = w

(* The guard mark_succeeded and mark_failed share *)
OwnsProcessing(w, t) == state[t] = "Processing" /\ owner[t] = w

(* What mark_succeeded, mark_failed and mark_dead_letter write *)
Unlock(t, newState, delay) ==
  /\ state'   = [state   EXCEPT ![t] = newState]
  /\ dueIn'   = [dueIn   EXCEPT ![t] = delay]
  /\ lockAge' = [lockAge EXCEPT ![t] = NoLock]
  /\ owner'   = [owner   EXCEPT ![t] = NoWorker]
  /\ UNCHANGED attempts

MarkSucceeded(w, t) == OwnsProcessing(w, t) /\ Unlock(t, "Succeeded", 0)

MarkFailed(w, t, delay) == OwnsProcessing(w, t) /\ Unlock(t, "Failed", delay)

(* mark_dead_letter asks for the state only, not for the worker *)
CanMarkDeadLetter(t) == state[t] = "Failed"

MarkDeadLetter(t) == CanMarkDeadLetter(t) /\ Unlock(t, "DeadLetter", 0)

(* Slip: the WHERE clause is left out *)
CanMarkCancelledAlways(t) == state[t] \in Stored

(* mark_cancelled: $allow_states, no worker check *)
CanMarkCancelled(t) == state[t] \in {"Pending", "Reserved", "Processing"}

MarkCancelled(t) == CanMarkCancelled(t) /\ Unlock(t, "Cancelled", dueIn[t])

(* Slip: the lock columns are not cleared *)
ReleaseTaskLocked(t) ==
  /\ state[t] = "Reserved"
  /\ state' = [state EXCEPT ![t] = "Pending"]
  /\ UNCHANGED <<attempts, dueIn, lockAge, owner>>

(* release: no worker check either *)
ReleaseTask(t) == state[t] = "Reserved" /\ Unlock(t, "Pending", dueIn[t])

(* User::validate_and_delete_job: the row is read to check who owns the    *)
(* job, never for its state, and deleted by id.                            *)
DeleteTask(t) ==
  /\ state[t] \in Stored
  /\ Unlock(t, "Deleted", 0)

(* One unit of time passes for every row *)
Tick ==
  /\ dueIn'   = [t \in Tasks |-> IF dueIn[t] > -Horizon THEN dueIn[t] - 1 ELSE dueIn[t]]
  /\ lockAge' = [t \in Tasks |-> IF lockAge[t] \in 0..(Lease - 1)
                                   THEN lockAge[t] + 1 ELSE lockAge[t]]
  /\ UNCHANGED <<state, attempts, owner>>

-----------------------------------------------------------------------------
(* The statements as an API: any caller, in any order, with any worker id. *)
Delays == {0} \cup {RetryDelay(a) : a \in 1..MaxAttempts}

NextTasks ==
  \/ \E t \in Tasks :
       \/ CreateTask(t)
       \/ MarkDeadLetter(t)
       \/ MarkCancelled(t)
       \/ ReleaseTask(t)
       \/ DeleteTask(t)
  \/ \E t \in Tasks, w \in Workers :
       \/ ClaimTask(w, t)
       \/ MarkProcessing(w, t)
       \/ MarkSucceeded(w, t)
       \/ \E d \in Delays : MarkFailed(w, t, d)
  \/ Tick

TaskSpec == InitTasks /\ [][NextTasks]_taskVars

-----------------------------------------------------------------------------
(* Every column has a value the schema allows. *)
TaskTypeOK ==
  /\ state    \in [Tasks -> TaskStates]
  /\ attempts \in [Tasks -> 0..MaxAttempts]
  /\ dueIn    \in [Tasks -> -Horizon..RetryMaxDelay]
  /\ lockAge  \in [Tasks -> {NoLock} \cup 0..Lease]
  /\ owner    \in [Tasks -> Workers \cup {NoWorker}]

(* The lock columns and the state never disagree: a row names a worker and *)
(* carries a lock time exactly while it is Reserved or Processing, so no   *)
(* statement leaves a task locked that nobody can reclaim, nor a held task *)
(* that a second claim could take without waiting for the lease; and a     *)
(* held task is never waiting for a retry time.                            *)
LockMatchesState ==
  \A t \in Tasks :
    /\ state[t] \in Held <=> lockAge[t] # NoLock
    /\ state[t] \in Held <=> owner[t] # NoWorker
    /\ state[t] \in Held => dueIn[t] <= 0 /\ attempts[t] >= 1

(* A terminal task never runs again: whatever statement a late caller      *)
(* sends, the row keeps its state until its owner deletes it, and a        *)
(* deleted row does not come back.                                         *)
TerminalIsFinal ==
  [][\A t \in Tasks :
       /\ state[t] \in Terminal  => state'[t] \in {state[t], "Deleted"}
       /\ state[t] = "Deleted" => state'[t] = "Deleted"]_taskVars

(* What an observer of `state` sees is the declared life cycle with the    *)
(* reclaim of an expired lease added.                                      *)
Lifecycle == INSTANCE TaskLifecycle WITH status <- state

FollowsLifecycle == Lifecycle!Spec

(* "Transition this task to `Cancelled` from any non-terminal state":      *)
(* the doc comment of mark_cancelled (ingestion_task.rs:525).  The         *)
(* statement leaves out Failed.                                            *)
CancelAcceptsUnfinished ==
  \A t \in Tasks : state[t] \in Unfinished => CanMarkCancelled(t)
=============================================================================
