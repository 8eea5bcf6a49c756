------------------------ MODULE IngestionQueueProofs ------------------------
(***************************************************************************)
(* What holds of the statements of ingestion_task.rs for any number of     *)
(* tasks and workers, any lease and any number of attempts; then the       *)
(* safety properties of IngestionQueue, for any number of tries and faults *)
(* too.  The inductive invariants are TypeOK, OwnerIsCurrent, and what     *)
(* each theorem adds to them.                                              *)
(* After them, what the runs of the pipeline write (Enrichment), for any    *)
(* number of jobs, runs of a job, answers of the model and deletions.       *)
(***************************************************************************)
EXTENDS Enrichment, IngestionQueue, TLAPS

-----------------------------------------------------------------------------
(* IngestionTask *)

(* Every delay the pipeline passes to mark_failed is within the bounds. *)
LEMMA DelaysBounded == Delays \subseteq 0..RetryMaxDelay
BY TaskAssumption, RetryDelayAssumption DEF Delays

-----------------------------------------------------------------------------
(* Each statement, on its own, leaves well-typed columns. *)
LEMMA CreateTaskType ==
  ASSUME TaskTypeOK, NEW t \in Tasks, CreateTask(t) PROVE TaskTypeOK'
BY TaskAssumption
   DEF TaskTypeOK, CreateTask, TaskStates, Stored, Unfinished, Held, Terminal, NoLock

LEMMA ClaimTaskType ==
  ASSUME TaskTypeOK, NEW t \in Tasks, NEW w \in Workers, ClaimTask(w, t)
  PROVE  TaskTypeOK'
BY TaskAssumption
   DEF TaskTypeOK, ClaimTask, NextReady, Claimable, TaskStates, Stored, Unfinished, Held,
       Terminal, NoLock

LEMMA MarkProcessingType ==
  ASSUME TaskTypeOK, NEW t \in Tasks, NEW w \in Workers, MarkProcessing(w, t)
  PROVE  TaskTypeOK'
BY TaskAssumption
   DEF TaskTypeOK, MarkProcessing, TaskStates, Stored, Unfinished, Held, Terminal, NoLock

LEMMA UnlockType ==
  ASSUME TaskTypeOK, NEW t \in Tasks, NEW s \in TaskStates,
         NEW d \in -Horizon..RetryMaxDelay, Unlock(t, s, d)
  PROVE  TaskTypeOK'
BY TaskAssumption DEF TaskTypeOK, Unlock, NoLock

LEMMA TickType ==
  ASSUME TaskTypeOK, Tick PROVE TaskTypeOK'
BY TaskAssumption DEF TaskTypeOK, Tick, NoLock

(* The statements that end in Unlock, by what they make of the task *)
LEMMA EndingType ==
  ASSUME TaskTypeOK, NEW t \in Tasks,
         \/ \E w \in Workers : MarkSucceeded(w, t)
         \/ \E w \in Workers, d \in 0..RetryMaxDelay : MarkFailed(w, t, d)
         \/ MarkDeadLetter(t) \/ MarkCancelled(t) \/ ReleaseTask(t) \/ DeleteTask(t)
  PROVE  TaskTypeOK'
<1>1. {"Succeeded", "Failed", "DeadLetter", "Cancelled", "Pending", "Deleted"} \subseteq TaskStates
  BY DEF TaskStates, Stored, Unfinished, Terminal
<1>2. 0 \in -Horizon..RetryMaxDelay /\ dueIn[t] \in -Horizon..RetryMaxDelay
      /\ 0..RetryMaxDelay \subseteq -Horizon..RetryMaxDelay
  BY TaskAssumption DEF TaskTypeOK
<1> QED
  BY <1>1, <1>2, UnlockType
     DEF MarkSucceeded, MarkFailed, MarkDeadLetter, MarkCancelled, ReleaseTask, DeleteTask

-----------------------------------------------------------------------------
(* The columns keep their types under any sequence of statements, in       *)
(* particular attempts never passes MAX_ATTEMPTS.                          *)
THEOREM TaskTypeCorrect == TaskSpec => []TaskTypeOK
<1>1. InitTasks => TaskTypeOK
  BY TaskAssumption DEF InitTasks, TaskTypeOK, TaskStates, NoLock
<1>2. TaskTypeOK /\ [NextTasks]_taskVars => TaskTypeOK'
  <2> SUFFICES ASSUME TaskTypeOK, [NextTasks]_taskVars PROVE TaskTypeOK'
    OBVIOUS
  <2>1. CASE UNCHANGED taskVars
    BY <2>1 DEF TaskTypeOK, taskVars
  <2>2. CASE \E t \in Tasks : CreateTask(t)
    BY <2>2, CreateTaskType
  <2>3. CASE \E t \in Tasks, w \in Workers : ClaimTask(w, t)
    BY <2>3, ClaimTaskType
  <2>4. CASE \E t \in Tasks, w \in Workers : MarkProcessing(w, t)
    BY <2>4, MarkProcessingType
  <2>5. CASE \E t \in Tasks : \/ MarkDeadLetter(t) \/ MarkCancelled(t)
                              \/ ReleaseTask(t) \/ DeleteTask(t)
    BY <2>5, EndingType
  <2>6. CASE \E t \in Tasks, w \in Workers :
               MarkSucceeded(w, t) \/ \E d \in Delays : MarkFailed(w, t, d)
    BY <2>6, EndingType, DelaysBounded
  <2>7. CASE Tick
    BY <2>7, TickType
  <2> QED
    BY <2>1, <2>2, <2>3, <2>4, <2>5, <2>6, <2>7 DEF NextTasks
<1> QED
  BY <1>1, <1>2, PTL DEF TaskSpec
-----------------------------------------------------------------------------
(* A lock is held exactly in the states in which a worker has the task: an *)
(* invariant of every statement by itself, so that it needs no more than   *)
(* the types to be inductive.                                              *)
LEMMA LockStep ==
  ASSUME TaskTypeOK, LockMatchesState, NextTasks
  PROVE  LockMatchesState'
<1> USE TaskAssumption DEF LockMatchesState, TaskTypeOK, NoLock, Held
<1>1. ASSUME NEW t \in Tasks, CreateTask(t) PROVE LockMatchesState'
  BY <1>1 DEF CreateTask
<1>2. ASSUME NEW t \in Tasks, NEW w \in Workers, ClaimTask(w, t) PROVE LockMatchesState'
  BY <1>2 DEF ClaimTask, NextReady, Claimable, Unfinished
<1>3. ASSUME NEW t \in Tasks, NEW w \in Workers, MarkProcessing(w, t) PROVE LockMatchesState'
  BY <1>3 DEF MarkProcessing, CanMarkProcessing
<1>4. ASSUME NEW t \in Tasks, NEW s \in TaskStates \ Held, NEW d, Unlock(t, s, d)
      PROVE  LockMatchesState'
  BY <1>4 DEF Unlock
<1>5. ASSUME Tick PROVE LockMatchesState'
  BY <1>5 DEF Tick
<1>6. {"Succeeded", "Failed", "DeadLetter", "Cancelled", "Pending", "Deleted"}
        \subseteq TaskStates \ Held
  BY DEF TaskStates, Stored, Unfinished, Terminal
<1> QED
  BY <1>1, <1>2, <1>3, <1>4, <1>5, <1>6
     DEF NextTasks, MarkSucceeded, MarkFailed, MarkDeadLetter, MarkCancelled, ReleaseTask,
         DeleteTask

THEOREM LockInvariant == TaskSpec => []LockMatchesState
<1>1. InitTasks => LockMatchesState
  BY TaskAssumption DEF InitTasks, LockMatchesState, Held, NoLock
<1>2. TaskTypeOK /\ LockMatchesState /\ [NextTasks]_taskVars => LockMatchesState'
  BY LockStep DEF taskVars, LockMatchesState
<1> QED
  BY <1>1, <1>2, TaskTypeCorrect, PTL DEF TaskSpec

-----------------------------------------------------------------------------
(* No statement moves a task out of a terminal state except DELETE, and    *)
(* none brings a deleted row back: each names the states it starts from.   *)
THEOREM TerminalStays == TaskSpec => TerminalIsFinal
<1> DEFINE Stays == \A t \in Tasks :
                      /\ state[t] \in Terminal  => state'[t] \in {state[t], "Deleted"}
                      /\ state[t] = "Deleted" => state'[t] = "Deleted"
<1>1. TaskTypeOK /\ [NextTasks]_taskVars => [Stays]_taskVars
  <2> SUFFICES ASSUME TaskTypeOK, NextTasks PROVE Stays
    OBVIOUS
  <2> USE DEF TaskTypeOK, Terminal
  <2>1. ASSUME NEW t \in Tasks, CreateTask(t) PROVE Stays
    BY <2>1 DEF CreateTask
  <2>2. ASSUME NEW t \in Tasks, NEW w \in Workers, ClaimTask(w, t) PROVE Stays
    BY <2>2 DEF ClaimTask, NextReady, Claimable, Unfinished, Held
  <2>3. ASSUME NEW t \in Tasks, NEW w \in Workers, MarkProcessing(w, t) PROVE Stays
    BY <2>3 DEF MarkProcessing, CanMarkProcessing
  <2>4. ASSUME NEW t \in Tasks, NEW s, NEW d, Unlock(t, s, d),
               state[t] \in {"Pending", "Reserved", "Processing", "Failed"} \/ s = "Deleted"
        PROVE  Stays
    BY <2>4 DEF Unlock
  <2>5. ASSUME Tick PROVE Stays
    BY <2>5 DEF Tick
  <2> QED
    BY <2>1, <2>2, <2>3, <2>4, <2>5
       DEF NextTasks, MarkSucceeded, MarkFailed, MarkDeadLetter, MarkCancelled, ReleaseTask,
           DeleteTask, OwnsProcessing, CanMarkDeadLetter, CanMarkCancelled
<1> QED
  BY <1>1, TaskTypeCorrect, PTL DEF TaskSpec, TerminalIsFinal

-----------------------------------------------------------------------------
(* The statements implement the declared life cycle extended by Reclaim:   *)
(* whoever looks at `state` alone sees only its transitions.               *)
THEOREM ImplementsLifecycle == TaskSpec => FollowsLifecycle
<1> USE DEF TaskTypeOK
<1>1. InitTasks => Lifecycle!Init
  BY DEF InitTasks, Lifecycle!Init
<1>2. TaskTypeOK /\ [NextTasks]_taskVars => [Lifecycle!Next]_state
  <2> SUFFICES ASSUME TaskTypeOK, NextTasks PROVE Lifecycle!Next \/ UNCHANGED state
    BY DEF taskVars
  <2> USE DEF Lifecycle!Next, Lifecycle!Move
  <2>1. ASSUME NEW t \in Tasks, CreateTask(t) PROVE Lifecycle!Next
    BY <2>1 DEF CreateTask, Lifecycle!Create
  <2>2. ASSUME NEW t \in Tasks, NEW w \in Workers, ClaimTask(w, t)
        PROVE  Lifecycle!Next \/ UNCHANGED state
    <3>1. state' = [state EXCEPT ![t] = "Reserved"]
      BY <2>2 DEF ClaimTask
    <3>2. state[t] \in {"Pending", "Failed", "Processing"} => Lifecycle!Next
      BY <3>1 DEF Lifecycle!Reserve, Lifecycle!Reclaim
    <3>3. state[t] = "Reserved" => UNCHANGED state
      BY <3>1
    <3> QED
      BY <2>2, <3>2, <3>3 DEF ClaimTask, NextReady, Claimable, Unfinished, Held
  <2>3. ASSUME NEW t \in Tasks, NEW w \in Workers, MarkProcessing(w, t) PROVE Lifecycle!Next
    BY <2>3 DEF MarkProcessing, CanMarkProcessing, Lifecycle!StartProcessing
  <2>4. ASSUME NEW t \in Tasks, NEW w \in Workers, MarkSucceeded(w, t) PROVE Lifecycle!Next
    BY <2>4 DEF MarkSucceeded, OwnsProcessing, Unlock, Lifecycle!Succeed
  <2>5. ASSUME NEW t \in Tasks, NEW w \in Workers, NEW d, MarkFailed(w, t, d)
        PROVE  Lifecycle!Next
    BY <2>5 DEF MarkFailed, OwnsProcessing, Unlock, Lifecycle!Fail
  <2>6. ASSUME NEW t \in Tasks, MarkDeadLetter(t) PROVE Lifecycle!Next
    BY <2>6 DEF MarkDeadLetter, CanMarkDeadLetter, Unlock, Lifecycle!Bury
  <2>7. ASSUME NEW t \in Tasks, MarkCancelled(t) PROVE Lifecycle!Next
    BY <2>7 DEF MarkCancelled, CanMarkCancelled, Unlock, Lifecycle!Cancel
  <2>8. ASSUME NEW t \in Tasks, ReleaseTask(t) PROVE Lifecycle!Next
    BY <2>8 DEF ReleaseTask, Unlock, Lifecycle!Release
  <2>9. ASSUME NEW t \in Tasks, DeleteTask(t) PROVE Lifecycle!Next
    BY <2>9 DEF DeleteTask, Unlock, Stored, Unfinished, Held, Terminal, Lifecycle!Delete
  <2>10. Tick => UNCHANGED state
    BY DEF Tick
  <2> QED
    BY <2>1, <2>2, <2>3, <2>4, <2>5, <2>6, <2>7, <2>8, <2>9, <2>10 DEF NextTasks
<1> QED
  BY <1>1, <1>2, TaskTypeCorrect, PTL DEF TaskSpec, FollowsLifecycle, Lifecycle!Spec

-----------------------------------------------------------------------------
(* IngestionQueue *)

(* The type of everything but the table *)
QueueTypeOK ==
  /\ content \in [Tasks -> {"never", "present", "removed"}]
  /\ pc      \in [Workers -> Steps]
  /\ job     \in [Workers -> Tasks \cup {NoTask}]
  /\ seen    \in [Workers -> 0..MaxAttempts]
  /\ tries   \in [Workers -> 0..(PersistAttempts - 1)]
  /\ stay    \in [Workers -> 0..MaxStay]
  /\ faults  \in 0..MaxFaults
  /\ \A w \in Workers : pc[w] = "idle" <=> job[w] = NoTask

LEMMA TypeSplit == TypeOK <=> TaskTypeOK /\ QueueTypeOK
BY DEF TypeOK, QueueTypeOK

(* A worker that is not idle has a task. *)
LEMMA BusyHasJob ==
  ASSUME TypeOK, NEW w \in Workers, pc[w] # "idle" PROVE job[w] \in Tasks
BY DEF TypeOK

-----------------------------------------------------------------------------
(* The two ways a step ends keep the workers' variables well-typed. *)
LEMMA GoToType ==
  ASSUME QueueTypeOK, NEW w \in Workers, NEW s \in Steps \ {"idle"}, pc[w] # "idle",
         GoTo(w, s), content' \in [Tasks -> {"never", "present", "removed"}],
         faults' \in 0..MaxFaults
  PROVE  QueueTypeOK'
BY DEF QueueTypeOK, GoTo

LEMMA BackToLoopType ==
  ASSUME QueueTypeOK, NEW w \in Workers, BackToLoop(w), UNCHANGED content,
         faults' \in 0..MaxFaults
  PROVE  QueueTypeOK'
BY QueueAssumption, TaskAssumption DEF QueueTypeOK, BackToLoop, Steps

LEMMA FinalizeAgainType ==
  ASSUME QueueTypeOK, NEW w \in Workers, FinalizeAgain(w), UNCHANGED content,
         faults' \in 0..MaxFaults
  PROVE  QueueTypeOK'
<1>1. CASE tries[w] + 1 < PersistAttempts
  BY <1>1, QueueAssumption DEF QueueTypeOK, FinalizeAgain
<1>2. CASE ~(tries[w] + 1 < PersistAttempts)
  BY <1>2, BackToLoopType DEF FinalizeAgain
<1> QED
  BY <1>1, <1>2

LEMMA FaultType ==
  ASSUME QueueTypeOK, Fault PROVE faults' \in 0..MaxFaults
BY QueueAssumption DEF QueueTypeOK, Fault

(* Where a failed pipeline goes is a step. *)
LEMMA AfterFailureStep ==
  ASSUME NEW w, NEW retryable PROVE AfterFailure(w, retryable) \in {"retrying", "rejecting"}
BY DEF AfterFailure

(* Work keeps the types. *)
LEMMA WorkType ==
  ASSUME TypeOK, NEW w \in Workers, Work(w) PROVE TypeOK'
<1> TaskTypeOK /\ QueueTypeOK
  BY TypeSplit
<1> SUFFICES TaskTypeOK' /\ QueueTypeOK'
  BY DEF TypeOK, TaskTypeOK, QueueTypeOK
<1>a. faults \in 0..MaxFaults /\ content \in [Tasks -> {"never", "present", "removed"}]
  BY DEF QueueTypeOK
<1>b. pc[w] # "idle" => job[w] \in Tasks
  BY BusyHasJob
<1>c. UNCHANGED taskVars => TaskTypeOK'
  BY DEF taskVars, TaskTypeOK
<1>d. {"finalizing", "running", "persisting", "retrying", "rejecting", "burying"}
        \subseteq Steps \ {"idle"}
  BY DEF Steps
<1>1. CASE Claim(w)
  <2>1. PICK t \in Tasks : ClaimTask(w, t) /\ job' = [job EXCEPT ![w] = t]
    BY <1>1 DEF Claim
  <2>2. TaskTypeOK'
    BY <2>1, ClaimTaskType
  <2>3. QueueTypeOK'
    BY <1>1, <2>1, QueueAssumption DEF Claim, QueueTypeOK, Steps
  <2> QED
    BY <2>2, <2>3
<1>2. CASE StartProcessing(w)
  <2>1. CASE /\ MarkProcessing(w, job[w])
             /\ pc'   = [pc   EXCEPT ![w] = "checking"]
             /\ seen' = [seen EXCEPT ![w] = attempts[job[w]]]
             /\ stay' = [stay EXCEPT ![w] = 0]
             /\ UNCHANGED <<job, tries>>
    <3>1. job[w] \in Tasks /\ pc[w] = "claimed"
      BY <1>2, <1>b DEF StartProcessing
    <3>2. TaskTypeOK'
      BY <2>1, <3>1, MarkProcessingType
    <3>3. attempts[job[w]] \in 0..MaxAttempts
      BY <3>1 DEF TaskTypeOK
    <3>4. QueueTypeOK'
      BY <1>2, <2>1, <3>1, <3>3, QueueAssumption DEF StartProcessing, QueueTypeOK, Steps
    <3> QED
      BY <3>2, <3>4
  <2>2. CASE BackToLoop(w) /\ UNCHANGED taskVars
    BY <1>2, <2>2, <1>a, <1>c, BackToLoopType DEF StartProcessing
  <2> QED
    BY <1>2, <2>1, <2>2 DEF StartProcessing
<1>3. CASE CheckArtifacts(w)
  BY <1>3, <1>a, <1>c, <1>d, GoToType DEF CheckArtifacts
<1>4. CASE PipelineReady(w)
  BY <1>4, <1>a, <1>c, <1>d, GoToType DEF PipelineReady
<1>5. CASE PipelineFails(w)
  BY <1>5, <1>a, <1>c, <1>d, GoToType, AfterFailureStep DEF PipelineFails
<1>6. CASE Persist(w)
  <2>1. content' \in [Tasks -> {"never", "present", "removed"}]
    BY <1>6, <1>a DEF Persist
  <2> QED
    BY <1>6, <2>1, <1>a, <1>c, <1>d, GoToType DEF Persist
<1>7. CASE Finalize(w)
  <2>1. CASE MarkSucceeded(w, job[w]) /\ BackToLoop(w)
    BY <1>7, <2>1, <1>a, <1>b, EndingType, BackToLoopType DEF Finalize
  <2>2. CASE FinalizeAgain(w) /\ UNCHANGED taskVars
    BY <1>7, <2>2, <1>a, <1>c, FinalizeAgainType DEF Finalize
  <2> QED
    BY <1>7, <2>1, <2>2 DEF Finalize
<1>8. CASE ScheduleRetry(w)
  <2>1. RetryDelay(seen[w]) \in 0..RetryMaxDelay
    BY RetryDelayAssumption DEF QueueTypeOK
  <2>2. TaskTypeOK'
    BY <1>8, <2>1, <1>b, <1>c, EndingType DEF ScheduleRetry
  <2> QED
    BY <1>8, <2>2, <1>a, BackToLoopType DEF ScheduleRetry
<1>9. CASE Reject(w)
  <2>1. CASE MarkFailed(w, job[w], 0) /\ GoTo(w, "burying")
    <3>1. 0 \in 0..RetryMaxDelay
      BY TaskAssumption
    <3> QED
      BY <1>9, <2>1, <3>1, <1>a, <1>b, <1>d, EndingType, GoToType DEF Reject
  <2>2. CASE BackToLoop(w) /\ UNCHANGED taskVars
    BY <1>9, <2>2, <1>a, <1>c, BackToLoopType DEF Reject
  <2> QED
    BY <1>9, <2>1, <2>2 DEF Reject
<1>10. CASE Bury(w)
  BY <1>10, <1>a, <1>b, <1>c, EndingType, BackToLoopType DEF Bury
<1> QED
  BY <1>1, <1>2, <1>3, <1>4, <1>5, <1>6, <1>7, <1>8, <1>9, <1>10 DEF Work

(* So do faults, ... *)
LEMMA FaultStepType ==
  ASSUME TypeOK, NEW w \in Workers,
         Crash(w) \/ StatementFails(w) \/ PersistReplyLost(w)
  PROVE  TypeOK'
<1> TaskTypeOK /\ QueueTypeOK
  BY TypeSplit
<1> SUFFICES TaskTypeOK' /\ QueueTypeOK'
  BY DEF TypeOK, TaskTypeOK, QueueTypeOK
<1>1. UNCHANGED taskVars /\ faults' \in 0..MaxFaults
  BY FaultType DEF Crash, StatementFails, PersistReplyLost
<1>2. TaskTypeOK'
  BY <1>1 DEF taskVars, TaskTypeOK
<1>3. CASE Crash(w)
  BY <1>1, <1>2, <1>3, BackToLoopType DEF Crash
<1>4. CASE StatementFails(w)
  BY <1>1, <1>2, <1>4, BackToLoopType, FinalizeAgainType DEF StatementFails
<1>5. CASE PersistReplyLost(w)
  <2>1. content' \in [Tasks -> {"never", "present", "removed"}]
    BY <1>5 DEF PersistReplyLost, QueueTypeOK
  <2>2. AfterFailure(w, TRUE) \in Steps \ {"idle"}
    BY AfterFailureStep DEF Steps
  <2> QED
    BY <1>1, <1>2, <1>5, <2>1, <2>2, GoToType DEF PersistReplyLost
<1> QED
  BY <1>3, <1>4, <1>5

(* ... users and the clock. *)
LEMMA OutsideType ==
  ASSUME TypeOK, PassTime \/ \E t \in Tasks : Submit(t) \/ DeleteJob(t) \/ DeleteContent(t)
  PROVE  TypeOK'
<1> TaskTypeOK /\ QueueTypeOK
  BY TypeSplit
<1> SUFFICES TaskTypeOK' /\ QueueTypeOK'
  BY DEF TypeOK, TaskTypeOK, QueueTypeOK
<1>1. ASSUME NEW t \in Tasks, Submit(t) PROVE TaskTypeOK' /\ QueueTypeOK'
  BY <1>1, CreateTaskType DEF Submit, QueueTypeOK, workerVars
<1>2. ASSUME NEW t \in Tasks, DeleteJob(t) PROVE TaskTypeOK' /\ QueueTypeOK'
  BY <1>2, EndingType DEF DeleteJob, QueueTypeOK, workerVars
<1>3. ASSUME NEW t \in Tasks, DeleteContent(t) PROVE TaskTypeOK' /\ QueueTypeOK'
  BY <1>3 DEF DeleteContent, QueueTypeOK, TaskTypeOK, taskVars, workerVars
<1>4. ASSUME PassTime PROVE TaskTypeOK' /\ QueueTypeOK'
  BY <1>4, TickType, QueueAssumption DEF PassTime, QueueTypeOK
<1> QED
  BY <1>1, <1>2, <1>3, <1>4

LEMMA TypeStep == TypeOK /\ [Next]_vars => TypeOK'
<1>1. TypeOK /\ UNCHANGED vars => TypeOK'
  BY DEF vars, taskVars, workerVars, TypeOK, TaskTypeOK
<1> QED
  BY <1>1, WorkType, FaultStepType, OutsideType DEF Next

(* The variables keep their types: in particular no worker is idle with a  *)
(* task or busy without one.                                               *)
THEOREM TypeCorrect == Spec => []TypeOK
<1>1. Init => TypeOK
  BY TaskAssumption, QueueAssumption
     DEF Init, InitTasks, TypeOK, TaskTypeOK, TaskStates, Steps, NoLock
<1> QED
  BY <1>1, TypeStep, PTL DEF Spec

-----------------------------------------------------------------------------
(* Who can lose a task by a statement.  Whatever a statement does to task  *)
(* t, it leaves the other rows alone and afterwards t names the worker who *)
(* sent it or nobody: no other worker goes on believing in a row that      *)
(* changed under it.                                                       *)
LEMMA OneRowChanges ==
  ASSUME TypeOK, NEW t \in Tasks, NEW w \in Workers, NEW s, NEW d,
         ClaimTask(w, t) \/ MarkProcessing(w, t) \/ Unlock(t, s, d)
  PROVE  /\ owner'[t] \in {w, NoWorker}
         /\ \A u \in Tasks \ {t} : /\ owner'[u] = owner[u]
                                   /\ state'[u] = state[u]
                                   /\ attempts'[u] = attempts[u]
BY DEF TypeOK, TaskTypeOK, ClaimTask, MarkProcessing, CanMarkProcessing, Unlock

(* OwnerIsCurrent, one worker at a time *)
CurrentFor(w) ==
  pc[w] \in Guarded /\ owner[job[w]] = w =>
    /\ pc[w] = "claimed"   => state[job[w]] = "Reserved"
    /\ pc[w] \in InProcess => /\ state[job[w]] = "Processing"
                              /\ seen[w] = attempts[job[w]]

LEMMA CurrentForAll == OwnerIsCurrent <=> \A w \in Workers : CurrentFor(w)
BY DEF OwnerIsCurrent, CurrentFor

(* A worker that did not step, and whose row was changed by another or not *)
(* at all, is as current as before.                                        *)
LEMMA CurrentIfUntouched ==
  ASSUME TypeOK, NEW v \in Workers, CurrentFor(v),
         pc'[v] = pc[v], job'[v] = job[v], seen'[v] = seen[v],
         pc[v] # "idle" =>
           \/ owner'[job[v]] # v
           \/ /\ owner'[job[v]] = owner[job[v]]
              /\ state'[job[v]] = state[job[v]]
              /\ attempts'[job[v]] = attempts[job[v]]
  PROVE  CurrentFor(v)'
BY DEF CurrentFor, Guarded, InProcess

(* What a worker's step does to the table and to the other workers *)
LEMMA WorkTable ==
  ASSUME TypeOK, NEW w \in Workers, Work(w)
  PROVE  \/ UNCHANGED taskVars
         \/ \E t \in Tasks : \/ ClaimTask(w, t)
                             \/ MarkProcessing(w, t)
                             \/ \E s, d : Unlock(t, s, d)
<1>1. pc[w] # "idle" => job[w] \in Tasks
  BY BusyHasJob
<1> QED
  BY <1>1
     DEF Work, Claim, StartProcessing, CheckArtifacts, PipelineReady, PipelineFails, Persist,
         Finalize, ScheduleRetry, Reject, Bury, MarkSucceeded, MarkFailed, MarkDeadLetter

LEMMA WorkIsLocal ==
  ASSUME TypeOK, NEW w \in Workers,
         Work(w) \/ Crash(w) \/ StatementFails(w) \/ PersistReplyLost(w),
         NEW v \in Workers \ {w}
  PROVE  pc'[v] = pc[v] /\ job'[v] = job[v] /\ seen'[v] = seen[v] /\ stay'[v] = stay[v]
<1> USE DEF TypeOK
<1>1. GoTo(w, pc'[w]) \/ BackToLoop(w) \/ FinalizeAgain(w) => 
        pc'[v] = pc[v] /\ job'[v] = job[v] /\ seen'[v] = seen[v] /\ stay'[v] = stay[v]
  BY DEF GoTo, BackToLoop, FinalizeAgain
<1>2. ASSUME NEW s, GoTo(w, s) PROVE GoTo(w, pc'[w])
  BY <1>2 DEF GoTo
<1>3. Claim(w) \/ StartProcessing(w) \/ GoTo(w, pc'[w]) \/ BackToLoop(w) \/ FinalizeAgain(w)
  BY <1>2
     DEF Work, CheckArtifacts, PipelineReady, PipelineFails, Persist, Finalize, ScheduleRetry,
         Reject, Bury, Crash, StatementFails, PersistReplyLost
<1> QED
  BY <1>1, <1>3 DEF Claim, StartProcessing

LEMMA WorkCurrent ==
  ASSUME TypeOK, OwnerIsCurrent, NEW w \in Workers, Work(w)
  PROVE  OwnerIsCurrent'
<1> SUFFICES ASSUME NEW v \in Workers PROVE CurrentFor(v)'
  BY CurrentForAll DEF OwnerIsCurrent, CurrentFor
<1>1. CurrentFor(v)
  BY CurrentForAll
<1>2. CASE v # w
  <2>1. pc'[v] = pc[v] /\ job'[v] = job[v] /\ seen'[v] = seen[v]
    BY <1>2, WorkIsLocal
  <2>2. CASE UNCHANGED taskVars
    BY <1>1, <2>1, <2>2, CurrentIfUntouched DEF taskVars
  <2>3. CASE \E t \in Tasks : \/ ClaimTask(w, t)
                              \/ MarkProcessing(w, t)
                              \/ \E s, d : Unlock(t, s, d)
    BY <1>1, <1>2, <2>1, <2>3, OneRowChanges, CurrentIfUntouched, BusyHasJob, TaskAssumption
  <2> QED
    BY <2>2, <2>3, WorkTable
<1>3. CASE v = w
  <2> USE <1>1, <1>3 DEF CurrentFor, TypeOK, TaskTypeOK
  <2>1. CASE Claim(w)
    BY <2>1 DEF Claim, ClaimTask, InProcess, Guarded
  <2>2. CASE StartProcessing(w)
    BY <2>2, BusyHasJob DEF StartProcessing, MarkProcessing, CanMarkProcessing, BackToLoop, Guarded
  <2>3. CASE CheckArtifacts(w) \/ PipelineReady(w) \/ PipelineFails(w) \/ Persist(w)
    <3>1. UNCHANGED <<state, attempts, owner, job, seen>> /\ pc[w] \in InProcess /\ pc'[w] # "claimed"
      BY <2>3, AfterFailureStep
         DEF CheckArtifacts, PipelineReady, PipelineFails, Persist, GoTo, taskVars, InProcess,
             Guarded, Steps
    <3> QED
      BY <3>1 DEF InProcess
  <2>4. CASE Finalize(w)
    BY <2>4 DEF Finalize, FinalizeAgain, BackToLoop, taskVars, Guarded, InProcess, Steps
  <2>5. CASE ScheduleRetry(w) \/ Reject(w) \/ Bury(w)
    BY <2>5 DEF ScheduleRetry, Reject, Bury, GoTo, BackToLoop, Guarded
  <2> QED
    BY <2>1, <2>2, <2>3, <2>4, <2>5 DEF Work
<1> QED
  BY <1>2, <1>3

LEMMA FaultCurrent ==
  ASSUME TypeOK, OwnerIsCurrent, NEW w \in Workers,
         Crash(w) \/ StatementFails(w) \/ PersistReplyLost(w)
  PROVE  OwnerIsCurrent'
<1> SUFFICES ASSUME NEW v \in Workers PROVE CurrentFor(v)'
  BY CurrentForAll DEF OwnerIsCurrent, CurrentFor
<1>1. CurrentFor(v) /\ UNCHANGED taskVars
  BY CurrentForAll DEF Crash, StatementFails, PersistReplyLost
<1>2. CASE v # w
  BY <1>1, <1>2, WorkIsLocal, CurrentIfUntouched DEF taskVars
<1>3. CASE v = w
  <2> USE DEF TypeOK
  <2>1. CASE Crash(w)
    BY <1>3, <2>1 DEF Crash, BackToLoop, CurrentFor, Guarded
  <2>2. CASE StatementFails(w)
    BY <1>1, <1>3, <2>2
       DEF StatementFails, FinalizeAgain, BackToLoop, CurrentFor, Guarded, taskVars
  <2>3. CASE PersistReplyLost(w)
    <3>1. pc[w] = "persisting" /\ pc'[w] \in {"retrying", "rejecting"}
          /\ job'[w] = job[w] /\ seen'[w] = seen[w]
      BY <2>3, AfterFailureStep DEF PersistReplyLost, GoTo
    <3> QED
      BY <1>1, <1>3, <3>1 DEF CurrentFor, Guarded, InProcess, Steps, taskVars
  <2> QED
    BY <2>1, <2>2, <2>3
<1> QED
  BY <1>2, <1>3

LEMMA OutsideCurrent ==
  ASSUME TypeOK, OwnerIsCurrent,
         PassTime \/ \E t \in Tasks : Submit(t) \/ DeleteJob(t) \/ DeleteContent(t)
  PROVE  OwnerIsCurrent'
<1> SUFFICES ASSUME NEW v \in Workers PROVE CurrentFor(v)'
  BY CurrentForAll DEF OwnerIsCurrent, CurrentFor
<1> CurrentFor(v)
  BY CurrentForAll
<1> USE DEF TypeOK, TaskTypeOK
<1>1. ASSUME NEW t \in Tasks, Submit(t) PROVE CurrentFor(v)'
  BY <1>1, CurrentIfUntouched, BusyHasJob, TaskAssumption DEF Submit, CreateTask, workerVars
<1>2. ASSUME NEW t \in Tasks, DeleteJob(t) PROVE CurrentFor(v)'
  BY <1>2, CurrentIfUntouched, BusyHasJob, TaskAssumption
     DEF DeleteJob, DeleteTask, Unlock, workerVars
<1>3. ASSUME NEW t \in Tasks, DeleteContent(t) PROVE CurrentFor(v)'
  BY <1>3, CurrentIfUntouched DEF DeleteContent, taskVars, workerVars
<1>4. ASSUME PassTime PROVE CurrentFor(v)'
  BY <1>4, CurrentIfUntouched DEF PassTime, Tick
<1> QED
  BY <1>1, <1>2, <1>3, <1>4

LEMMA CurrentStep == TypeOK /\ OwnerIsCurrent /\ [Next]_vars => OwnerIsCurrent'
<1>1. OwnerIsCurrent /\ UNCHANGED vars => OwnerIsCurrent'
  BY DEF vars, taskVars, workerVars, OwnerIsCurrent
<1> QED
  BY <1>1, WorkCurrent, FaultCurrent, OutsideCurrent DEF Next

(* The worker id in the row fences stale workers: for any lease, and       *)
(* however long workers stay away, a worker the row names knows the row.   *)
THEOREM OwnerCurrent == Spec => []OwnerIsCurrent
<1>1. Init => OwnerIsCurrent
  BY DEF Init, OwnerIsCurrent, Guarded
<1> QED
  BY <1>1, CurrentStep, TypeCorrect, PTL DEF Spec

-----------------------------------------------------------------------------
(* Whoever is about to report success has seen or written the content.     *)
FinalizerHasContent ==
  \A w \in Workers : pc[w] = "finalizing" => content[job[w]] # "never"

(* Content that was written once is never unwritten. *)
LEMMA ContentStays ==
  ASSUME TypeOK, Next, NEW t \in Tasks, content[t] # "never"
  PROVE  content'[t] # "never"
<1> USE DEF TypeOK
<1>1. ASSUME NEW w \in Workers, Work(w) PROVE content'[t] # "never"
  BY <1>1
     DEF Work, Claim, StartProcessing, CheckArtifacts, PipelineReady, PipelineFails, Persist,
         Finalize, ScheduleRetry, Reject, Bury
<1>2. ASSUME NEW w \in Workers, Crash(w) \/ StatementFails(w) \/ PersistReplyLost(w)
      PROVE  content'[t] # "never"
  BY <1>2 DEF Crash, StatementFails, PersistReplyLost
<1>3. ASSUME PassTime \/ \E u \in Tasks : Submit(u) \/ DeleteJob(u) \/ DeleteContent(u)
      PROVE  content'[t] # "never"
  BY <1>3 DEF PassTime, Submit, DeleteJob, DeleteContent
<1> QED
  BY <1>1, <1>2, <1>3 DEF Next

(* How a worker comes to be finalizing *)
LEMMA EnterFinalizing ==
  ASSUME TypeOK, Next, NEW w \in Workers, pc'[w] = "finalizing"
  PROVE  /\ job'[w] = job[w] /\ job[w] \in Tasks
         /\ \/ pc[w] = "finalizing"
            \/ content'[job[w]] # "never"
<1> USE DEF TypeOK
<1>1. ASSUME NEW v \in Workers \ {w},
             Work(v) \/ Crash(v) \/ StatementFails(v) \/ PersistReplyLost(v)
      PROVE  pc[w] = "finalizing" /\ job'[w] = job[w]
  BY <1>1, WorkIsLocal
<1>2. ASSUME Work(w)
      PROVE  job'[w] = job[w] /\ pc[w] # "idle"
             /\ (pc[w] = "finalizing" \/ content'[job[w]] # "never")
  BY <1>2, AfterFailureStep, BusyHasJob
     DEF Work, Claim, StartProcessing, CheckArtifacts, PipelineReady, PipelineFails, Persist,
         Finalize, FinalizeAgain, ScheduleRetry, Reject, Bury, GoTo, BackToLoop
<1>3. ASSUME Crash(w) \/ StatementFails(w) \/ PersistReplyLost(w)
      PROVE  pc[w] = "finalizing" /\ job'[w] = job[w]
  <2>1. CASE Crash(w) \/ StatementFails(w)
    BY <2>1 DEF Crash, StatementFails, FinalizeAgain, BackToLoop
  <2>2. CASE PersistReplyLost(w)
    BY <2>2, AfterFailureStep DEF PersistReplyLost, GoTo
  <2> QED
    BY <1>3, <2>1, <2>2
<1>4. ASSUME PassTime \/ \E t \in Tasks : Submit(t) \/ DeleteJob(t) \/ DeleteContent(t)
      PROVE  pc[w] = "finalizing" /\ job'[w] = job[w]
  BY <1>4 DEF PassTime, Submit, DeleteJob, DeleteContent, workerVars
<1> QED
  BY <1>1, <1>2, <1>3, <1>4, BusyHasJob DEF Next

LEMMA FinalizerStep == TypeOK /\ FinalizerHasContent /\ [Next]_vars => FinalizerHasContent'
<1>1. FinalizerHasContent /\ UNCHANGED vars => FinalizerHasContent'
  BY DEF vars, workerVars, FinalizerHasContent
<1>2. TypeOK /\ FinalizerHasContent /\ Next => FinalizerHasContent'
  BY EnterFinalizing, ContentStays DEF FinalizerHasContent
<1> QED
  BY <1>1, <1>2

THEOREM FinalizerInvariant == Spec => []FinalizerHasContent
<1>1. Init => FinalizerHasContent
  BY DEF Init, FinalizerHasContent
<1> QED
  BY <1>1, FinalizerStep, TypeCorrect, PTL DEF Spec

(* Only mark_succeeded makes a task Succeeded. *)
LEMMA EnterSucceeded ==
  ASSUME TypeOK, Next, NEW t \in Tasks, state'[t] = "Succeeded"
  PROVE  \/ state[t] = "Succeeded"
         \/ \E w \in Workers : pc[w] = "finalizing" /\ job[w] = t
<1> USE DEF TypeOK, TaskTypeOK
<1>1. ASSUME NEW w \in Workers, Work(w)
      PROVE  state[t] = "Succeeded" \/ (pc[w] = "finalizing" /\ job[w] = t)
  <2>1. CASE Claim(w) \/ StartProcessing(w)
    BY <2>1, BusyHasJob DEF Claim, ClaimTask, StartProcessing, MarkProcessing, taskVars
  <2>2. CASE CheckArtifacts(w) \/ PipelineReady(w) \/ PipelineFails(w) \/ Persist(w)
    BY <2>2 DEF CheckArtifacts, PipelineReady, PipelineFails, Persist, taskVars
  <2>3. CASE Finalize(w)
    BY <2>3, BusyHasJob DEF Finalize, MarkSucceeded, Unlock, taskVars
  <2>4. CASE ScheduleRetry(w) \/ Reject(w) \/ Bury(w)
    BY <2>4, BusyHasJob
       DEF ScheduleRetry, Reject, Bury, MarkFailed, MarkDeadLetter, Unlock, taskVars
  <2> QED
    BY <1>1, <2>1, <2>2, <2>3, <2>4 DEF Work
<1>2. ASSUME NEW w \in Workers, Crash(w) \/ StatementFails(w) \/ PersistReplyLost(w)
      PROVE  state[t] = "Succeeded"
  BY <1>2 DEF Crash, StatementFails, PersistReplyLost, taskVars
<1>3. ASSUME PassTime \/ \E u \in Tasks : Submit(u) \/ DeleteJob(u) \/ DeleteContent(u)
      PROVE  state[t] = "Succeeded"
  BY <1>3
     DEF PassTime, Tick, Submit, CreateTask, DeleteJob, DeleteTask, Unlock, DeleteContent, taskVars
<1> QED
  BY <1>1, <1>2, <1>3 DEF Next

(* A job that is reported as done was ingested, whichever run of whichever *)
(* worker did it: the content is there before mark_succeeded is tried.     *)
THEOREM SuccessIsReal == Spec => []SuccessHasContent
<1>1. Init => SuccessHasContent
  BY DEF Init, InitTasks, SuccessHasContent
<1>2. TypeOK /\ FinalizerHasContent /\ SuccessHasContent /\ [Next]_vars => SuccessHasContent'
  <2>1. SuccessHasContent /\ UNCHANGED vars => SuccessHasContent'
    BY DEF vars, taskVars, SuccessHasContent
  <2>2. TypeOK /\ FinalizerHasContent /\ SuccessHasContent /\ Next => SuccessHasContent'
    BY EnterSucceeded, ContentStays DEF SuccessHasContent, FinalizerHasContent
  <2> QED
    BY <2>1, <2>2
<1> QED
  BY <1>1, <1>2, TypeCorrect, FinalizerInvariant, PTL DEF Spec

-----------------------------------------------------------------------------
(* Whoever is about to schedule a retry found that there is one left. *)
RetryingCanRetry ==
  \A w \in Workers : pc[w] = "retrying" => seen[w] < MaxAttempts

LEMMA RetryingStep == TypeOK /\ RetryingCanRetry /\ [Next]_vars => RetryingCanRetry'
<1> SUFFICES ASSUME TypeOK, RetryingCanRetry, [Next]_vars,
                    NEW w \in Workers, pc'[w] = "retrying"
             PROVE  seen'[w] < MaxAttempts
  BY DEF RetryingCanRetry
<1> USE DEF TypeOK, RetryingCanRetry
<1>1. CASE UNCHANGED vars
  BY <1>1 DEF vars, workerVars
<1>2. ASSUME NEW v \in Workers \ {w},
             Work(v) \/ Crash(v) \/ StatementFails(v) \/ PersistReplyLost(v)
      PROVE  seen'[w] < MaxAttempts
  BY <1>2, WorkIsLocal
<1>3. CASE Work(w)
  <2>1. CASE PipelineFails(w)
    BY <2>1 DEF PipelineFails, AfterFailure, GoTo
  <2>2. CASE ~PipelineFails(w)
    BY <1>3, <2>2
       DEF Work, Claim, StartProcessing, CheckArtifacts, PipelineReady, Persist, Finalize,
           FinalizeAgain, ScheduleRetry, Reject, Bury, GoTo, BackToLoop
  <2> QED
    BY <2>1, <2>2
<1>4. CASE Crash(w) \/ StatementFails(w)
  BY <1>4 DEF Crash, StatementFails, FinalizeAgain, BackToLoop
<1>5. CASE PersistReplyLost(w)
  BY <1>5 DEF PersistReplyLost, AfterFailure, GoTo
<1>6. CASE PassTime \/ \E t \in Tasks : Submit(t) \/ DeleteJob(t) \/ DeleteContent(t)
  BY <1>6 DEF PassTime, Submit, DeleteJob, DeleteContent, workerVars
<1> QED
  BY <1>1, <1>2, <1>3, <1>4, <1>5, <1>6 DEF Next

(* Who makes a task Failed with no attempts left goes on to bury it. *)
LEMMA EnterExhausted ==
  ASSUME TypeOK, OwnerIsCurrent, RetryingCanRetry, Next,
         NEW t \in Tasks, state'[t] = "Failed", attempts'[t] = MaxAttempts
  PROVE  \/ state[t] = "Failed" /\ attempts[t] = MaxAttempts
         \/ \E w \in Workers : pc'[w] = "burying" /\ job'[w] = t
<1> USE DEF TypeOK, TaskTypeOK
<1> DEFINE Was == state[t] = "Failed" /\ attempts[t] = MaxAttempts
<1>1. ASSUME NEW w \in Workers, Work(w)
      PROVE  Was \/ (pc'[w] = "burying" /\ job'[w] = t)
  <2>1. CASE Claim(w) \/ StartProcessing(w)
    BY <2>1, BusyHasJob DEF Claim, ClaimTask, StartProcessing, MarkProcessing, taskVars
  <2>2. CASE CheckArtifacts(w) \/ PipelineReady(w) \/ PipelineFails(w) \/ Persist(w)
    BY <2>2 DEF CheckArtifacts, PipelineReady, PipelineFails, Persist, taskVars
  <2>3. CASE Finalize(w)
    BY <2>3, BusyHasJob DEF Finalize, MarkSucceeded, Unlock, taskVars
  <2>4. CASE ScheduleRetry(w)
    <3>1. CASE UNCHANGED taskVars
      BY <3>1 DEF taskVars
    <3>2. CASE MarkFailed(w, job[w], RetryDelay(seen[w]))
      <4>1. attempts'[job[w]] = seen[w] /\ seen[w] < MaxAttempts /\ job[w] \in Tasks
        BY <2>4, <3>2, BusyHasJob
           DEF ScheduleRetry, MarkFailed, Unlock, OwnsProcessing, OwnerIsCurrent,
               RetryingCanRetry, InProcess, Guarded, Steps
      <4>2. job[w] # t
        BY <4>1
      <4> QED
        BY <3>2, <4>1, <4>2 DEF MarkFailed, Unlock
    <3> QED
      BY <2>4, <3>1, <3>2 DEF ScheduleRetry
  <2>5. CASE Reject(w)
    BY <2>5, BusyHasJob DEF Reject, MarkFailed, Unlock, GoTo, taskVars
  <2>6. CASE Bury(w)
    BY <2>6, BusyHasJob DEF Bury, MarkDeadLetter, Unlock, taskVars
  <2> QED
    BY <1>1, <2>1, <2>2, <2>3, <2>4, <2>5, <2>6 DEF Work
<1>2. ASSUME NEW w \in Workers, Crash(w) \/ StatementFails(w) \/ PersistReplyLost(w)
      PROVE  Was
  BY <1>2 DEF Crash, StatementFails, PersistReplyLost, taskVars
<1>3. ASSUME PassTime \/ \E u \in Tasks : Submit(u) \/ DeleteJob(u) \/ DeleteContent(u)
      PROVE  Was
  BY <1>3
     DEF PassTime, Tick, Submit, CreateTask, DeleteJob, DeleteTask, Unlock, DeleteContent, taskVars
<1> QED
  BY <1>1, <1>2, <1>3 DEF Next

(* Faults are only counted up. *)
LEMMA FaultCounts == ASSUME TypeOK, Fault PROVE faults' # 0
BY QueueAssumption DEF TypeOK, Fault

LEMMA FaultsGrow == ASSUME TypeOK, Next, faults' = 0 PROVE faults = 0
<1>1. ASSUME NEW w \in Workers, Crash(w) \/ StatementFails(w) \/ PersistReplyLost(w)
      PROVE  Fault
  BY <1>1 DEF Crash, StatementFails, PersistReplyLost
<1>2. ASSUME NEW w \in Workers, Work(w) PROVE UNCHANGED faults
  BY <1>2
     DEF Work, Claim, StartProcessing, CheckArtifacts, PipelineReady, PipelineFails, Persist,
         Finalize, ScheduleRetry, Reject, Bury
<1>3. ASSUME PassTime \/ \E u \in Tasks : Submit(u) \/ DeleteJob(u) \/ DeleteContent(u)
      PROVE  UNCHANGED faults
  BY <1>3 DEF PassTime, Submit, DeleteJob, DeleteContent
<1> QED
  BY <1>1, <1>2, <1>3, FaultCounts DEF Next

(* Without a fault only mark_dead_letter ends the burying. *)
LEMMA BuryingStays ==
  ASSUME TypeOK, Next, faults' = 0, NEW b \in Workers, pc[b] = "burying",
         state[job[b]] = "Failed", state'[job[b]] = "Failed"
  PROVE  pc'[b] = "burying" /\ job'[b] = job[b]
<1> USE DEF TypeOK, TaskTypeOK
<1>1. ASSUME NEW w \in Workers, Work(w), w # b PROVE pc'[b] = "burying" /\ job'[b] = job[b]
  BY <1>1, WorkIsLocal
<1>2. ~Work(b)
  <2>1. ~Bury(b)
    BY BusyHasJob DEF Bury, MarkDeadLetter, CanMarkDeadLetter, Unlock
  <2> QED
    BY <2>1
       DEF Work, Claim, StartProcessing, CheckArtifacts, PipelineReady, PipelineFails, Persist,
           Finalize, ScheduleRetry, Reject
<1>3. ASSUME NEW w \in Workers, Crash(w) \/ StatementFails(w) \/ PersistReplyLost(w)
      PROVE  FALSE
  BY <1>3, FaultCounts DEF Crash, StatementFails, PersistReplyLost
<1>4. ASSUME PassTime \/ \E u \in Tasks : Submit(u) \/ DeleteJob(u) \/ DeleteContent(u)
      PROVE  pc'[b] = "burying" /\ job'[b] = job[b]
  BY <1>4 DEF PassTime, Submit, DeleteJob, DeleteContent, workerVars
<1> QED
  BY <1>1, <1>2, <1>3, <1>4 DEF Next

(* Lost leases and races strand no task: as long as no process dies and no *)
(* statement fails, a Failed task without attempts left has a worker that  *)
(* is about to dead-letter it.                                             *)
THEOREM ExhaustedTasksAreBuried == Spec => []ExhaustedIsBeingBuried
<1> DEFINE IInv == RetryingCanRetry /\ ExhaustedIsBeingBuried
<1>1. Init => IInv
  BY DEF Init, InitTasks, RetryingCanRetry, ExhaustedIsBeingBuried
<1>2. TypeOK /\ OwnerIsCurrent /\ IInv /\ [Next]_vars => IInv'
  <2>1. ExhaustedIsBeingBuried /\ UNCHANGED vars => ExhaustedIsBeingBuried'
    BY DEF vars, taskVars, workerVars, ExhaustedIsBeingBuried
  <2>2. ASSUME TypeOK, OwnerIsCurrent, IInv, Next, NEW t \in Tasks,
               state'[t] = "Failed", attempts'[t] = MaxAttempts, faults' = 0
        PROVE  \E w \in Workers : pc'[w] = "burying" /\ job'[w] = t
    <3>1. CASE state[t] = "Failed" /\ attempts[t] = MaxAttempts
      <4>1. PICK b \in Workers : pc[b] = "burying" /\ job[b] = t
        BY <2>2, <3>1, FaultsGrow DEF ExhaustedIsBeingBuried
      <4> QED
        BY <2>2, <3>1, <4>1, BuryingStays
    <3> QED
      BY <2>2, <3>1, EnterExhausted
  <2>3. TypeOK /\ OwnerIsCurrent /\ IInv /\ Next => ExhaustedIsBeingBuried'
    BY <2>2 DEF ExhaustedIsBeingBuried
  <2> QED
    BY <2>1, <2>3, RetryingStep
<1> QED
  BY <1>1, <1>2, TypeCorrect, OwnerCurrent, PTL DEF Spec
-----------------------------------------------------------------------------
(***************************************************************************)
(* What IngestionQueue guarantees when no worker stays in a phase of its   *)
(* call for as long as the lease: one run per task, and the JobContract.   *)
(* The strengthening is LeaseHeld: the lock a worker believes in is really *)
(* its own, and as old as its stay.                                        *)
(***************************************************************************)

(* As long as its call may write under the guard of its worker id, the     *)
(* worker holds the lease, unless the job was deleted.                     *)
LeaseHeld ==
  \A w \in Workers :
    pc[w] \in Guarded =>
      \/ state[job[w]] = "Deleted"
      \/ owner[job[w]] = w /\ lockAge[job[w]] = stay[w]

(* LeaseHeld, one worker at a time *)
HoldsLease(w) ==
  pc[w] \in Guarded =>
    \/ state[job[w]] = "Deleted"
    \/ owner[job[w]] = w /\ lockAge[job[w]] = stay[w]

LEMMA HoldsLeaseAll == LeaseHeld <=> \A w \in Workers : HoldsLease(w)
BY DEF LeaseHeld, HoldsLease

(* A task under a lease that has not run out, or deleted, is not claimed. *)
LEMMA HeldIsNotClaimed ==
  ASSUME MaxStay < Lease, TypeOK, LeaseHeld, NEW v \in Workers, pc[v] \in Guarded
  PROVE  ~Claimable(job[v])
<1>1. stay[v] \in Nat /\ stay[v] <= MaxStay
  BY QueueAssumption DEF TypeOK
<1>2. CASE state[job[v]] = "Deleted"
  BY <1>2 DEF Claimable, Unfinished, Held
<1>3. CASE lockAge[job[v]] = stay[v]
  BY <1>1, <1>3, QueueAssumption, TaskAssumption DEF Claimable, NoLock
<1> QED
  BY <1>2, <1>3 DEF LeaseHeld

(* What other workers' steps do to a task v works on: nothing. *)
LEMMA OthersKeepOff ==
  ASSUME MaxStay < Lease, TypeOK, OwnerIsCurrent, LeaseHeld,
         NEW v \in Workers, NEW w \in Workers \ {v}, pc[v] \in Guarded, Work(w)
  PROVE  state'[job[v]] = state[job[v]] /\ owner'[job[v]] = owner[job[v]]
         /\ lockAge'[job[v]] = lockAge[job[v]]
<1> DEFINE u == job[v]
           Kept == state'[u] = state[u] /\ owner'[u] = owner[u] /\ lockAge'[u] = lockAge[u]
<1>1. u \in Tasks /\ (pc[w] # "idle" => job[w] \in Tasks)
  BY BusyHasJob DEF Guarded
<1>2. state[u] = "Deleted" \/ (owner[u] = v /\ state[u] \in Held)
  BY DEF LeaseHeld, OwnerIsCurrent, Guarded, InProcess, Held
<1>3. ~Claimable(u)
  BY HeldIsNotClaimed
<1>4. UNCHANGED taskVars => Kept
  BY DEF taskVars
<1>5. ASSUME NEW t \in Tasks \ {u}, NEW s, NEW d,
             ClaimTask(w, t) \/ MarkProcessing(w, t) \/ Unlock(t, s, d)
      PROVE  Kept
  BY <1>1, <1>5 DEF TypeOK, TaskTypeOK, ClaimTask, MarkProcessing, Unlock
<1>6. ~ClaimTask(w, u) /\ ~CanMarkProcessing(w, u) /\ ~OwnsProcessing(w, u)
      /\ ~CanMarkDeadLetter(u)
  BY <1>2, <1>3
     DEF ClaimTask, NextReady, CanMarkProcessing, OwnsProcessing, CanMarkDeadLetter, Held
<1>7. CASE Claim(w) \/ StartProcessing(w)
  BY <1>1, <1>4, <1>5, <1>6, <1>7 DEF Claim, StartProcessing, MarkProcessing
<1>8. CASE CheckArtifacts(w) \/ PipelineReady(w) \/ PipelineFails(w) \/ Persist(w)
  BY <1>4, <1>8 DEF CheckArtifacts, PipelineReady, PipelineFails, Persist
<1>9. CASE Finalize(w) \/ ScheduleRetry(w) \/ Reject(w) \/ Bury(w)
  BY <1>1, <1>4, <1>5, <1>6, <1>9
     DEF Finalize, ScheduleRetry, Reject, Bury, MarkSucceeded, MarkFailed, MarkDeadLetter
<1> QED
  BY <1>7, <1>8, <1>9 DEF Work

LEMMA WorkHoldsLease ==
  ASSUME MaxStay < Lease, TypeOK, OwnerIsCurrent, LeaseHeld, NEW w \in Workers, Work(w)
  PROVE  LeaseHeld'
<1> SUFFICES ASSUME NEW v \in Workers PROVE HoldsLease(v)'
  BY HoldsLeaseAll DEF LeaseHeld, HoldsLease
<1>1. HoldsLease(v)
  BY HoldsLeaseAll
<1>2. CASE v # w
  <2>1. pc'[v] = pc[v] /\ job'[v] = job[v] /\ stay'[v] = stay[v]
    BY <1>2, WorkIsLocal
  <2> QED
    BY <1>1, <1>2, <2>1, OthersKeepOff DEF HoldsLease
<1>3. CASE v = w
  <2> USE <1>1, <1>3 DEF HoldsLease, TypeOK, TaskTypeOK
  <2>1. CASE Claim(w)
    BY <2>1 DEF Claim, ClaimTask
  <2>2. CASE StartProcessing(w)
    BY <2>2, BusyHasJob DEF StartProcessing, MarkProcessing, CanMarkProcessing, BackToLoop, Guarded
  <2>3. CASE CheckArtifacts(w) \/ PipelineReady(w) \/ PipelineFails(w) \/ Persist(w)
    <3>1. UNCHANGED <<state, owner, lockAge, job, stay>> /\ pc[w] \in Guarded
      BY <2>3
         DEF CheckArtifacts, PipelineReady, PipelineFails, Persist, GoTo, taskVars, Guarded, Steps
    <3> QED
      BY <3>1
  <2>4. CASE Finalize(w)
    BY <2>4 DEF Finalize, FinalizeAgain, BackToLoop, taskVars, Guarded, Steps
  <2>5. CASE ScheduleRetry(w) \/ Reject(w) \/ Bury(w)
    BY <2>5 DEF ScheduleRetry, Reject, Bury, GoTo, BackToLoop, Guarded
  <2> QED
    BY <2>1, <2>2, <2>3, <2>4, <2>5 DEF Work
<1> QED
  BY <1>2, <1>3

LEMMA FaultHoldsLease ==
  ASSUME TypeOK, LeaseHeld, NEW w \in Workers,
         Crash(w) \/ StatementFails(w) \/ PersistReplyLost(w)
  PROVE  LeaseHeld'
<1> SUFFICES ASSUME NEW v \in Workers, pc'[v] \in Guarded
             PROVE  /\ UNCHANGED taskVars /\ pc[v] \in Guarded
                    /\ job'[v] = job[v] /\ stay'[v] = stay[v]
  BY DEF LeaseHeld, taskVars
<1>1. UNCHANGED taskVars
  BY DEF Crash, StatementFails, PersistReplyLost
<1>2. CASE v # w
  BY <1>1, <1>2, WorkIsLocal
<1>3. CASE v = w
  <2> USE DEF TypeOK, Guarded, Steps
  <2>1. CASE Crash(w) \/ StatementFails(w)
    BY <1>1, <1>3, <2>1 DEF Crash, StatementFails, FinalizeAgain, BackToLoop
  <2>2. CASE PersistReplyLost(w)
    BY <1>1, <1>3, <2>2 DEF PersistReplyLost, GoTo
  <2> QED
    BY <2>1, <2>2
<1> QED
  BY <1>2, <1>3

LEMMA OutsideHoldsLease ==
  ASSUME MaxStay < Lease, TypeOK, OwnerIsCurrent, LeaseHeld,
         PassTime \/ \E t \in Tasks : Submit(t) \/ DeleteJob(t) \/ DeleteContent(t)
  PROVE  LeaseHeld'
<1> SUFFICES ASSUME NEW v \in Workers PROVE HoldsLease(v)'
  BY HoldsLeaseAll DEF LeaseHeld, HoldsLease
<1>1. HoldsLease(v)
  BY HoldsLeaseAll
<1>2. pc[v] \in Guarded => /\ job[v] \in Tasks
                           /\ state[job[v]] = "Deleted" \/ state[job[v]] \in Held
  BY BusyHasJob DEF LeaseHeld, OwnerIsCurrent, Guarded, InProcess, Held
<1> USE <1>1, <1>2 DEF HoldsLease, TypeOK, TaskTypeOK
<1>3. ASSUME NEW t \in Tasks, Submit(t) PROVE HoldsLease(v)'
  BY <1>3 DEF Submit, CreateTask, workerVars, Held
<1>4. ASSUME NEW t \in Tasks, DeleteJob(t) PROVE HoldsLease(v)'
  BY <1>4 DEF DeleteJob, DeleteTask, Unlock, workerVars
<1>5. ASSUME NEW t \in Tasks, DeleteContent(t) PROVE HoldsLease(v)'
  BY <1>5 DEF DeleteContent, taskVars, workerVars
<1>6. ASSUME PassTime PROVE HoldsLease(v)'
  <2>1. pc[v] # "idle" => stay[v] \in 0..(Lease - 1) /\ stay'[v] = stay[v] + 1
    BY <1>6, QueueAssumption, TaskAssumption DEF PassTime
  <2>2. pc[v] \in Guarded /\ lockAge[job[v]] = stay[v] => lockAge'[job[v]] = stay[v] + 1
    BY <1>6, <2>1 DEF PassTime, Tick, Guarded
  <2> QED
    BY <1>6, <2>1, <2>2 DEF PassTime, Tick, Guarded
<1> QED
  BY <1>3, <1>4, <1>5, <1>6

LEMMA LeaseStep ==
  ASSUME MaxStay < Lease
  PROVE  TypeOK /\ OwnerIsCurrent /\ LeaseHeld /\ [Next]_vars => LeaseHeld'
<1>1. LeaseHeld /\ UNCHANGED vars => LeaseHeld'
  BY DEF vars, taskVars, workerVars, LeaseHeld
<1> QED
  BY <1>1, WorkHoldsLease, FaultHoldsLease, OutsideHoldsLease DEF Next

THEOREM LeaseInvariant == ASSUME MaxStay < Lease PROVE Spec => []LeaseHeld
<1>1. Init => LeaseHeld
  BY DEF Init, LeaseHeld, Guarded
<1> QED
  BY <1>1, LeaseStep, TypeCorrect, OwnerCurrent, PTL DEF Spec

-----------------------------------------------------------------------------
(* A worker enters Guarded only by claiming. *)
LEMMA EnterGuarded ==
  ASSUME TypeOK, Next, NEW w \in Workers, pc'[w] \in Guarded
  PROVE  \/ pc[w] \in Guarded /\ job'[w] = job[w]
         \/ Claim(w) /\ pc[w] = "idle"
<1> USE DEF TypeOK, Guarded, Steps
<1>1. ASSUME NEW v \in Workers \ {w},
             Work(v) \/ Crash(v) \/ StatementFails(v) \/ PersistReplyLost(v)
      PROVE  pc[w] \in Guarded /\ job'[w] = job[w]
  BY <1>1, WorkIsLocal
<1>2. CASE Work(w)
  BY <1>2
     DEF Work, Claim, StartProcessing, CheckArtifacts, PipelineReady, PipelineFails, Persist,
         Finalize, FinalizeAgain, ScheduleRetry, Reject, Bury, GoTo, BackToLoop
<1>3. CASE Crash(w) \/ StatementFails(w) \/ PersistReplyLost(w)
  BY <1>3 DEF Crash, StatementFails, PersistReplyLost, FinalizeAgain, BackToLoop, GoTo
<1>4. CASE PassTime \/ \E t \in Tasks : Submit(t) \/ DeleteJob(t) \/ DeleteContent(t)
  BY <1>4 DEF PassTime, Submit, DeleteJob, DeleteContent, workerVars
<1> QED
  BY <1>1, <1>2, <1>3, <1>4 DEF Next

(* No task is run twice at once, for any number of workers, as long as     *)
(* none outstays its lease: a claim never takes a task another worker is   *)
(* running, deleted or not.                                                *)
THEOREM RunsAreExclusive == ASSUME MaxStay < Lease PROVE Spec => []OneRunPerTask
<1>1. Init => OneRunPerTask
  BY DEF Init, OneRunPerTask, Guarded
<1>2. TypeOK /\ LeaseHeld /\ OneRunPerTask /\ [Next]_vars => OneRunPerTask'
  <2>1. OneRunPerTask /\ UNCHANGED vars => OneRunPerTask'
    BY DEF vars, workerVars, OneRunPerTask
  <2>2. ASSUME TypeOK, LeaseHeld, OneRunPerTask, Next, NEW v \in Workers, NEW w \in Workers,
               pc'[v] \in Guarded, pc'[w] \in Guarded, job'[v] = job'[w], v # w
        PROVE  FALSE
    <3>1. ASSUME NEW x \in Workers, NEW y \in Workers, x # y, Claim(x),
                 pc'[y] \in Guarded, job'[x] = job'[y]
          PROVE  FALSE
      <4>1. PICK t \in Tasks : ClaimTask(x, t) /\ job' = [job EXCEPT ![x] = t]
        BY <3>1 DEF Claim
      <4>2. pc[y] \in Guarded /\ job[y] = t
        <5>1. pc'[y] = pc[y] /\ job'[y] = job[y]
          BY <2>2, <3>1, WorkIsLocal DEF Work
        <5> QED
          BY <2>2, <3>1, <4>1, <5>1 DEF TypeOK
      <4> QED
        BY <2>2, <4>1, <4>2, HeldIsNotClaimed DEF ClaimTask, NextReady
    <3> QED
      BY <2>2, <3>1, EnterGuarded DEF OneRunPerTask
  <2> QED
    BY <2>1, <2>2 DEF OneRunPerTask
<1> QED
  BY <1>1, <1>2, TypeCorrect, LeaseInvariant, PTL DEF Spec

-----------------------------------------------------------------------------
(* The mapping, before and after a step *)
LEMMA OutcomeIs ==
  ASSUME NEW t \in Tasks
  PROVE  /\ state[t] = "Absent"       => Outcome(t) = "absent"
         /\ state[t] \in Unfinished   => Outcome(t) = "open"
         /\ state[t] = "Succeeded"    => Outcome(t) = "succeeded"
         /\ state[t] \in {"DeadLetter", "Cancelled"} => Outcome(t) = "abandoned"
         /\ state[t] = "Deleted"      => Outcome(t) = "withdrawn"
         /\ state'[t] = "Absent"      => Outcome(t)' = "absent"
         /\ state'[t] \in Unfinished  => Outcome(t)' = "open"
         /\ state'[t] = "Succeeded"   => Outcome(t)' = "succeeded"
         /\ state'[t] \in {"DeadLetter", "Cancelled"} => Outcome(t)' = "abandoned"
         /\ state'[t] = "Deleted"     => Outcome(t)' = "withdrawn"
BY DEF Outcome, Unfinished, Held

LEMMA OutcomeFollowsState ==
  ASSUME NEW t \in Tasks, state'[t] = state[t] PROVE Outcome(t)' = Outcome(t)
BY DEF Outcome

(* A statement that settles one task is a Settle of the contract. *)
LEMMA SettlesOne ==
  ASSUME TypeOK, NEW t \in Tasks, NEW s, NEW result, UNCHANGED content,
         state' = [state EXCEPT ![t] = s], Outcome(t)' = result
  PROVE  Contract!Settle(t, result)
<1>1. \A u \in Tasks \ {t} : Outcome(u)' = Outcome(u)
  BY OutcomeFollowsState DEF TypeOK, TaskTypeOK
<1> QED
  BY <1>1 DEF Contract!Settle

(* A step that leaves every outcome and the content alone stutters. *)
LEMMA OutcomesKept ==
  ASSUME UNCHANGED content, \A u \in Tasks : Outcome(u)' = Outcome(u)
  PROVE  UNCHANGED Contract!vars
BY DEF Contract!vars

LEMMA TableKept ==
  ASSUME UNCHANGED <<state, content>> PROVE UNCHANGED Contract!vars
BY OutcomesKept, OutcomeFollowsState

LEMMA StaysOpen ==
  ASSUME TypeOK, NEW t \in Tasks, NEW s \in Unfinished, UNCHANGED content,
         state[t] \in Unfinished, state' = [state EXCEPT ![t] = s]
  PROVE  UNCHANGED Contract!vars
<1>1. ASSUME NEW u \in Tasks PROVE Outcome(u)' = Outcome(u)
  <2>1. CASE u = t
    BY <2>1, OutcomeIs DEF TypeOK, TaskTypeOK
  <2>2. CASE u # t
    BY <2>2, OutcomeFollowsState DEF TypeOK, TaskTypeOK
  <2> QED
    BY <2>1, <2>2
<1> QED
  BY <1>1, OutcomesKept

-----------------------------------------------------------------------------
(* Writing content is an Ingest: the lease keeps the job open, unless its  *)
(* owner deleted it.                                                       *)
LEMMA PersistIngests ==
  ASSUME TypeOK, OwnerIsCurrent, LeaseHeld, NEW w \in Workers, pc[w] = "persisting",
         content' = [content EXCEPT ![job[w]] = "present"], UNCHANGED state
  PROVE  Contract!Ingest(job[w])
<1>1. job[w] \in Tasks /\ (state[job[w]] = "Deleted" \/ state[job[w]] = "Processing")
  BY BusyHasJob DEF LeaseHeld, OwnerIsCurrent, Guarded, InProcess, Steps
<1>2. Outcome(job[w]) \in {"open", "withdrawn"}
  BY <1>1, OutcomeIs DEF Unfinished, Held
<1>3. \A u \in Tasks : Outcome(u)' = Outcome(u)
  BY OutcomeFollowsState
<1> QED
  BY <1>1, <1>2, <1>3 DEF Contract!Ingest

LEMMA WorkKeepsContract ==
  ASSUME TypeOK, OwnerIsCurrent, LeaseHeld, FinalizerHasContent, NEW w \in Workers, Work(w)
  PROVE  [Contract!Next]_Contract!vars
<1>1. pc[w] # "idle" => job[w] \in Tasks
  BY BusyHasJob
<1>2. {"Reserved", "Processing", "Failed"} \subseteq Unfinished
  BY DEF Unfinished, Held
<1>3. UNCHANGED taskVars /\ UNCHANGED content => UNCHANGED Contract!vars
  BY TableKept DEF taskVars
<1>4. CASE Claim(w)
  BY <1>2, <1>4, StaysOpen DEF Claim, ClaimTask, NextReady, Claimable
<1>5. CASE StartProcessing(w)
  BY <1>1, <1>2, <1>3, <1>5, StaysOpen DEF StartProcessing, MarkProcessing, CanMarkProcessing
<1>6. CASE CheckArtifacts(w) \/ PipelineReady(w) \/ PipelineFails(w)
  BY <1>3, <1>6 DEF CheckArtifacts, PipelineReady, PipelineFails
<1>7. CASE Persist(w)
  BY <1>1, <1>7, PersistIngests DEF Persist, taskVars, Contract!Next
<1>8. CASE Finalize(w)
  <2>1. ASSUME NEW t \in Tasks, t = job[w], MarkSucceeded(w, t) PROVE Contract!Next
    <3>1. state' = [state EXCEPT ![t] = "Succeeded"] /\ state[t] \in Unfinished
          /\ UNCHANGED content
      BY <1>2, <1>8, <2>1 DEF Finalize, MarkSucceeded, OwnsProcessing, Unlock
    <3>2. Outcome(t)' = "succeeded" /\ Outcome(t) = "open"
      BY <3>1, OutcomeIs DEF TypeOK, TaskTypeOK
    <3>3. content[t] # "never"
      BY <1>8, <2>1 DEF Finalize, FinalizerHasContent
    <3> QED
      BY <3>1, <3>2, <3>3, SettlesOne DEF Contract!Next, Contract!Succeed
  <2> QED
    BY <1>1, <1>3, <1>8, <2>1 DEF Finalize
<1>9. CASE ScheduleRetry(w) \/ Reject(w)
  BY <1>1, <1>2, <1>3, <1>9, StaysOpen
     DEF ScheduleRetry, Reject, MarkFailed, OwnsProcessing, Unlock
<1>10. CASE Bury(w)
  <2>1. ASSUME NEW t \in Tasks, t = job[w], MarkDeadLetter(t) PROVE Contract!Next
    <3>1. state' = [state EXCEPT ![t] = "DeadLetter"] /\ state[t] \in Unfinished
          /\ UNCHANGED content
      BY <1>2, <1>10, <2>1 DEF Bury, MarkDeadLetter, CanMarkDeadLetter, Unlock
    <3>2. Outcome(t)' = "abandoned" /\ Outcome(t) = "open"
      BY <3>1, OutcomeIs DEF TypeOK, TaskTypeOK
    <3> QED
      BY <3>1, <3>2, SettlesOne DEF Contract!Next, Contract!Abandon
  <2> QED
    BY <1>1, <1>3, <1>10, <2>1 DEF Bury
<1> QED
  BY <1>4, <1>5, <1>6, <1>7, <1>8, <1>9, <1>10 DEF Work

LEMMA OutsideKeepsContract ==
  ASSUME TypeOK, PassTime \/ \E t \in Tasks : Submit(t) \/ DeleteJob(t) \/ DeleteContent(t)
  PROVE  [Contract!Next]_Contract!vars
<1> USE DEF Contract!Next
<1>1. ASSUME NEW t \in Tasks, Submit(t) PROVE Contract!Next
  <2>1. state' = [state EXCEPT ![t] = "Pending"] /\ state[t] = "Absent" /\ UNCHANGED content
    BY <1>1 DEF Submit, CreateTask
  <2>2. Outcome(t)' = "open" /\ Outcome(t) = "absent"
    BY <2>1, OutcomeIs DEF TypeOK, TaskTypeOK, Unfinished
  <2> QED
    BY <2>1, <2>2, SettlesOne DEF Contract!Submit
<1>2. ASSUME NEW t \in Tasks, DeleteJob(t) PROVE Contract!Next
  <2>1. state' = [state EXCEPT ![t] = "Deleted"] /\ state[t] \in Stored /\ UNCHANGED content
    BY <1>2 DEF DeleteJob, DeleteTask, Unlock
  <2>2. Outcome(t)' = "withdrawn"
    BY <2>1, OutcomeIs DEF TypeOK, TaskTypeOK
  <2>3. Outcome(t) \in {"open", "succeeded", "abandoned"}
    BY <2>1, OutcomeIs DEF Stored, Terminal
  <2> QED
    BY <2>1, <2>2, <2>3, SettlesOne DEF Contract!Withdraw
<1>3. ASSUME NEW t \in Tasks, DeleteContent(t) PROVE Contract!Next
  <2>1. \A u \in Tasks : Outcome(u)' = Outcome(u)
    BY <1>3, OutcomeFollowsState DEF DeleteContent, taskVars
  <2> QED
    BY <1>3, <2>1 DEF DeleteContent, Contract!Discard
<1>4. ASSUME PassTime PROVE UNCHANGED Contract!vars
  BY <1>4, TableKept DEF PassTime, Tick
<1> QED
  BY <1>1, <1>2, <1>3, <1>4

(* The queue keeps its contract as long as no worker outstays its lease:   *)
(* whatever crashes and whatever races, a job settles at most once, only   *)
(* on written content, and writes nothing after it has settled.            *)
THEOREM QueueKeepsContract == ASSUME MaxStay < Lease PROVE Spec => KeepsContract
<1>1. Init => Contract!Init
  BY OutcomeIs DEF Init, InitTasks, Contract!Init
<1>2. TypeOK /\ OwnerIsCurrent /\ LeaseHeld /\ FinalizerHasContent /\ [Next]_vars
        => [Contract!Next]_Contract!vars
  <2>1. UNCHANGED vars => UNCHANGED Contract!vars
    BY TableKept DEF vars, taskVars
  <2>2. ASSUME TypeOK, OwnerIsCurrent, LeaseHeld, NEW w \in Workers,
               Crash(w) \/ StatementFails(w) \/ PersistReplyLost(w)
        PROVE  [Contract!Next]_Contract!vars
    <3>1. CASE Crash(w) \/ StatementFails(w)
      BY <3>1, TableKept DEF Crash, StatementFails, taskVars
    <3>2. CASE PersistReplyLost(w)
      BY <2>2, <3>2, PersistIngests, BusyHasJob DEF PersistReplyLost, taskVars, Contract!Next
    <3> QED
      BY <2>2, <3>1, <3>2
  <2> QED
    BY <2>1, <2>2, WorkKeepsContract, OutsideKeepsContract DEF Next
<1> QED
  BY <1>1, <1>2, TypeCorrect, OwnerCurrent, LeaseInvariant, FinalizerInvariant, PTL
     DEF Spec, KeepsContract, Contract!Spec

-----------------------------------------------------------------------------
(* What the runs of the pipeline write (Enrichment) *)

(* The entity that run q stores under the number i *)
EntityOf(q, i) == [id |-> <<q, i>>, source |-> DocumentOf[q], owner |-> OwnerOf[DocumentOf[q]]]

Persisted == {q \in Runs : run[q].at = "Persisted"}

(* The entities that have ever been stored, or could have been by the runs   *)
(* there were: a run stores once, and its number is part of their ids        *)
Entries == OldEntities \cup {EntityOf(q, i) : q \in Persisted, i \in Nat}

WasStored(id) == \E e \in Entries : e.id = id

(* The ids that a user's runs may have been shown *)
SeenIds(o) == {e.id : e \in {e \in Entries : e.owner = o}}

RunSteps == {"Idle", "Ready", "Skipped", "ContentPrepared", "Retrieved", "Enriched", "Persisted",
             "Failed"}

RunRows == [at : RunSteps, similar : SUBSET Ids, analysis : Analyses]

Owner(r) == OwnerOf[DocumentOf[r]]

(* A name that a run's answer may have *)
Known(r, end) == end \in Keys \cup SeenIds(Owner(r)) \/ <<r, end>> \in unshown

(* What a run has been shown belongs to its user, and what it names besides   *)
(* is written down                                                          *)
RunsInv ==
  /\ run \in [Runs -> RunRows]
  /\ \A r \in Runs :
       /\ run[r].similar \subseteq SeenIds(Owner(r))
       /\ \A rel \in run[r].analysis.relations : \A end \in {rel.from, rel.to} : Known(r, end)

(* A relation of a user between entities that were this user's, but for what  *)
(* its run had not shown                                                    *)
IsOwn(e) ==
  \A end \in {e.from, e.to} : end \in SeenIds(e.owner) \/ <<e.by, end>> \in unshown

RowsInv ==
  /\ entity \subseteq Entries
  /\ \A e \in relation : e.source \in Documents /\ e.owner = OwnerOf[e.source] /\ IsOwn(e)
  /\ snapshot \in [Documents -> Snapshots \cup {NoRun}]
  /\ \A k \in Documents : snapshot[k] # NoRun =>
       /\ \A e \in snapshot[k].entities : e.source = k
       /\ \A e \in snapshot[k].relations : e.source = k /\ e.owner = OwnerOf[k] /\ IsOwn(e)

Mine(k) == {e \in relation : e.source = k}

(* What is stored of a job with a content, and of one that is deleted *)
HasAll(k) ==
  /\ {c.by : c \in {c \in chunk : c.source = k}} = {snapshot[k].by}
  /\ \A e \in snapshot[k].entities : e \in entity \/ e.id \in removed
  /\ \A e \in entity : e.source = k => e \in snapshot[k].entities
  /\ Mine(k) \subseteq snapshot[k].relations
  /\ \A e \in snapshot[k].relations :
       e \in relation \/ \E end \in {e.from, e.to} : WasStored(end) /\ ~IsStored(end)

HasNothing(k) ==
  /\ \A e \in entity : e.source # k
  /\ \A c \in chunk : c.source # k
  /\ Mine(k) = {}

WholeInv ==
  \A k \in Documents :
    /\ k \notin deleting /\ snapshot[k] # NoRun => HasAll(k)
    /\ k \notin torn /\ (k \in deleting \/ snapshot[k] = NoRun) => HasNothing(k)

EnrichmentInv == RunsInv /\ RowsInv /\ WholeInv

LEMMA EnrichmentIsInit == ASSUME EnrichmentInit PROVE EnrichmentInv
<1>1. [at |-> "Idle", similar |-> {}, analysis |-> NoAnalysis] \in RunRows
  BY DEF RunRows, RunSteps, NoAnalysis, Analyses
<1>2. RunsInv BY <1>1 DEF EnrichmentInit, RunsInv, NoAnalysis
<1>3. RowsInv BY DEF EnrichmentInit, RowsInv, Entries
<1>4. WholeInv BY EnrichmentAssumption DEF EnrichmentInit, WholeInv, HasNothing, Mine
<1> QED BY <1>2, <1>3, <1>4 DEF EnrichmentInv

-----------------------------------------------------------------------------
(* Two entities of one id are the same, and MadeUp is no entity's *)
LEMMA IdsAreOwn ==
  /\ \A e, f \in Entries : e.id = f.id => e = f
  /\ \A e \in Entries : e.id # MadeUp /\ e.id \in Ids
<1> USE EnrichmentAssumption
<1>1. ASSUME NEW e \in Entries
      PROVE  \/ e \in OldEntities /\ \E i \in Nat \ {0} : e.id = <<0, i>>
             \/ \E q \in Runs, i \in Nat : e = EntityOf(q, i) /\ e.id = <<q, i>>
  <2>1. CASE e \in OldEntities BY <2>1
  <2>2. CASE \E q \in Persisted, i \in Nat : e = EntityOf(q, i)
    <3>1. PICK q \in Persisted, i \in Nat : e = EntityOf(q, i) BY <2>2
    <3>2. q \in Runs BY DEF Persisted
    <3>3. e.id = <<q, i>> BY <3>1 DEF EntityOf
    <3> QED BY <3>1, <3>2, <3>3
  <2> QED BY <2>1, <2>2 DEF Entries
<1>2. \A q \in Runs : q # 0 OBVIOUS
<1>3. ASSUME NEW e \in Entries, NEW f \in Entries, e.id = f.id PROVE e = f
  <2>1. CASE e \in OldEntities /\ f \in OldEntities BY <1>3, <2>1
  <2>2. ASSUME NEW q \in Runs, NEW i \in Nat, e = EntityOf(q, i), e.id = <<q, i>>
        PROVE  e = f
    <3>1. ~ \E n \in Nat \ {0} : f.id = <<0, n>> BY <1>2, <1>3, <2>2
    <3>2. PICK p \in Runs, n \in Nat : f = EntityOf(p, n) /\ f.id = <<p, n>> BY <1>1, <3>1
    <3>3. p = q /\ n = i BY <1>3, <2>2, <3>2
    <3> QED BY <2>2, <3>2, <3>3
  <2>3. ASSUME NEW q \in Runs, NEW i \in Nat, f = EntityOf(q, i), f.id = <<q, i>>
        PROVE  e = f
    <3>1. ~ \E n \in Nat \ {0} : e.id = <<0, n>> BY <1>2, <1>3, <2>3
    <3>2. PICK p \in Runs, n \in Nat : e = EntityOf(p, n) /\ e.id = <<p, n>> BY <1>1, <3>1
    <3>3. p = q /\ n = i BY <1>3, <2>3, <3>2
    <3> QED BY <2>3, <3>2, <3>3
  <2>4. CASE \E q \in Runs, i \in Nat : e = EntityOf(q, i) /\ e.id = <<q, i>>
    BY ONLY <2>2, <2>4
  <2>5. CASE \E q \in Runs, i \in Nat : f = EntityOf(q, i) /\ f.id = <<q, i>>
    BY ONLY <2>3, <2>5
  <2> QED BY <1>1, <2>1, <2>4, <2>5
<1>4. ASSUME NEW e \in Entries PROVE e.id # MadeUp /\ e.id \in Ids
  <2>1. CASE \E i \in Nat \ {0} : e.id = <<0, i>> BY <2>1 DEF MadeUp, Ids
  <2>2. CASE \E q \in Runs, i \in Nat : e.id = <<q, i>> BY <1>2, <2>2 DEF MadeUp, Ids
  <2> QED BY <1>1, <2>1, <2>2
<1> QED BY <1>3, <1>4

(* What has been stored stays an entry *)
LEMMA EntriesGrow ==
  ASSUME \A q \in Runs : run[q].at = "Persisted" => run'[q].at = "Persisted",
         unshown \subseteq unshown'
  PROVE  /\ Entries \subseteq Entries'
         /\ \A id : WasStored(id) => WasStored(id)'
         /\ \A o : SeenIds(o) \subseteq SeenIds(o)'
         /\ \A e : IsOwn(e) => IsOwn(e)'
         /\ \A q, end : Known(q, end) => Known(q, end)'
<1>1. Persisted \subseteq Persisted' BY DEF Persisted
<1>2. Entries \subseteq Entries' BY <1>1 DEF Entries
<1>3. \A o : SeenIds(o) \subseteq SeenIds(o)' BY <1>2 DEF SeenIds
<1>4. \A id : WasStored(id) => WasStored(id)' BY <1>2 DEF WasStored
<1> QED BY <1>2, <1>3, <1>4 DEF IsOwn, Known, Owner

(* A run goes on and nothing stored changes *)
LEMMA WholeIsFramed ==
  ASSUME WholeInv, UNCHANGED <<snapshot, entity, chunk, relation, deleting, torn, removed>>,
         \A id : WasStored(id) => WasStored(id)'
  PROVE  WholeInv'
<1>1. \A k : HasAll(k) => HasAll(k)' BY DEF HasAll, Mine, IsStored
<1>2. \A k : HasNothing(k) => HasNothing(k)' BY DEF HasNothing, Mine
<1>3. ASSUME NEW k \in Documents
      PROVE  /\ k \notin deleting' /\ snapshot'[k] # NoRun => HasAll(k)'
             /\ k \notin torn' /\ (k \in deleting' \/ snapshot'[k] = NoRun) => HasNothing(k)'
  BY <1>1, <1>2 DEF WholeInv
<1> QED BY <1>3 DEF WholeInv

(* A run goes on without storing anything *)
LEMMA RunGoesOn ==
  ASSUME EnrichmentInv, NEW r \in Runs, NEW row \in RunRows, run' = [run EXCEPT ![r] = row],
         RowsUnchanged, run[r].at # "Persisted", unshown \subseteq unshown',
         row.similar \subseteq SeenIds(Owner(r)),
         \A rel \in row.analysis.relations : \A end \in {rel.from, rel.to} :
           Known(r, end) \/ <<r, end>> \in unshown'
  PROVE  EnrichmentInv'
<1>1. run' \in [Runs -> RunRows] /\ \A q \in Runs : run'[q] = IF q = r THEN row ELSE run[q]
  BY DEF EnrichmentInv, RunsInv
<1>2. \A q \in Runs : run[q].at = "Persisted" => run'[q].at = "Persisted" BY <1>1
<1>3. /\ Entries \subseteq Entries'
      /\ \A id : WasStored(id) => WasStored(id)'
      /\ \A o : SeenIds(o) \subseteq SeenIds(o)'
      /\ \A e : IsOwn(e) => IsOwn(e)'
      /\ \A q, end : Known(q, end) => Known(q, end)'
  BY <1>2, EntriesGrow
<1>4. RunsInv'
  <2> SUFFICES ASSUME NEW q \in Runs
               PROVE  /\ run'[q].similar \subseteq SeenIds(Owner(q))'
                      /\ \A rel \in run'[q].analysis.relations : \A end \in {rel.from, rel.to} :
                           Known(q, end)'
    BY <1>1 DEF RunsInv
  <2>1. \A end : <<r, end>> \in unshown' => Known(r, end)' BY DEF Known
  <2>2. \A rel \in run'[q].analysis.relations : \A end \in {rel.from, rel.to} : Known(q, end)'
    <3>1. CASE q = r BY <1>1, <1>3, <2>1, <3>1
    <3>2. CASE q # r BY <1>1, <1>3, <3>2 DEF EnrichmentInv, RunsInv
    <3> QED BY <3>1, <3>2
  <2>3. run'[q].similar \subseteq SeenIds(Owner(q))'
    BY <1>1, <1>3 DEF EnrichmentInv, RunsInv, Owner
  <2> QED BY <2>2, <2>3
<1>5. RowsInv' BY <1>3 DEF EnrichmentInv, RowsInv, RowsUnchanged
<1>6. WholeInv'
  BY <1>3, WholeIsFramed DEF EnrichmentInv, RowsUnchanged
<1> QED BY <1>4, <1>5, <1>6 DEF EnrichmentInv

LEMMA FailedGoesOn ==
  ASSUME EnrichmentInv, NEW r \in Runs, Fails(r), run[r].at # "Persisted", UNCHANGED unshown
  PROVE  EnrichmentInv'
<1> DEFINE row == [at |-> "Failed", similar |-> {}, analysis |-> NoAnalysis]
<1>1. row \in RunRows BY DEF RunRows, RunSteps, NoAnalysis, Analyses
<1>2. row.similar = {} /\ row.analysis.relations = {} BY DEF NoAnalysis
<1>3. run' = [run EXCEPT ![r] = row] /\ RowsUnchanged BY DEF Fails
<1> HIDE DEF row
<1> QED BY <1>1, <1>2, <1>3, RunGoesOn

LEMMA FirstStages ==
  ASSUME EnrichmentInv, NEW r \in Runs, StartRun(r) \/ PrepareContent(r) \/ RetrieveRelated(r)
  PROVE  EnrichmentInv'
<1>1. run \in [Runs -> RunRows] /\ run[r] \in RunRows BY DEF EnrichmentInv, RunsInv
<1>2. /\ run[r].similar \subseteq SeenIds(Owner(r))
       /\ \A rel \in run[r].analysis.relations : \A end \in {rel.from, rel.to} : Known(r, end)
  BY DEF EnrichmentInv, RunsInv
<1>3. ASSUME NEW s \in RunSteps, run' = [run EXCEPT ![r].at = s], RowsUnchanged,
             run[r].at # "Persisted", UNCHANGED unshown
      PROVE  EnrichmentInv'
  <2>1. PICK row : row = [run[r] EXCEPT !.at = s] OBVIOUS
  <2>2. /\ row \in RunRows /\ row.similar = run[r].similar
        /\ row.analysis = run[r].analysis
    BY <1>1, <2>1 DEF RunRows
  <2>3. run' = [run EXCEPT ![r] = row] BY <1>3, <2>1
  <2>4. /\ row.similar \subseteq SeenIds(Owner(r))
        /\ \A rel \in row.analysis.relations : \A end \in {rel.from, rel.to} : Known(r, end)
    BY <1>2, <2>2
  <2>5. /\ \A rel \in row.analysis.relations : \A end \in {rel.from, rel.to} :
             Known(r, end) \/ <<r, end>> \in unshown'
        /\ unshown \subseteq unshown'
    BY <1>3, <2>4
  <2> QED BY <1>3, <2>2, <2>3, <2>4, <2>5, RunGoesOn
<1>4. CASE StartRun(r) BY <1>3, <1>4 DEF StartRun, RunSteps
<1>5. CASE PrepareContent(r)
  BY <1>3, <1>5, FailedGoesOn DEF PrepareContent, RunSteps
<1>6. CASE RetrieveRelated(r)
  <2>0. CASE Fails(r) BY <1>6, <2>0, FailedGoesOn DEF RetrieveRelated
  <2> SUFFICES ASSUME ~Fails(r) PROVE EnrichmentInv' BY <2>0
  <2>1. PICK own : own = {e.id : e \in {e \in entity : e.owner = Owner(r)}} OBVIOUS
  <2>2. PICK similar \in {{}} \cup {{id} : id \in IF chunkOnly THEN {} ELSE own} :
          run' = [run EXCEPT ![r].at = "Retrieved", ![r].similar = similar]
    BY <1>6, <2>1 DEF RetrieveRelated, Owner
  <2>3. PICK row : row = [run[r] EXCEPT !.at = "Retrieved", !.similar = similar] OBVIOUS
  <2>4. run' = [run EXCEPT ![r] = row] BY <1>1, <2>2, <2>3
  <2>5. similar \subseteq SeenIds(Owner(r)) /\ similar \subseteq Ids
    <3>1. similar \subseteq own OBVIOUS
    <3>2. own \subseteq SeenIds(Owner(r)) BY <2>1 DEF EnrichmentInv, RowsInv, SeenIds
    <3>3. SeenIds(Owner(r)) \subseteq Ids BY IdsAreOwn DEF SeenIds
    <3> QED BY <3>1, <3>2, <3>3
  <2>6. /\ row \in RunRows /\ row.similar = similar /\ row.analysis = run[r].analysis
    BY <1>1, <2>3, <2>5 DEF RunRows, RunSteps
  <2>7. RowsUnchanged /\ run[r].at # "Persisted" /\ UNCHANGED unshown
    BY <1>6 DEF RetrieveRelated
  <2> QED BY <1>2, <2>4, <2>5, <2>6, <2>7, RunGoesOn
<1> QED BY <1>4, <1>5, <1>6

LEMMA EnrichGoesOn ==
  ASSUME EnrichmentInv, NEW r \in Runs, Enrich(r)
  PROVE  EnrichmentInv'
<1>1. run[r].at = "Retrieved" BY DEF Enrich
<1>2. CASE Fails(r) /\ UNCHANGED unshown BY <1>1, <1>2, FailedGoesOn
<1>3. ASSUME NEW a \in IF chunkOnly THEN {NoAnalysis} ELSE Replies,
             run' = [run EXCEPT ![r] = [at |-> "Enriched", similar |-> {}, analysis |-> a]],
             unshown' = unshown \cup ({r} \X ((Ends(a) \cap Ids) \ run[r].similar)),
             RowsUnchanged
      PROVE  EnrichmentInv'
  <2>1. run[r] \in RunRows /\ run[r].similar \subseteq SeenIds(Owner(r))
    BY DEF EnrichmentInv, RunsInv
  <2>2. a \in Analyses
    <3>1. NoAnalysis \in Analyses BY DEF NoAnalysis, Analyses
    <3>2. Replies \subseteq Analyses BY EnrichmentAssumption
    <3> QED BY <1>3, <3>1, <3>2
  <2>3. ASSUME NEW rel \in a.relations, NEW end \in {rel.from, rel.to}
        PROVE  Known(r, end) \/ <<r, end>> \in unshown'
    <3>1. rel.from \in Names /\ rel.to \in Names BY <2>2 DEF Analyses
    <3>2. end \in Keys \cup Ids BY <3>1 DEF Names
    <3>3. end \in Ends(a) BY DEF Ends
    <3>4. CASE end \in Keys \cup run[r].similar BY <2>1, <3>4 DEF Known
    <3>5. CASE end \in (Ends(a) \cap Ids) \ run[r].similar BY <1>3, <3>5
    <3> QED BY <3>2, <3>3, <3>4, <3>5
  <2>4. PICK row : row = [at |-> "Enriched", similar |-> {}, analysis |-> a] OBVIOUS
  <2>5. row \in RunRows /\ row.similar = {} /\ row.analysis = a
    BY <2>2, <2>4 DEF RunRows, RunSteps
  <2>6. unshown \subseteq unshown' BY <1>3
  <2> QED BY <1>1, <1>3, <2>3, <2>4, <2>5, <2>6, RunGoesOn
<1> QED BY <1>2, <1>3 DEF Enrich

-----------------------------------------------------------------------------
(* Where rows of k go, and rows of k with ids of their own may come: what is *)
(* stored of another job is what was, but for relations that lost an end     *)
LEMMA OthersKeepTheirs ==
  ASSUME EnrichmentInv, NEW k \in Documents, NEW j \in Documents, j # k,
         NEW A, NEW C, NEW R,
         entity' = Cleared(k).entity \cup A, chunk' = Cleared(k).chunk \cup C,
         relation' = Cleared(k).relation \cup R,
         \A a \in A \cup C \cup R : a.source = k,
         \A a \in A : \A e \in Entries : e.id # a.id,
         removed' = removed, snapshot'[j] = snapshot[j],
         \A id : WasStored(id) => WasStored(id)'
  PROVE  /\ snapshot[j] # NoRun /\ HasAll(j) => HasAll(j)'
         /\ HasNothing(j) => HasNothing(j)'
<1>1. /\ \A e : e.source = j => (e \in entity' <=> e \in entity)
      /\ \A c : c.source = j => (c \in chunk' <=> c \in chunk)
      /\ \A e : e.source = j /\ e \in relation' => e \in relation
  BY DEF Cleared, Without
<1>2. HasNothing(j) => HasNothing(j)' BY <1>1 DEF HasNothing, Mine
<1>3. ASSUME snapshot[j] # NoRun, HasAll(j) PROVE HasAll(j)'
  <2>1. /\ \A e \in snapshot[j].entities : e.source = j
        /\ \A e \in snapshot[j].relations : e.source = j /\ IsOwn(e)
    BY <1>3 DEF EnrichmentInv, RowsInv
  <2>2. {c \in chunk' : c.source = j} = {c \in chunk : c.source = j} BY <1>1
  <2>3. \A e \in snapshot[j].entities : e \in entity' \/ e.id \in removed'
    BY <1>1, <1>3, <2>1 DEF HasAll
  <2>4. \A e \in entity' : e.source = j => e \in snapshot[j].entities
    BY <1>1, <1>3 DEF HasAll
  <2>5. Mine(j)' \subseteq snapshot[j].relations
    BY <1>1, <1>3 DEF HasAll, Mine
  <2>6. ASSUME NEW e \in snapshot[j].relations
        PROVE  e \in relation' \/ \E end \in {e.from, e.to} : WasStored(end)' /\ ~IsStored(end)'
    <3>1. ASSUME NEW end \in {e.from, e.to}, WasStored(end), ~IsStored(end) PROVE ~IsStored(end)'
      <4>1. \A a \in A : a.id # end BY <3>1 DEF WasStored
      <4> QED BY <3>1, <4>1 DEF IsStored, Cleared
    <3>2. ASSUME NEW end \in {e.from, e.to}, end \in IdsOfSource(k)
          PROVE  WasStored(end) /\ ~IsStored(end)'
      <4>1. PICK m \in entity : m.id = end /\ m.source = k BY <3>2 DEF IdsOfSource
      <4>2. m \in Entries BY <4>1 DEF EnrichmentInv, RowsInv
      <4>3. \A f \in entity : f.id = end => f.source = k
        BY <4>1, <4>2, IdsAreOwn DEF EnrichmentInv, RowsInv
      <4>4. \A a \in A : a.id # end BY <4>1, <4>2
      <4> QED BY <4>1, <4>2, <4>3, <4>4 DEF IsStored, Cleared, WasStored
    <3>3. CASE e \in relation /\ e.from \notin IdsOfSource(k) /\ e.to \notin IdsOfSource(k)
      BY <2>1, <3>3 DEF Cleared, Without
    <3> QED BY <1>3, <3>1, <3>2, <3>3 DEF HasAll
  <2>7. {c.by : c \in {c \in chunk' : c.source = j}} = {snapshot[j].by}
    BY <1>3, <2>2 DEF HasAll
  <2>8. snapshot'[j] = snapshot[j] OBVIOUS
  <2> QED BY ONLY <2>3, <2>4, <2>5, <2>6, <2>7, <2>8 DEF HasAll
<1> QED BY <1>2, <1>3

(* What a relation of a run may reach *)
Reached(r, id) ==
  id \in SeenIds(Owner(r)) \cup {<<r, i>> : i \in Nat} \/ <<r, id>> \in unshown

(* What a run stores: entities of ids of its own, relations of its user's *)
LEMMA SnapshotIsOwn ==
  ASSUME EnrichmentInv, NEW r \in Runs, run[r].at = "Enriched",
         Resolves(run[r].analysis), HasDistinctIds(run[r].analysis)
  PROVE  /\ SnapshotOf(r) \in Snapshots /\ SnapshotOf(r).by = r
         /\ \A e \in SnapshotOf(r).entities : \E i \in Nat : e = EntityOf(r, i)
         /\ \A e \in SnapshotOf(r).relations :
              /\ e.source = DocumentOf[r] /\ e.owner = Owner(r) /\ e.by = r
              /\ Reached(r, e.from) /\ Reached(r, e.to)
<1> DEFINE a == run[r].analysis
<1>0. a \in Analyses BY DEF EnrichmentInv, RunsInv, RunRows
<1>1. /\ a.keys \in Seq(Names) /\ DocumentOf[r] \in Documents /\ Owner(r) \in Owners
      /\ \A rel \in a.relations : \A end \in {rel.from, rel.to} : end \in Names /\ Known(r, end)
  BY <1>0, EnrichmentAssumption DEF EnrichmentInv, RunsInv, Analyses, Owner, Owners
<1>2. ASSUME NEW key, \E i \in 1..Len(a.keys) : a.keys[i] = key
      PROVE  \E i \in Nat : AssignedId(r, a.keys, key) = <<r, i>>
  <2>1. PICK i \in 1..Len(a.keys) : a.keys[i] = key BY <1>2
  <2>2. \A j \in i + 1..Len(a.keys) : a.keys[j] # key
    BY <1>1, <2>1 DEF HasDistinctIds
  <2>3. \E n \in 1..Len(a.keys) : a.keys[n] = key /\ \A j \in n + 1..Len(a.keys) : a.keys[j] # key
    BY <2>1, <2>2
  <2> QED BY <1>1, <2>3 DEF AssignedId
<1>3. \A e \in EntitiesOf(r, a) : \E i \in Nat : e = EntityOf(r, i)
  BY <1>2 DEF EntitiesOf, EntityOf
<1>4. \A i \in Nat : EntityOf(r, i) \in WrittenEntities
  BY <1>1 DEF EntityOf, WrittenEntities, Owner
<1>5. ASSUME NEW rel \in a.relations, NEW end \in {rel.from, rel.to}
      PROVE  EndId(r, a.keys, end) \in Ids /\ Reached(r, EndId(r, a.keys, end))
  <2>1. CASE end \in Ids
    <3>1. end \notin Keys BY <2>1, EnrichmentAssumption
    <3>2. Known(r, end) BY <1>1, <1>5
    <3> QED BY <2>1, <3>1, <3>2 DEF EndId, Known, Reached
  <2>2. CASE end \notin Ids
    <3>1. \E i \in 1..Len(a.keys) : a.keys[i] = end BY <1>5, <2>2 DEF Resolves
    <3>2. PICK i \in Nat : AssignedId(r, a.keys, end) = <<r, i>> BY <1>2, <3>1
    <3>3. EndId(r, a.keys, end) = <<r, i>> BY <2>2, <3>2 DEF EndId
    <3> QED BY <3>3 DEF Ids, Reached
  <2> QED BY <2>1, <2>2
<1>7. ASSUME NEW e \in RelationsOf(r, a)
      PROVE  /\ e \in WrittenRelations /\ e.source = DocumentOf[r] /\ e.owner = Owner(r)
             /\ e.by = r /\ Reached(r, e.from) /\ Reached(r, e.to)
  <2>1. PICK rel \in a.relations :
          e = [from |-> EndId(r, a.keys, rel.from), to |-> EndId(r, a.keys, rel.to),
               source |-> DocumentOf[r], owner |-> OwnerOf[DocumentOf[r]], by |-> r]
    BY <1>7 DEF RelationsOf
  <2>2. PICK x, y : x = EndId(r, a.keys, rel.from) /\ y = EndId(r, a.keys, rel.to) OBVIOUS
  <2>3. x \in Ids /\ y \in Ids /\ Reached(r, x) /\ Reached(r, y) BY <1>5, <2>2
  <2>4. e = [from |-> x, to |-> y, source |-> DocumentOf[r], owner |-> Owner(r), by |-> r]
    BY <2>1, <2>2 DEF Owner
  <2> QED BY <1>1, <2>3, <2>4 DEF WrittenRelations
<1>8. EntitiesOf(r, a) \in SUBSET WrittenEntities BY <1>3, <1>4
<1>9. RelationsOf(r, a) \in SUBSET WrittenRelations BY <1>7
<1>10. /\ SnapshotOf(r).by = r /\ SnapshotOf(r).entities = EntitiesOf(r, a)
       /\ SnapshotOf(r).relations = RelationsOf(r, a)
       /\ SnapshotOf(r) \in Snapshots
  BY <1>8, <1>9 DEF SnapshotOf, Snapshots
<1> QED BY <1>3, <1>7, <1>10

LEMMA PersistGoesOn ==
  ASSUME EnrichmentInv, NEW r \in Runs, PersistRun(r)
  PROVE  EnrichmentInv'
<1>1. run[r].at = "Enriched" BY DEF PersistRun
<1>2. CASE Fails(r) BY <1>1, <1>2, FailedGoesOn DEF PersistRun
<1>3. CASE ~Fails(r)
  <2>1. PICK k \in Documents : k = DocumentOf[r] BY EnrichmentAssumption
  <2>2. PICK s : s = SnapshotOf(r) OBVIOUS
  <2>3. k = DocumentOf[r] /\ s = SnapshotOf(r) BY <2>1, <2>2
  <2>4. /\ Resolves(run[r].analysis) /\ HasDistinctIds(run[r].analysis)
        /\ run' = [run EXCEPT ![r] = [at |-> "Persisted", similar |-> {}, analysis |-> NoAnalysis]]
        /\ snapshot' = [snapshot EXCEPT ![k] = s]
        /\ entity' = Cleared(k).entity \cup s.entities
        /\ chunk' = Cleared(k).chunk \cup {[source |-> k, by |-> r]}
        /\ relation' = Cleared(k).relation \cup s.relations
        /\ torn' = torn \cup (deleting \cap {k})
        /\ UNCHANGED <<deleting, removed, unshown>>
    BY <1>3, <2>3 DEF PersistRun, ChunksOf
  <2>5. /\ s \in Snapshots /\ s.by = r
        /\ \A e \in s.entities : \E i \in Nat : e = EntityOf(r, i)
        /\ \A e \in s.relations :
             /\ e.source = k /\ e.owner = Owner(r) /\ e.by = r
             /\ Reached(r, e.from) /\ Reached(r, e.to)
    BY <1>1, <2>3, <2>4, SnapshotIsOwn
  <2>6. /\ run' \in [Runs -> RunRows]
        /\ \A q \in Runs : run'[q] = IF q = r THEN [at |-> "Persisted", similar |-> {},
                                                    analysis |-> NoAnalysis] ELSE run[q]
    <3>1. [at |-> "Persisted", similar |-> {}, analysis |-> NoAnalysis] \in RunRows
      BY DEF RunRows, RunSteps, NoAnalysis, Analyses
    <3> QED BY <2>4, <3>1 DEF EnrichmentInv, RunsInv
  <2>7. /\ Entries \subseteq Entries'
        /\ \A id : WasStored(id) => WasStored(id)'
        /\ \A o : SeenIds(o) \subseteq SeenIds(o)'
        /\ \A e : IsOwn(e) => IsOwn(e)'
        /\ \A q, end : Known(q, end) => Known(q, end)'
    BY <2>4, <2>6, EntriesGrow
  <2>8. \A i \in Nat : EntityOf(r, i) \in Entries'
    BY <2>6 DEF Entries, Persisted
  <2>9. \A i \in Nat : <<r, i>> \in SeenIds(Owner(r))'
    <3>1. ASSUME NEW i \in Nat PROVE <<r, i>> \in SeenIds(Owner(r))'
      <4>1. PICK e : e = EntityOf(r, i) OBVIOUS
      <4>2. e.id = <<r, i>> /\ e.owner = Owner(r) BY <4>1 DEF EntityOf, Owner
      <4>3. e \in Entries' BY <2>8, <4>1
      <4>4. PICK o : o = Owner(r) OBVIOUS
      <4>5. <<r, i>> \in SeenIds(o)' BY <4>2, <4>3, <4>4 DEF SeenIds
      <4> QED BY <4>4, <4>5 DEF Owner
    <3> QED BY <3>1
  <2>10. \A e \in s.relations : IsOwn(e)'
    <3>1. \A id : Reached(r, id) => id \in SeenIds(Owner(r))' \/ <<r, id>> \in unshown'
      BY <2>4, <2>7, <2>9 DEF Reached, Owner
    <3> QED BY <2>5, <3>1 DEF IsOwn, Owner
  <2>11. \A e \in s.entities : e.source = k /\ e \in Entries'
    BY <2>3, <2>5, <2>8 DEF EntityOf
  <2>12. Owner(r) = OwnerOf[k] BY <2>3 DEF Owner
  <2>13. ASSUME NEW a \in s.entities, NEW e \in Entries PROVE e.id # a.id
    <3>1. PICK i \in Nat : a = EntityOf(r, i) BY <2>5, <2>13
    <3>2. a.id = <<r, i>> BY <3>1 DEF EntityOf
    <3>3. CASE e \in OldEntities BY <3>2, <3>3, EnrichmentAssumption
    <3>4. CASE \E q \in Persisted, n \in Nat : e = EntityOf(q, n)
      BY <1>1, <3>2, <3>4 DEF Persisted, EntityOf
    <3> QED BY <3>3, <3>4 DEF Entries
  <2>14. \A j \in Documents : snapshot'[j] = IF j = k THEN s ELSE snapshot[j]
    BY <2>4 DEF EnrichmentInv, RowsInv
  <2>15. RunsInv'
    <3> SUFFICES ASSUME NEW q \in Runs
                 PROVE  /\ run'[q].similar \subseteq SeenIds(Owner(q))'
                        /\ \A rel \in run'[q].analysis.relations : \A end \in {rel.from, rel.to} :
                             Known(q, end)'
      BY <2>6 DEF RunsInv
    <3> QED BY <2>6, <2>7 DEF EnrichmentInv, RunsInv, Owner, NoAnalysis
  <2>16. RowsInv'
    <3>1. entity' \subseteq Entries'
      BY <2>4, <2>7, <2>11 DEF EnrichmentInv, RowsInv, Cleared
    <3>2. \A e \in relation' : e.source \in Documents /\ e.owner = OwnerOf[e.source] /\ IsOwn(e)'
      BY <2>4, <2>5, <2>7, <2>10, <2>12 DEF EnrichmentInv, RowsInv, Cleared, Without
    <3>3. snapshot' \in [Documents -> Snapshots \cup {NoRun}]
      BY <2>4, <2>5 DEF EnrichmentInv, RowsInv
    <3>4. \A j \in Documents : snapshot'[j] # NoRun =>
            /\ \A e \in snapshot'[j].entities : e.source = j
            /\ \A e \in snapshot'[j].relations : e.source = j /\ e.owner = OwnerOf[j] /\ IsOwn(e)'
      BY <2>5, <2>7, <2>10, <2>11, <2>12, <2>14 DEF EnrichmentInv, RowsInv
    <3> QED BY <3>1, <3>2, <3>3, <3>4 DEF RowsInv
  <2>17. HasAll(k)'
    <3>1. {c.by : c \in {c \in chunk' : c.source = k}} = {r}
      <4>1. PICK new : new = [source |-> k, by |-> r] OBVIOUS
      <4>2. new.source = k /\ new.by = r BY <4>1
      <4>3. \A c : c \in chunk' /\ c.source = k <=> c = new BY <2>4, <4>1, <4>2 DEF Cleared
      <4>4. {c \in chunk' : c.source = k} = {new} BY <4>3
      <4> QED BY <4>2, <4>4
    <3>2. \A e \in entity' : e.source = k => e \in s.entities BY <2>4 DEF Cleared
    <3>3. \A e \in relation' : e.source = k => e \in s.relations
      BY <2>4 DEF Cleared, Without, EnrichmentInv, RowsInv
    <3> QED BY <2>4, <2>5, <2>14, <3>1, <3>2, <3>3 DEF HasAll, Mine
  <2>18. s # NoRun BY <2>5, EnrichmentAssumption
  <2>19. ASSUME NEW j \in Documents
         PROVE  /\ j \notin deleting' /\ snapshot'[j] # NoRun => HasAll(j)'
                /\ j \notin torn' /\ (j \in deleting' \/ snapshot'[j] = NoRun) => HasNothing(j)'
    <3>1. CASE j = k BY <2>4, <2>14, <2>17, <2>18, <3>1
    <3>2. CASE j # k
      <4>1. \A a \in s.entities \cup {[source |-> k, by |-> r]} \cup s.relations : a.source = k
        BY <2>5, <2>11
      <4>2. /\ snapshot[j] # NoRun /\ HasAll(j) => HasAll(j)'
            /\ HasNothing(j) => HasNothing(j)'
        BY <2>4, <2>7, <2>13, <2>14, <3>2, <4>1, OthersKeepTheirs
      <4> QED BY <2>4, <2>14, <3>2, <4>2 DEF EnrichmentInv, WholeInv
    <3> QED BY <3>1, <3>2
  <2> QED BY <2>15, <2>16, <2>19 DEF EnrichmentInv, WholeInv
<1> QED BY <1>2, <1>3

-----------------------------------------------------------------------------
(* Deletions *)
LEMMA DeletionKeepsRuns ==
  ASSUME EnrichmentInv, run' = run, unshown' = unshown
  PROVE  /\ RunsInv' /\ Entries' = Entries
         /\ \A id : WasStored(id)' <=> WasStored(id)
         /\ \A o : SeenIds(o)' = SeenIds(o)
         /\ \A e : IsOwn(e)' <=> IsOwn(e)
<1>1. Entries' = Entries BY DEF Entries, Persisted
<1>2. \A o : SeenIds(o)' = SeenIds(o) BY <1>1 DEF SeenIds
<1>3. \A id : WasStored(id)' <=> WasStored(id) BY <1>1 DEF WasStored
<1> QED BY <1>1, <1>2, <1>3 DEF EnrichmentInv, RunsInv, IsOwn, Known, Owner

LEMMA ClearingGoesOn ==
  ASSUME EnrichmentInv, NEW k \in Documents, ClearChildren(k)
  PROVE  EnrichmentInv'
<1>1. /\ entity' = Cleared(k).entity /\ chunk' = Cleared(k).chunk
      /\ relation' = Cleared(k).relation /\ deleting' = deleting \cup {k}
      /\ UNCHANGED <<run, snapshot, torn, removed, unshown>>
  BY DEF ClearChildren
<1>2. /\ RunsInv' /\ Entries' = Entries /\ \A e : IsOwn(e)' <=> IsOwn(e)
      /\ \A id : WasStored(id)' <=> WasStored(id)
  BY <1>1, DeletionKeepsRuns
<1>3. RowsInv'
  BY <1>1, <1>2 DEF EnrichmentInv, RowsInv, Cleared, Without
<1>4. HasNothing(k)'
  BY <1>1 DEF EnrichmentInv, RowsInv, HasNothing, Mine, Cleared, Without
<1>5. ASSUME NEW j \in Documents, j # k
      PROVE  /\ snapshot[j] # NoRun /\ HasAll(j) => HasAll(j)'
             /\ HasNothing(j) => HasNothing(j)'
  <2>1. PICK none : none = {} OBVIOUS
  <2>2. /\ entity' = Cleared(k).entity \cup none /\ chunk' = Cleared(k).chunk \cup none
        /\ relation' = Cleared(k).relation \cup none
    BY <1>1, <2>1
  <2>3. /\ \A a \in none \cup none \cup none : a.source = k
        /\ \A a \in none : \A e \in Entries : e.id # a.id
    BY <2>1
  <2>4. snapshot'[j] = snapshot[j] /\ removed' = removed BY <1>1
  <2>5. \A id : WasStored(id) => WasStored(id)' BY <1>2
  <2> QED BY <1>5, <2>2, <2>3, <2>4, <2>5, OthersKeepTheirs
<1>6. WholeInv' BY <1>1, <1>4, <1>5 DEF EnrichmentInv, WholeInv
<1> QED BY <1>2, <1>3, <1>6 DEF EnrichmentInv

LEMMA DroppingGoesOn ==
  ASSUME EnrichmentInv, NEW k \in Documents, DropContent(k)
  PROVE  EnrichmentInv'
<1>1. /\ k \in deleting /\ snapshot' = [snapshot EXCEPT ![k] = NoRun]
      /\ deleting' = deleting \ {k}
      /\ UNCHANGED <<run, entity, chunk, relation, torn, removed, unshown>>
  BY DEF DropContent
<1>2. /\ RunsInv' /\ Entries' = Entries /\ \A e : IsOwn(e)' <=> IsOwn(e)
      /\ \A id : WasStored(id)' <=> WasStored(id)
  BY <1>1, DeletionKeepsRuns
<1>3. /\ snapshot' \in [Documents -> Snapshots \cup {NoRun}]
      /\ \A j \in Documents : snapshot'[j] = IF j = k THEN NoRun ELSE snapshot[j]
  BY <1>1 DEF EnrichmentInv, RowsInv
<1>4. RowsInv' BY <1>1, <1>2, <1>3 DEF EnrichmentInv, RowsInv
<1>5. WholeInv'
  <2>1. \A j \in Documents : j # k /\ HasAll(j) => HasAll(j)'
    BY <1>1, <1>2, <1>3 DEF HasAll, Mine, IsStored
  <2>2. \A j \in Documents : HasNothing(j) => HasNothing(j)' BY <1>1 DEF HasNothing, Mine
  <2> QED BY <1>1, <1>3, <2>1, <2>2 DEF EnrichmentInv, WholeInv
<1> QED BY <1>2, <1>4, <1>5 DEF EnrichmentInv

LEMMA RemovalGoesOn ==
  ASSUME EnrichmentInv, NEW d \in entity, RemoveEntity(d)
  PROVE  EnrichmentInv'
<1>1. /\ entity' = entity \ {d} /\ relation' = Without(relation, {d.id})
      /\ removed' = removed \cup {d.id}
      /\ UNCHANGED <<run, snapshot, chunk, deleting, torn, unshown>>
  BY DEF RemoveEntity
<1>2. /\ RunsInv' /\ Entries' = Entries /\ \A e : IsOwn(e)' <=> IsOwn(e)
      /\ \A id : WasStored(id)' <=> WasStored(id)
  BY <1>1, DeletionKeepsRuns
<1>3. RowsInv' BY <1>1, <1>2 DEF EnrichmentInv, RowsInv, Without
<1>4. WasStored(d.id) /\ \A e \in entity' : e.id # d.id
  BY <1>1, IdsAreOwn DEF EnrichmentInv, RowsInv, WasStored
<1>5. \A id : IsStored(id)' => IsStored(id) BY <1>1 DEF IsStored
<1>6. ASSUME NEW k \in Documents, HasAll(k) PROVE HasAll(k)'
  <2>1. \A e \in snapshot[k].relations :
          e \in relation' \/ \E end \in {e.from, e.to} : WasStored(end)' /\ ~IsStored(end)'
    BY <1>1, <1>2, <1>4, <1>5, <1>6 DEF HasAll, Without, IsStored
  <2>2. Mine(k)' \subseteq Mine(k) BY <1>1 DEF Mine, Without
  <2> QED BY <1>1, <1>6, <2>1, <2>2 DEF HasAll
<1>7. \A k \in Documents : HasNothing(k) => HasNothing(k)'
  BY <1>1 DEF HasNothing, Mine, Without
<1>8. WholeInv' BY <1>1, <1>6, <1>7 DEF EnrichmentInv, WholeInv
<1> QED BY <1>2, <1>3, <1>8 DEF EnrichmentInv

LEMMA EnrichmentStep ==
  ASSUME EnrichmentInv, [EnrichmentNext]_enrichmentVars PROVE EnrichmentInv'
<1>1. CASE UNCHANGED enrichmentVars
  <2>1. UNCHANGED <<run, snapshot, entity, chunk, relation, deleting, torn, removed, unshown>>
    BY <1>1 DEF enrichmentVars
  <2>2. /\ RunsInv' /\ Entries' = Entries /\ \A e : IsOwn(e)' <=> IsOwn(e)
        /\ \A id : WasStored(id)' <=> WasStored(id)
    BY <2>1, DeletionKeepsRuns
  <2>3. RowsInv' BY <2>1, <2>2 DEF EnrichmentInv, RowsInv
  <2>4. WholeInv'
    BY <2>1, <2>2, WholeIsFramed DEF EnrichmentInv
  <2> QED BY <2>2, <2>3, <2>4 DEF EnrichmentInv
<1>2. CASE \E r \in Runs : RunStep(r)
  BY <1>2, FirstStages, EnrichGoesOn, PersistGoesOn DEF RunStep
<1>3. CASE \E k \in Documents : ClearChildren(k) \/ DropContent(k)
  BY <1>3, ClearingGoesOn, DroppingGoesOn
<1>4. CASE \E e \in entity : RemoveEntity(e)
  BY <1>4, RemovalGoesOn
<1> QED BY <1>1, <1>2, <1>3, <1>4 DEF EnrichmentNext

(* For any number of jobs and of runs of each, answers of the model and      *)
(* deletions: what is stored of a job is what one run of it wrote, with      *)
(* nothing of another run left over and nothing missing but what a user      *)
(* deleted and relations that lost an end; and a relation reaches another     *)
(* user's entity only where the answer named the id of that entity, which    *)
(* the run had not shown (persistence.rs:35, text_content.rs:103,             *)
(* graph_mapper.rs:25).                                                      *)
THEOREM RunsLeaveOneSnapshot == EnrichmentSpec => []SnapshotsAreWhole
<1>1. EnrichmentInit => EnrichmentInv BY EnrichmentIsInit
<1>2. EnrichmentInv /\ [EnrichmentNext]_enrichmentVars => EnrichmentInv' BY EnrichmentStep
<1>3. EnrichmentInv => SnapshotsAreWhole
  <2> SUFFICES ASSUME EnrichmentInv PROVE SnapshotsAreWhole OBVIOUS
  <2>1. ASSUME NEW e \in relation, NEW n \in entity, n.id \in {e.from, e.to}
        PROVE  n.owner = e.owner \/ <<e.by, n.id>> \in unshown
    <3>1. n \in Entries BY DEF EnrichmentInv, RowsInv
    <3>2. n.id \in SeenIds(e.owner) \/ <<e.by, n.id>> \in unshown
      BY <2>1 DEF EnrichmentInv, RowsInv, IsOwn
    <3> QED BY <3>1, <3>2, IdsAreOwn DEF SeenIds
  <2>2. ASSUME NEW k \in Documents, k \notin deleting, snapshot[k] # NoRun
        PROVE  /\ HasAll(k)
               /\ \A e \in snapshot[k].relations : e \in relation => e \in Mine(k)
               /\ \A id : WasStored(id) => id # MadeUp
    BY <2>2, IdsAreOwn DEF EnrichmentInv, RowsInv, WholeInv, Mine, WasStored
  <2>3. \A k \in Documents : k \notin torn /\ snapshot[k] = NoRun => HasNothing(k)
    BY DEF EnrichmentInv, WholeInv
  <2> QED BY <2>1, <2>2, <2>3 DEF SnapshotsAreWhole, HasAll, HasNothing, Mine
<1> QED BY <1>1, <1>2, <1>3, PTL DEF EnrichmentSpec
=============================================================================
