---------------------------- MODULE IndexRebuild ----------------------------
(***************************************************************************)
(* The scheduled index rebuild: idle workers call                          *)
(* maybe_run_scheduled_index_rebuild (indexes.rs) from run_worker_loop,    *)
(* while administrators and starting processes update the same row         *)
(* (SystemSettings).  step says where in that call a worker is:            *)
(*   idle        about to load the settings, or busy with other work       *)
(*   seeding     before the statement that seeds the checkpoint            *)
(*   acquiring   has found a rebuild due, before it asks for the lease     *)
(*   rebuilding  in rebuild_runtime                                        *)
(*   recording   before record_index_rebuild_completed                     *)
(*   releasing   before release_index_rebuild_lease                        *)
(***************************************************************************)
EXTENDS SystemSettings

CONSTANTS
  MaxRebuild,      \* ticks from the lease to the end of the call (a bound)
  MaxUpdates,      \* updates by clients in a behaviour (a bound)
  MaxFaults        \* crashes, failed rebuilds and failed statements (a bound)

VARIABLES
  step,            \* where each worker is
  stay,            \* ticks since it was given the lease
  sinceSetup,      \* the age of the database, which matters up to Interval
  updates,         \* updates begun so far
  faults           \* faults so far

rebuildVars == <<step, stay>>
vars == <<settingsVars, rebuildVars, sinceSetup, updates, faults>>

ASSUME RebuildAssumption ==
  /\ MaxRebuild \in Nat
  /\ MaxUpdates \in Nat
  /\ MaxFaults \in Nat

Steps == {"idle", "seeding", "acquiring", "rebuilding", "recording", "releasing"}

(* The steps at which a worker was given the lease *)
Leased == {"rebuilding", "recording", "releasing"}

Init ==
  /\ InitSettings
  /\ step = [w \in Workers |-> "idle"]
  /\ stay = [w \in Workers |-> 0]
  /\ sinceSetup = 0
  /\ updates = 0
  /\ faults = 0

GoTo(w, s) ==
  /\ step' = [step EXCEPT ![w] = s]
  /\ UNCHANGED stay

(* maybe_run_scheduled_index_rebuild returns *)
Return(w) ==
  /\ step' = [step EXCEPT ![w] = "idle"]
  /\ stay' = [stay EXCEPT ![w] = 0]

Quiet == UNCHANGED <<clientVars, sinceSetup, updates>>

-----------------------------------------------------------------------------
(* get_current, and the decision taken on what it returned *)
Look(w) ==
  /\ step[w] = "idle"
  /\ \/ row.checkpoint = None /\ GoTo(w, "seeding")
     \/ Due(row.checkpoint) /\ GoTo(w, "acquiring")
  /\ UNCHANGED <<row, faults>> /\ Quiet

Seed(w) ==
  /\ step[w] = "seeding"
  /\ SeedCheckpoint
  /\ Return(w)
  /\ UNCHANGED faults /\ Quiet

(* The row is not asked again whether the rebuild is still due *)
Acquire(w) ==
  /\ step[w] = "acquiring"
  /\ \/ TakeLease(w) /\ GoTo(w, "rebuilding")
     \/ ~LeaseFree /\ Return(w) /\ UNCHANGED row
  /\ UNCHANGED faults /\ Quiet

RebuildDone(w) ==
  /\ step[w] = "rebuilding"
  /\ GoTo(w, "recording")
  /\ UNCHANGED <<row, faults>> /\ Quiet

Record(w) ==
  /\ step[w] = "recording"
  /\ RecordRebuild(w)
  /\ Return(w)
  /\ UNCHANGED faults /\ Quiet

Release(w) ==
  /\ step[w] = "releasing"
  /\ ReleaseLease(w)
  /\ Return(w)
  /\ UNCHANGED faults /\ Quiet

-----------------------------------------------------------------------------
(* Faults                                                                  *)

OneMoreFault ==
  /\ faults < MaxFaults
  /\ faults' = faults + 1

RebuildFails(w) ==
  /\ step[w] = "rebuilding"
  /\ GoTo(w, "releasing")
  /\ OneMoreFault
  /\ UNCHANGED row /\ Quiet

(* A statement fails without effect *)
StatementFails(w) ==
  /\ \/ step[w] \in {"seeding", "acquiring", "releasing"} /\ Return(w)
     \/ step[w] = "recording" /\ GoTo(w, "releasing")
  /\ OneMoreFault
  /\ UNCHANGED row /\ Quiet

(* A statement takes effect and its reply is lost *)
ReplyLost(w) ==
  /\ \/ step[w] = "acquiring" /\ TakeLease(w) /\ Return(w)
     \/ step[w] = "recording" /\ RecordRebuild(w) /\ GoTo(w, "releasing")
  /\ OneMoreFault
  /\ Quiet

(* The process dies.  Its successor has an id of its own; it may bear the  *)
(* old name here because it sends no statement guarded by the owner before *)
(* a TakeLease that overwrites the owner.                                  *)
Crash(w) ==
  /\ step[w] # "idle"
  /\ Return(w)
  /\ OneMoreFault
  /\ UNCHANGED row /\ Quiet

-----------------------------------------------------------------------------
BeginUpdate(c) ==
  /\ updates < MaxUpdates
  /\ StartClient(c)
  /\ updates' = updates + 1
  /\ UNCHANGED <<rebuildVars, sinceSetup, faults>>

EndUpdate(c) ==
  /\ ContinueClient(c)
  /\ UNCHANGED <<rebuildVars, sinceSetup, updates, faults>>

Tick ==
  /\ \A w \in Workers : step[w] \in Leased => stay[w] < MaxRebuild
  /\ AgeSettings
  /\ stay' = [w \in Workers |-> IF step[w] \in Leased THEN stay[w] + 1 ELSE stay[w]]
  /\ sinceSetup' = IF sinceSetup = Interval THEN Interval ELSE sinceSetup + 1
  /\ UNCHANGED <<step, updates, faults>>

WorkerStep(w) ==
  Look(w) \/ Seed(w) \/ Acquire(w) \/ RebuildDone(w) \/ Record(w) \/ Release(w)

Fault(w) == RebuildFails(w) \/ StatementFails(w) \/ ReplyLost(w) \/ Crash(w)

Next ==
  \/ \E w \in Workers : WorkerStep(w) \/ Fault(w)
  \/ \E c \in Clients : BeginUpdate(c) \/ EndUpdate(c)
  \/ Tick

Spec == Init /\ [][Next]_vars

(* Workers keep calling and their awaits return, the clock runs.  Nothing  *)
(* is assumed of clients: one may stop between its read and its merge.     *)
FairSpec ==
  /\ Spec
  /\ \A w \in Workers : WF_vars(WorkerStep(w))
  /\ WF_vars(Tick)

-----------------------------------------------------------------------------
(* Types; and the two lease columns are set together, in the row and in    *)
(* the copies of it, and stay counts for workers that were given the lease *)
RebuildTypeOK ==
  /\ SettingsTypeOK
  /\ \A r \in {row} \cup {changes[c] : c \in Clients} :
       r.owner = None <=> r.expires = None
  /\ step \in [Workers -> Steps]
  /\ stay \in [Workers -> 0..MaxRebuild]
  /\ \A w \in Workers : stay[w] > 0 => step[w] \in Leased
  /\ sinceSetup \in 0..Interval
  /\ updates \in 0..MaxUpdates
  /\ faults \in 0..MaxFaults

(* "the initial rebuild waits one full interval" (indexes.rs:254): on a    *)
(* new database no rebuild begins before the interval has passed, whatever *)
(* stale copies of the row clients merge and whatever fails.               *)
InitialRebuildWaits ==
  \A w \in Workers : step[w] \in Leased => sinceSetup = Interval

(* "using a DB lock so only one maintainer rebuilds at a time"             *)
(* (indexes.rs:253): two that both are within their leases are one, as     *)
(* long as no client has updated the row.  Crashes, failures, lost replies *)
(* and rebuilds that outlasted their leases before do not matter.          *)
OneRebuildAtATime ==
  updates = 0 =>
    \A v, w \in Workers :
      /\ step[v] = "rebuilding" /\ stay[v] <= LeaseTtl
      /\ step[w] = "rebuilding" /\ stay[w] <= LeaseTtl
      => v = w

(* A client merges its copy of the row in this step *)
SomebodyMerges ==
  \E c \in Clients : /\ clientAt[c] \in {"merging", "syncing"}
                     /\ clientAt'[c] = "idle"
                     /\ row' = changes[c]

(* A worker that has the lease loses it only by ending its call, by its    *)
(* expiry, or to the merge of a stale copy: in particular never to the     *)
(* late record or release of a worker that had it before                   *)
(* (system_settings.rs:304 and :328).                                      *)
LeaseLostOnlyWhenOver ==
  [][\A w \in Workers :
       row.owner = w /\ row.expires \notin {None, -1} /\ row'.owner # w =>
         \/ step[w] \in Leased /\ step'[w] # step[w]
         \/ SomebodyMerges]_vars

(* "Runs a scheduled native REBUILD INDEX pass when due" (indexes.rs:253): *)
(* a rebuild begins only when the last recorded one is an interval ago.    *)
RebuildsOnlyWhenDue ==
  [][\A w \in Workers :
       step[w] # "rebuilding" /\ step'[w] = "rebuilding" => Due(row.checkpoint)]_vars

(* Rebuilds go on for ever: neither a crash nor a lost reply nor a merge   *)
(* that brings back an old lease blocks the schedule for good              *)
(* (system_settings.rs:284).                                               *)
RebuildsRecur == []<>(\E w \in Workers : step[w] = "recording")
=============================================================================
