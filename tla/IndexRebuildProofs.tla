------------------------- MODULE IndexRebuildProofs -------------------------
(***************************************************************************)
(* What holds of the settings row and the index rebuild for any workers,   *)
(* clients, options, interval, lease, and any bounds on rebuilds, updates  *)
(* and faults.                                                             *)
(***************************************************************************)
EXTENDS IndexRebuild, TLAPS

USE SettingsAssumption, RebuildAssumption

(* A well-formed row: typed, its two lease columns set together *)
RowOK(r) ==
  /\ r \in Rows
  /\ r.owner = None <=> r.expires = None

(* The type invariant without the set of rows it ranges over *)
TypeParts ==
  /\ RowOK(row)
  /\ \A c \in Clients : RowOK(changes[c])
  /\ clientAt \in [Clients -> {"idle", "updating", "merging", "syncing"}]
  /\ changes \in [Clients -> Rows]
  /\ patch \in [Clients -> Patches]
  /\ step \in [Workers -> Steps]
  /\ stay \in [Workers -> 0..MaxRebuild]
  /\ \A w \in Workers : stay[w] > 0 => step[w] \in Leased
  /\ sinceSetup \in 0..Interval
  /\ updates \in 0..MaxUpdates
  /\ faults \in 0..MaxFaults

LEMMA TypeInParts == RebuildTypeOK <=> TypeParts
BY DEF RebuildTypeOK, TypeParts, SettingsTypeOK, RowOK

(* Columns of an aged row *)
LEMMA AgedColumns ==
  ASSUME NEW r, RowOK(r)
  PROVE  /\ RowOK(Aged(r))
         /\ Aged(r).owner = r.owner
         /\ Aged(r).checkpoint = IF r.checkpoint \in {None, Interval}
                                   THEN r.checkpoint ELSE r.checkpoint + 1
         /\ Aged(r).expires = IF r.expires \in {None, -1}
                                THEN r.expires ELSE r.expires - 1
<1> DEFINE cp == IF r.checkpoint \in {None, Interval} THEN r.checkpoint ELSE r.checkpoint + 1
           ex == IF r.expires \in {None, -1} THEN r.expires ELSE r.expires - 1
<1>1. cp \in (0..Interval) \cup {None}
  BY DEF RowOK, Rows
<1>2. ex \in (-1..LeaseTtl) \cup {None} /\ (ex = None <=> r.expires = None)
  BY DEF RowOK, Rows
<1>3. Aged(r) = [r EXCEPT !.checkpoint = cp, !.expires = ex]
  BY DEF Aged
<1> HIDE DEF cp, ex
<1>4. Aged(r) \in Rows /\ Aged(r).owner = r.owner
      /\ Aged(r).checkpoint = cp /\ Aged(r).expires = ex
  BY <1>1, <1>2, <1>3 DEF RowOK, Rows
<1>5. RowOK(Aged(r))
  BY <1>2, <1>4 DEF RowOK
<1> QED
  BY <1>4, <1>5 DEF cp, ex

(* The statements of the rebuild on the row *)
LEMMA StatementsKeepRow ==
  ASSUME RowOK(row), NEW w \in Workers,
         SeedCheckpoint \/ TakeLease(w) \/ ReleaseLease(w) \/ RecordRebuild(w)
  PROVE  RowOK(row')
<1>1. CASE SeedCheckpoint
  BY <1>1 DEF RowOK, Rows, SeedCheckpoint
<1>2. CASE TakeLease(w)
  <2>1. LeaseTtl \in -1..LeaseTtl /\ LeaseTtl # None /\ w # None
    OBVIOUS
  <2> QED
    BY <1>2, <2>1 DEF RowOK, Rows, TakeLease
<1>3. CASE ReleaseLease(w)
  BY <1>3 DEF RowOK, Rows, ReleaseLease
<1>4. CASE RecordRebuild(w)
  <2>1. 0 \in 0..Interval
    OBVIOUS
  <2>2. CASE LeaseOwnedBy(w)
    BY <1>4, <2>1, <2>2 DEF RowOK, Rows, RecordRebuild
  <2>3. CASE ~LeaseOwnedBy(w)
    BY <1>4, <2>3 DEF RecordRebuild
  <2> QED
    BY <2>2, <2>3
<1> QED
  BY <1>1, <1>2, <1>3, <1>4

(* An edited copy *)
LEMMA ApplyToColumns ==
  ASSUME NEW r, RowOK(r), NEW p \in Patches
  PROVE  /\ RowOK(ApplyTo(p, r))
         /\ ApplyTo(p, r).checkpoint = r.checkpoint
BY DEF ApplyTo, RowOK, Rows, Patches

LEMMA SyncColumns ==
  ASSUME NEW r, RowOK(r), NEW v \in Values, NEW s,
         s = [r EXCEPT !.backend = v, !.options[EmbeddingField] = v]
  PROVE  RowOK(s) /\ s.checkpoint = r.checkpoint
BY DEF RowOK, Rows

LEMMA BackendColumns ==
  ASSUME NEW r, RowOK(r), NEW v \in Values, NEW s, s = [r EXCEPT !.backend = v]
  PROVE  RowOK(s) /\ s.checkpoint = r.checkpoint
BY DEF RowOK, Rows

LEMMA NoPatchIsPatch ==
  /\ NoPatch \in Patches
  /\ \A v \in Values : [NoPatch EXCEPT ![EmbeddingField] = v] \in Patches
BY DEF NoPatch, Patches

-----------------------------------------------------------------------------
(* A step of a worker, faults included, on the parts of the type *)
LEMMA WorkerType ==
  ASSUME TypeParts, NEW w \in Workers, WorkerStep(w) \/ Fault(w)
  PROVE  TypeParts'
<1>1. RowOK(row')
  BY StatementsKeepRow
     DEF TypeParts, WorkerStep, Fault, Look, Seed, Acquire, RebuildDone, Record, Release,
         RebuildFails, StatementFails, ReplyLost, Crash
<1>2. UNCHANGED clientVars /\ UNCHANGED <<sinceSetup, updates>>
  BY DEF WorkerStep, Fault, Look, Seed, Acquire, RebuildDone, Record, Release,
         RebuildFails, StatementFails, ReplyLost, Crash, Quiet
<1>3. faults' \in 0..MaxFaults
  BY DEF TypeParts, WorkerStep, Fault, Look, Seed, Acquire, RebuildDone, Record, Release,
         RebuildFails, StatementFails, ReplyLost, Crash, OneMoreFault
<1>4. \/ Return(w)
      \/ \E s \in Leased : GoTo(w, s)
      \/ stay[w] = 0 /\ \E s \in Steps : GoTo(w, s)
  BY DEF TypeParts, WorkerStep, Fault, Look, Seed, Acquire, RebuildDone, Record, Release,
         RebuildFails, StatementFails, ReplyLost, Crash, Steps, Leased
<1>5. /\ step' \in [Workers -> Steps]
      /\ stay' \in [Workers -> 0..MaxRebuild]
      /\ \A v \in Workers : stay'[v] > 0 => step'[v] \in Leased
  BY <1>4 DEF TypeParts, Return, GoTo, Steps, Leased
<1> QED
  BY <1>1, <1>2, <1>3, <1>5 DEF TypeParts, clientVars

LEMMA ClientType ==
  ASSUME TypeParts, NEW c \in Clients, BeginUpdate(c) \/ EndUpdate(c)
  PROVE  TypeParts'
<1>0. UNCHANGED <<step, stay, sinceSetup, faults>> /\ updates' \in 0..MaxUpdates
  BY DEF TypeParts, BeginUpdate, EndUpdate, rebuildVars
<1>1. CASE ReadForPatch(c)
  <2>1. PICK p \in Patches : /\ patch' = [patch EXCEPT ![c] = p]
                             /\ changes' = [changes EXCEPT ![c] = ApplyTo(p, row)]
    BY <1>1 DEF ReadForPatch
  <2>2. RowOK(ApplyTo(p, row))
    BY ApplyToColumns DEF TypeParts
  <2> QED
    BY <1>0, <1>1, <2>1, <2>2 DEF TypeParts, ReadForPatch, RowOK
<1>2. CASE ReadForSync(c)
  <2>1. PICK v \in Values :
          /\ patch' = [patch EXCEPT ![c] = [NoPatch EXCEPT ![EmbeddingField] = v]]
          /\ changes' = [changes EXCEPT ![c] =
               [row EXCEPT !.backend = v, !.options[EmbeddingField] = v]]
    BY <1>2 DEF ReadForSync
  <2>2. RowOK([row EXCEPT !.backend = v, !.options[EmbeddingField] = v])
    BY SyncColumns DEF TypeParts
  <2>3. [NoPatch EXCEPT ![EmbeddingField] = v] \in Patches
    BY NoPatchIsPatch
  <2> QED
    BY <1>0, <1>2, <2>1, <2>2, <2>3 DEF TypeParts, ReadForSync, RowOK
<1>3. CASE KeepBackend(c)
  <2>1. RowOK([changes[c] EXCEPT !.backend = row.backend])
    BY BackendColumns DEF TypeParts, RowOK, Rows
  <2>2. changes' = [changes EXCEPT ![c] = [changes[c] EXCEPT !.backend = row.backend]]
    BY <1>3 DEF KeepBackend, TypeParts
  <2> QED
    BY <1>0, <1>3, <2>1, <2>2 DEF TypeParts, KeepBackend, RowOK
<1>4. CASE Merge(c) \/ GiveUp(c)
  BY <1>0, <1>4, NoPatchIsPatch DEF TypeParts, Merge, GiveUp, EndClient, RowOK
<1> QED
  BY <1>1, <1>2, <1>3, <1>4
     DEF BeginUpdate, EndUpdate, StartClient, ContinueClient

LEMMA TickTypeParts ==
  ASSUME TypeParts, Tick PROVE TypeParts'
<1>1. RowOK(row') /\ \A c \in Clients : RowOK(changes'[c])
  BY AgedColumns DEF TypeParts, Tick, AgeSettings
<1>2. changes' \in [Clients -> Rows]
  BY <1>1 DEF Tick, AgeSettings, RowOK
<1>3. /\ stay' \in [Workers -> 0..MaxRebuild]
      /\ \A w \in Workers : stay'[w] > 0 => step[w] \in Leased
  BY DEF TypeParts, Tick
<1>4. sinceSetup' \in 0..Interval
  BY DEF TypeParts, Tick
<1> QED
  BY <1>1, <1>2, <1>3, <1>4 DEF TypeParts, Tick, AgeSettings

(* The row and every copy of it stay well-formed, in particular their two  *)
(* lease columns stay together, whatever is merged over what.              *)
THEOREM RebuildTypeCorrect == Spec => []RebuildTypeOK
<1>1. Init => TypeParts
  BY DEF Init, InitSettings, TypeParts, RowOK, NoPatch, Patches, Steps, Leased
<1>2. TypeParts /\ [Next]_vars => TypeParts'
  <2> SUFFICES ASSUME TypeParts, [Next]_vars PROVE TypeParts'
    OBVIOUS
  <2>1. CASE UNCHANGED vars
    BY <2>1 DEF TypeParts, RowOK, vars, settingsVars, clientVars, rebuildVars
  <2>2. CASE \E w \in Workers : WorkerStep(w) \/ Fault(w)
    BY <2>2, WorkerType
  <2>3. CASE \E c \in Clients : BeginUpdate(c) \/ EndUpdate(c)
    BY <2>3, ClientType
  <2>4. CASE Tick
    BY <2>4, TickTypeParts
  <2> QED
    BY <2>1, <2>2, <2>3, <2>4 DEF Next
<1>3. TypeParts => RebuildTypeOK
  BY TypeInParts
<1> QED
  BY <1>1, <1>2, <1>3, PTL DEF Spec

-----------------------------------------------------------------------------
(* No checkpoint, in the row or in a copy, is older than the database, and *)
(* whoever found a rebuild due found an old checkpoint.                    *)
NoOlderThanSetup ==
  /\ \A r \in {row} \cup {changes[c] : c \in Clients} :
       r.checkpoint # None => r.checkpoint <= sinceSetup
  /\ \A w \in Workers :
       step[w] \in Leased \cup {"acquiring"} => sinceSetup = Interval

LEMMA WorkerSetup ==
  ASSUME TypeParts, NoOlderThanSetup, NEW w \in Workers, WorkerStep(w) \/ Fault(w)
  PROVE  NoOlderThanSetup'
<1>1. UNCHANGED <<changes, sinceSetup>>
  BY DEF WorkerStep, Fault, Look, Seed, Acquire, RebuildDone, Record, Release,
         RebuildFails, StatementFails, ReplyLost, Crash, Quiet, clientVars
<1>2. row'.checkpoint \in {row.checkpoint, 0}
  <2>1. row' = row \/ SeedCheckpoint \/ TakeLease(w) \/ ReleaseLease(w) \/ RecordRebuild(w)
    BY DEF WorkerStep, Fault, Look, Seed, Acquire, RebuildDone, Record, Release,
           RebuildFails, StatementFails, ReplyLost, Crash
  <2> QED
    BY <2>1 DEF TypeParts, RowOK, Rows, SeedCheckpoint, TakeLease, ReleaseLease, RecordRebuild
<1>3. \A v \in Workers :
        step'[v] \in Leased \cup {"acquiring"} => sinceSetup = Interval
  <2>1. CASE Look(w)
    <3>1. CASE GoTo(w, "seeding")
      BY <3>1 DEF TypeParts, NoOlderThanSetup, GoTo, Leased
    <3>2. CASE Due(row.checkpoint)
      BY <3>2 DEF TypeParts, NoOlderThanSetup, Due
    <3> QED
      BY <2>1, <3>1, <3>2 DEF Look
  <2>2. CASE ~Look(w)
    <3>1. \/ Return(w)
          \/ step[w] \in Leased \cup {"acquiring"} /\ \E s \in Steps : GoTo(w, s)
      BY <2>2 DEF WorkerStep, Fault, Seed, Acquire, RebuildDone, Record, Release,
                  RebuildFails, StatementFails, ReplyLost, Crash, Steps, Leased
    <3> QED
      BY <3>1 DEF TypeParts, NoOlderThanSetup, Return, GoTo, Leased
  <2> QED
    BY <2>1, <2>2
<1> QED
  BY <1>1, <1>2, <1>3 DEF TypeParts, NoOlderThanSetup

LEMMA ClientSetup ==
  ASSUME TypeParts, NoOlderThanSetup, NEW c \in Clients, BeginUpdate(c) \/ EndUpdate(c)
  PROVE  NoOlderThanSetup'
<1>1. UNCHANGED <<step, sinceSetup>>
  BY DEF BeginUpdate, EndUpdate, rebuildVars
<1>2. row'.checkpoint \in {row.checkpoint, changes[c].checkpoint}
  BY DEF BeginUpdate, EndUpdate, StartClient, ContinueClient, ReadForPatch, ReadForSync,
         KeepBackend, Merge, GiveUp
<1>3. \A d \in Clients : changes'[d].checkpoint \in {row.checkpoint, changes[d].checkpoint}
  <2>1. CASE ReadForPatch(c)
    BY <2>1, ApplyToColumns DEF TypeParts, ReadForPatch
  <2>2. CASE ReadForSync(c)
    <3>1. PICK v \in Values :
            changes' = [changes EXCEPT ![c] =
              [row EXCEPT !.backend = v, !.options[EmbeddingField] = v]]
      BY <2>2 DEF ReadForSync
    <3>2. [row EXCEPT !.backend = v, !.options[EmbeddingField] = v].checkpoint
            = row.checkpoint
      BY SyncColumns DEF TypeParts
    <3> QED
      BY <3>1, <3>2 DEF TypeParts
  <2>3. CASE KeepBackend(c)
    BY <2>3 DEF TypeParts, KeepBackend, Rows
  <2>4. CASE Merge(c) \/ GiveUp(c)
    BY <2>4 DEF Merge, GiveUp
  <2> QED
    BY <2>1, <2>2, <2>3, <2>4 DEF BeginUpdate, EndUpdate, StartClient, ContinueClient
<1> QED
  BY <1>1, <1>2, <1>3 DEF NoOlderThanSetup

LEMMA TickSetup ==
  ASSUME TypeParts, NoOlderThanSetup, Tick PROVE NoOlderThanSetup'
<1>1. ASSUME NEW r, RowOK(r), r.checkpoint # None => r.checkpoint <= sinceSetup
      PROVE  /\ Aged(r).checkpoint # None => Aged(r).checkpoint <= sinceSetup'
             /\ r.checkpoint # None => r.checkpoint <= sinceSetup'
  <2>1. r.checkpoint \in (0..Interval) \cup {None}
    BY <1>1 DEF RowOK, Rows
  <2>2. Aged(r).checkpoint = IF r.checkpoint \in {None, Interval}
                               THEN r.checkpoint ELSE r.checkpoint + 1
    BY <1>1, AgedColumns
  <2>3. sinceSetup \in 0..Interval /\ sinceSetup' \in 0..Interval
        /\ sinceSetup' = IF sinceSetup = Interval THEN Interval ELSE sinceSetup + 1
    BY DEF TypeParts, Tick
  <2> QED
    BY <1>1, <2>1, <2>2, <2>3
<1>2. row'.checkpoint # None => row'.checkpoint <= sinceSetup'
  BY <1>1 DEF TypeParts, NoOlderThanSetup, Tick, AgeSettings
<1>3. \A c \in Clients : changes'[c].checkpoint # None => changes'[c].checkpoint <= sinceSetup'
  BY <1>1 DEF TypeParts, NoOlderThanSetup, Tick, AgeSettings
<1>4. \A w \in Workers : step'[w] \in Leased \cup {"acquiring"} => sinceSetup' = Interval
  BY DEF NoOlderThanSetup, Tick
<1> QED
  BY <1>2, <1>3, <1>4 DEF NoOlderThanSetup

(* The first rebuild waits for an interval after the database was set up,  *)
(* although stale copies of the row may take back the seeded checkpoint.   *)
THEOREM FirstRebuildWaits == Spec => []InitialRebuildWaits
<1>1. Init => NoOlderThanSetup
  BY DEF Init, InitSettings, NoOlderThanSetup, Leased
<1>2. TypeParts /\ NoOlderThanSetup /\ [Next]_vars => NoOlderThanSetup'
  <2> SUFFICES ASSUME TypeParts, NoOlderThanSetup, [Next]_vars PROVE NoOlderThanSetup'
    OBVIOUS
  <2>1. CASE UNCHANGED vars
    BY <2>1 DEF NoOlderThanSetup, vars, settingsVars, clientVars, rebuildVars
  <2>2. CASE \E w \in Workers : WorkerStep(w) \/ Fault(w)
    BY <2>2, WorkerSetup
  <2>3. CASE \E c \in Clients : BeginUpdate(c) \/ EndUpdate(c)
    BY <2>3, ClientSetup
  <2>4. CASE Tick
    BY <2>4, TickSetup
  <2> QED
    BY <2>1, <2>2, <2>3, <2>4 DEF Next
<1>3. NoOlderThanSetup => InitialRebuildWaits
  BY DEF NoOlderThanSetup, InitialRebuildWaits
<1>4. Spec => []TypeParts
  BY RebuildTypeCorrect, TypeInParts, PTL
<1> QED
  BY <1>1, <1>2, <1>3, <1>4, PTL DEF Spec

-----------------------------------------------------------------------------
(* A lease that has not run out is taken from its owner by nobody else's   *)
(* statement: not by an acquisition, and not by the late record or release *)
(* of a worker that had the lease earlier.  Only merges can.               *)
THEOREM LeaseIsKept == Spec => LeaseLostOnlyWhenOver
<1> DEFINE Kept == \A w \in Workers :
             row.owner = w /\ row.expires \notin {None, -1} /\ row'.owner # w =>
               \/ step[w] \in Leased /\ step'[w] # step[w]
               \/ SomebodyMerges
<1>1. TypeParts /\ [Next]_vars => Kept
  <2> SUFFICES ASSUME TypeParts, [Next]_vars, NEW w \in Workers,
                      row.owner = w, row.expires \notin {None, -1}, row'.owner # w
               PROVE  \/ step[w] \in Leased /\ step'[w] # step[w]
                      \/ SomebodyMerges
    OBVIOUS
  <2>0. row' # row
    OBVIOUS
  <2>1. CASE UNCHANGED vars
    BY <2>0, <2>1 DEF vars, settingsVars
  <2>2. ASSUME NEW v \in Workers, WorkerStep(v) \/ Fault(v)
        PROVE  step[w] \in Leased /\ step'[w] # step[w]
    <3>1. ~SeedCheckpoint /\ ~TakeLease(v)
      BY DEF TypeParts, RowOK, Rows, SeedCheckpoint, TakeLease, LeaseFree
    <3>2. \/ step[v] = "releasing" /\ ReleaseLease(v) /\ Return(v)
          \/ step[v] = "recording" /\ RecordRebuild(v) /\ (Return(v) \/ GoTo(v, "releasing"))
      BY <2>0, <2>2, <3>1
         DEF WorkerStep, Fault, Look, Seed, Acquire, RebuildDone, Record, Release,
             RebuildFails, StatementFails, ReplyLost, Crash
    <3>3. v = w
      BY <2>0, <3>2 DEF ReleaseLease, RecordRebuild, LeaseOwnedBy
    <3> QED
      BY <3>2, <3>3 DEF TypeParts, Return, GoTo, Leased
  <2>3. ASSUME NEW c \in Clients, BeginUpdate(c) \/ EndUpdate(c)
        PROVE  SomebodyMerges
    BY <2>0, <2>3
       DEF TypeParts, BeginUpdate, EndUpdate, StartClient, ContinueClient, ReadForPatch,
           ReadForSync, KeepBackend, Merge, GiveUp, EndClient, SomebodyMerges
  <2>4. CASE Tick
    BY <2>4, AgedColumns DEF TypeParts, Tick, AgeSettings
  <2> QED
    BY <2>1, <2>2, <2>3, <2>4 DEF Next
<1>2. Kept => [\A w \in Workers :
                 row.owner = w /\ row.expires \notin {None, -1} /\ row'.owner # w =>
                   \/ step[w] \in Leased /\ step'[w] # step[w]
                   \/ SomebodyMerges]_vars
  OBVIOUS
<1>3. Spec => []TypeParts
  BY RebuildTypeCorrect, TypeInParts, PTL
<1> HIDE DEF Kept
<1> QED
  BY <1>1, <1>2, <1>3, PTL DEF Spec, LeaseLostOnlyWhenOver

-----------------------------------------------------------------------------
(* A worker that rebuilds and may still have the lease *)
Rebuilds(w) == step[w] \in {"rebuilding", "recording"} /\ stay[w] <= LeaseTtl

(* As long as no client has begun an update, a worker that rebuilds within *)
(* its lease has the lease, as old as its stay.                            *)
LeaseBelongsToRebuilder ==
  updates = 0 =>
    /\ \A c \in Clients : clientAt[c] = "idle"
    /\ \A w \in Workers :
         Rebuilds(w) => row.owner = w /\ row.expires = LeaseTtl - stay[w]

(* The lease of a rebuilder is not up for the taking. *)
LEMMA RebuilderBlocks ==
  ASSUME TypeParts, LeaseBelongsToRebuilder, updates = 0, NEW w \in Workers, Rebuilds(w)
  PROVE  ~LeaseFree
BY DEF TypeParts, LeaseBelongsToRebuilder, LeaseFree, Rebuilds

LEMMA WorkerLease ==
  ASSUME TypeParts, LeaseBelongsToRebuilder, NEW w \in Workers, WorkerStep(w) \/ Fault(w)
  PROVE  LeaseBelongsToRebuilder'
<1>0. UNCHANGED <<clientAt, updates>>
  BY DEF WorkerStep, Fault, Look, Seed, Acquire, RebuildDone, Record, Release,
         RebuildFails, StatementFails, ReplyLost, Crash, Quiet, clientVars
<1> SUFFICES ASSUME updates = 0, NEW v \in Workers, Rebuilds(v)'
             PROVE  row'.owner = v /\ row'.expires = LeaseTtl - stay'[v]
  BY <1>0 DEF LeaseBelongsToRebuilder
<1>1. step'[v] \in {"rebuilding", "recording"} /\ stay'[v] <= LeaseTtl
  BY DEF Rebuilds
<1>2. CASE v = w
  <2>1. \/ TakeLease(w) /\ step[w] = "acquiring" /\ GoTo(w, "rebuilding")
        \/ RebuildDone(w)
    BY <1>1, <1>2
       DEF TypeParts, WorkerStep, Fault, Look, Seed, Acquire, Record, Release,
           RebuildFails, StatementFails, ReplyLost, Crash, Return, GoTo
  <2>2. CASE TakeLease(w) /\ step[w] = "acquiring" /\ GoTo(w, "rebuilding")
    <3>1. stay'[w] = 0
      BY <2>2 DEF TypeParts, GoTo, Leased
    <3> QED
      BY <1>2, <2>2, <3>1 DEF TypeParts, RowOK, Rows, TakeLease
  <2>3. CASE RebuildDone(w)
    BY <1>1, <1>2, <2>3
       DEF TypeParts, LeaseBelongsToRebuilder, Rebuilds, RebuildDone, GoTo
  <2> QED
    BY <2>1, <2>2, <2>3
<1>3. CASE v # w
  <2>1. step'[v] = step[v] /\ stay'[v] = stay[v]
    BY <1>3 DEF TypeParts, WorkerStep, Fault, Look, Seed, Acquire, RebuildDone, Record,
                Release, RebuildFails, StatementFails, ReplyLost, Crash, Return, GoTo
  <2>2. Rebuilds(v)
    BY <1>1, <2>1 DEF Rebuilds
  <2>3. row.owner = v /\ row.expires = LeaseTtl - stay[v] /\ ~LeaseFree
    BY <2>2, RebuilderBlocks DEF LeaseBelongsToRebuilder
  <2>4. row' = row \/ SeedCheckpoint \/ ReleaseLease(w) \/ RecordRebuild(w)
    BY <2>3 DEF WorkerStep, Fault, Look, Seed, Acquire, RebuildDone, Record, Release,
                RebuildFails, StatementFails, ReplyLost, Crash, TakeLease
  <2>5. row'.owner = row.owner /\ row'.expires = row.expires
    BY <1>3, <2>3, <2>4
       DEF TypeParts, RowOK, Rows, SeedCheckpoint, ReleaseLease, RecordRebuild, LeaseOwnedBy
  <2> QED
    BY <2>1, <2>3, <2>5
<1> QED
  BY <1>2, <1>3

LEMMA ClientLease ==
  ASSUME TypeParts, LeaseBelongsToRebuilder, NEW c \in Clients, BeginUpdate(c) \/ EndUpdate(c)
  PROVE  LeaseBelongsToRebuilder'
<1>1. CASE BeginUpdate(c)
  BY <1>1 DEF TypeParts, BeginUpdate, LeaseBelongsToRebuilder
<1>2. CASE EndUpdate(c)
  <2>1. updates # 0
    BY <1>2 DEF LeaseBelongsToRebuilder, EndUpdate, ContinueClient, KeepBackend, Merge, GiveUp
  <2> QED
    BY <1>2, <2>1 DEF EndUpdate, LeaseBelongsToRebuilder
<1> QED
  BY <1>1, <1>2

LEMMA TickLease ==
  ASSUME TypeParts, LeaseBelongsToRebuilder, Tick
  PROVE  LeaseBelongsToRebuilder'
<1>1. UNCHANGED <<clientAt, updates>>
  BY DEF Tick, AgeSettings
<1>2. ASSUME updates = 0, NEW w \in Workers, Rebuilds(w)'
      PROVE  row'.owner = w /\ row'.expires = LeaseTtl - stay'[w]
  <2>1. /\ step[w] \in {"rebuilding", "recording"}
        /\ stay[w] \in Nat /\ stay[w] < LeaseTtl /\ stay'[w] = stay[w] + 1
    BY <1>2 DEF TypeParts, Tick, Leased, Rebuilds
  <2>2. row.owner = w /\ row.expires = LeaseTtl - stay[w]
    BY <1>2, <2>1 DEF LeaseBelongsToRebuilder, Rebuilds
  <2>3. row.expires \notin {None, -1}
    BY <2>1, <2>2
  <2>4. row'.owner = row.owner /\ row'.expires = row.expires - 1
    BY <2>3, AgedColumns DEF TypeParts, Tick, AgeSettings
  <2> QED
    BY <2>1, <2>2, <2>4
<1> QED
  BY <1>1, <1>2 DEF LeaseBelongsToRebuilder

(* Until a client updates the row, maintainers within their leases rebuild *)
(* one at a time, whatever crashes, fails, or has outlasted its lease.     *)
THEOREM MaintainersAreExclusive == Spec => []OneRebuildAtATime
<1>1. Init => LeaseBelongsToRebuilder
  BY DEF Init, InitSettings, LeaseBelongsToRebuilder, Rebuilds
<1>2. TypeParts /\ LeaseBelongsToRebuilder /\ [Next]_vars => LeaseBelongsToRebuilder'
  <2> SUFFICES ASSUME TypeParts, LeaseBelongsToRebuilder, [Next]_vars
               PROVE  LeaseBelongsToRebuilder'
    OBVIOUS
  <2>1. CASE UNCHANGED vars
    BY <2>1 DEF LeaseBelongsToRebuilder, Rebuilds, vars, settingsVars, clientVars, rebuildVars
  <2>2. CASE \E w \in Workers : WorkerStep(w) \/ Fault(w)
    BY <2>2, WorkerLease
  <2>3. CASE \E c \in Clients : BeginUpdate(c) \/ EndUpdate(c)
    BY <2>3, ClientLease
  <2>4. CASE Tick
    BY <2>4, TickLease
  <2> QED
    BY <2>1, <2>2, <2>3, <2>4 DEF Next
<1>3. LeaseBelongsToRebuilder => OneRebuildAtATime
  BY DEF LeaseBelongsToRebuilder, OneRebuildAtATime, Rebuilds
<1>4. Spec => []TypeParts
  BY RebuildTypeCorrect, TypeInParts, PTL
<1> QED
  BY <1>1, <1>2, <1>3, <1>4, PTL DEF Spec
=============================================================================
