----------------------------- MODULE RetrievalProofs -----------------------------
(***************************************************************************)
(* Proofs about EmbeddingRuntime and EnginePools, for any number of        *)
(* processes, rows and models, and of engines, calls and callers who go    *)
(* away.                                                                   *)
(*                                                                         *)
(* First the record maintenance_lock:reembed: it is a mutex as long as no  *)
(* process dies and no statement fails.  Whoever is past its CREATE is the *)
(* one it names, and whoever it names is past its CREATE, so that its time *)
(* never runs out.  Then the vectors: that a row loses its own only to a   *)
(* re-embedding is an invariant by itself (LostInv); that starts one after *)
(* the other leave one space needs the mutex, what each process has in     *)
(* hand (HandsInv) and how far a re-embedding has come (SpaceInv).  Last   *)
(* the pools: engines are lent once because an engine is idle or one       *)
(* call's, and a permit finds one because permits are counted (PoolsInv).  *)
(***************************************************************************)
EXTENDS EmbeddingRuntime, EnginePools, FiniteSetTheorems, SequenceTheorems, TLAPS

Held == {"recheck", "select", "redefine", "remove", "clear", "write", "release"}

Outside == {"down", "sync", "inspect", "reap", "lock", "ensure", "serving"}

MutexInv ==
  /\ step \in [Processes -> Held \cup Outside]
  /\ mishaps \in Nat
  /\ mishaps = 0 =>
       /\ ~expired
       /\ \A p \in Processes : step[p] \in Held => lock = p
       /\ lock # Gone => lock \in Processes /\ step[lock] \in Held

(* Neither the lock nor the count of what has failed changes *)
LockStays == lock' = lock /\ expired' = expired /\ mishaps' = mishaps
USE DEF LockStays

(* A process that moves inside or outside the critical section, with the    *)
(* lock as it is, keeps the mutex                                           *)
LEMMA MoveKeepsMutex ==
  ASSUME MutexInv, NEW p \in Processes, NEW s \in Held \cup Outside,
         s \in Held <=> step[p] \in Held,
         step' = [step EXCEPT ![p] = s], LockStays
  PROVE  MutexInv'
<1>1. step' \in [Processes -> Held \cup Outside] /\ mishaps' \in Nat
  BY DEF MutexInv
<1>2. \A q \in Processes : step'[q] \in Held <=> step[q] \in Held
  BY DEF MutexInv
<1> QED
  BY <1>1, <1>2 DEF MutexInv

(* Nothing is claimed of a behaviour in which something has failed *)
LEMMA MishapKeepsMutex ==
  ASSUME MutexInv, step' \in [Processes -> Held \cup Outside], mishaps' = mishaps + 1
  PROVE  MutexInv'
BY DEF MutexInv

(* A process that goes down ends up outside *)
LEMMA DownIsOutside ==
  ASSUME NEW p \in Processes, GoDown(p)
  PROVE  step' = [step EXCEPT ![p] = "down"]
BY DEF GoDown, StepTo

LEMMA StillKeepsMutex ==
  ASSUME MutexInv, step' = step, LockStays
  PROVE  MutexInv'
BY DEF MutexInv

LEMMA MutexInit == ASSUME RuntimeInit PROVE MutexInv
BY DEF RuntimeInit, MutexInv, Held, Outside

-----------------------------------------------------------------------------
(* The steps before the lock *)
LEMMA StepsBeforeTheLock ==
  ASSUME MutexInv, NEW p \in Processes,
         StartProcess(p) \/ SyncSettings(p) \/ InspectIndex(p) \/ ReapLock(p)
  PROVE  MutexInv'
<1>1. CASE StartProcess(p)
  <2>1. step' = [step EXCEPT ![p] = "sync"] /\ LockStays /\ step[p] = "down"
    BY <1>1 DEF StartProcess, StepTo, lockVars
  <2> QED BY <2>1, MoveKeepsMutex DEF Held, Outside
<1>2. CASE SyncSettings(p)
  <2>1. step' = [step EXCEPT ![p] = "inspect"] /\ LockStays /\ step[p] = "sync"
    BY <1>2 DEF SyncSettings, StepTo, lockVars, boundVars
  <2> QED BY <2>1, MoveKeepsMutex DEF Held, Outside
<1>3. CASE InspectIndex(p)
  <2>1. /\ step' = [step EXCEPT ![p] = "reap"] \/ step' = [step EXCEPT ![p] = "ensure"]
        /\ LockStays /\ step[p] = "inspect"
    BY <1>3 DEF InspectIndex, StepTo, lockVars, boundVars
  <2> QED BY <2>1, MoveKeepsMutex DEF Held, Outside
<1>4. CASE ReapLock(p)
  <2>1. step' = [step EXCEPT ![p] = "lock"] /\ mishaps' = mishaps /\ step[p] = "reap"
    BY <1>4 DEF ReapLock, StepTo, boundVars
  <2>2. CASE ~expired
    <3>1. lock' = lock /\ expired' = expired
      BY <1>4, <2>2 DEF ReapLock, lockVars
    <3> QED BY <2>1, <3>1, MoveKeepsMutex DEF Held, Outside
  <2>3. CASE expired
    <3>1. mishaps # 0 BY <2>3 DEF MutexInv
    <3>2. step' \in [Processes -> Held \cup Outside]
      BY <2>1 DEF MutexInv, Outside
    <3> QED BY <2>1, <3>1, <3>2 DEF MutexInv
  <2> QED BY <2>2, <2>3
<1> QED BY <1>1, <1>2, <1>3, <1>4

(* The CREATE of the record: it succeeds only where there is none, so that  *)
(* nobody is inside                                                        *)
LEMMA CreatingTheLock ==
  ASSUME MutexInv, NEW p \in Processes, CreateLock(p)
  PROVE  MutexInv'
<1>1. step[p] = "lock" /\ expired' = expired
  BY DEF CreateLock
<1>2. CASE /\ lock = Gone /\ lock' = p
           /\ step' = [step EXCEPT ![p] = "recheck"] /\ mishaps' = mishaps
  <2>1. step' \in [Processes -> Held \cup Outside] /\ mishaps' \in Nat
    BY <1>2 DEF MutexInv, Held
  <2>2. step'[p] = "recheck" /\ \A q \in Processes \ {p} : step'[q] = step[q]
    BY <1>2 DEF MutexInv
  <2>3. ASSUME mishaps = 0, NEW q \in Processes \ {p} PROVE step[q] \notin Held
    <3>1. step[q] \in Held => lock = q BY <2>3 DEF MutexInv
    <3> QED BY <1>2, <3>1, RuntimeAssumption
  <2> QED BY <1>1, <1>2, <2>1, <2>2, <2>3 DEF MutexInv, Outside
<1>3. CASE step' = [step EXCEPT ![p] = "ensure"] /\ lock' = lock /\ mishaps' = mishaps
  BY <1>1, <1>3, MoveKeepsMutex DEF Held, Outside
<1>4. CASE step' = [step EXCEPT ![p] = "ensure"] /\ mishaps' = mishaps + 1
  <2>1. step' \in [Processes -> Held \cup Outside] BY <1>4 DEF MutexInv, Outside
  <2> QED BY <1>4, <2>1, MishapKeepsMutex
<1> QED BY <1>2, <1>3, <1>4 DEF CreateLock, StepTo, Mishap

-----------------------------------------------------------------------------
(* The steps of a re-embedding stay inside *)
LEMMA StepsUnderTheLock ==
  ASSUME MutexInv, NEW p \in Processes,
         \/ RecheckIndex(p) \/ SelectRows(p) \/ RedefineIndex(p)
         \/ RemoveIndex(p) \/ ClearVectors(p) \/ WriteVectors(p)
  PROVE  MutexInv'
<1> DEFINE Inside(s) == /\ step' = [step EXCEPT ![p] = s] /\ step[p] \in Held
                        /\ lock' = lock /\ expired' = expired
<1>1. ASSUME NEW s \in Held, Inside(s), mishaps' = mishaps PROVE MutexInv'
  BY <1>1, MoveKeepsMutex
<1>2. ASSUME NEW s \in Held, Inside(s), mishaps' = mishaps + 1 PROVE MutexInv'
  <2>1. step' \in [Processes -> Held \cup Outside] BY <1>2 DEF MutexInv
  <2> QED BY <1>2, <2>1, MishapKeepsMutex
<1>3. CASE RecheckIndex(p)
  <2>1. \E s \in Held : Inside(s) /\ mishaps' = mishaps
    BY <1>3 DEF RecheckIndex, StepTo, lockVars, boundVars, Held
  <2> QED BY <2>1, <1>1
<1>4. CASE SelectRows(p)
  <2>1. \E s \in Held : Inside(s) /\ (mishaps' = mishaps \/ mishaps' = mishaps + 1)
    BY <1>4 DEF SelectRows, StepTo, lockVars, Mishap, TableFails, Held
  <2> QED BY <2>1, <1>1, <1>2
<1>5. CASE RedefineIndex(p)
  <2>1. \E s \in Held : Inside(s) /\ mishaps' = mishaps
    BY <1>5 DEF RedefineIndex, StepTo, lockVars, TableDone, TableFails,
       boundVars, Held
  <2> QED BY <2>1, <1>1
<1>6. CASE RemoveIndex(p)
  <2>1. \E s \in Held : Inside(s) /\ mishaps' = mishaps
    BY <1>6 DEF RemoveIndex, StepTo, lockVars, TableFails, boundVars, Held
  <2> QED BY <2>1, <1>1
<1>7. CASE ClearVectors(p)
  <2>1. \E s \in Held : Inside(s) /\ mishaps' = mishaps
    BY <1>7 DEF ClearVectors, StepTo, lockVars, boundVars, Held
  <2> QED BY <2>1, <1>1
<1>8. CASE WriteVectors(p)
  <2>1. \E s \in Held : Inside(s) /\ (mishaps' = mishaps \/ mishaps' = mishaps + 1)
    BY <1>8 DEF WriteVectors, StepTo, lockVars, Mishap, TableDone, TableFails,
       Held
  <2> QED BY <2>1, <1>1, <1>2
<1> QED BY <1>3, <1>4, <1>5, <1>6, <1>7, <1>8

(* The DELETE of the record by the process it names *)
LEMMA ReleasingTheLock ==
  ASSUME MutexInv, NEW p \in Processes, ReleaseLock(p)
  PROVE  MutexInv'
<1>1. /\ step[p] = "release"
      /\ step' = [step EXCEPT ![p] = "down"] \/ step' = [step EXCEPT ![p] = "ensure"]
  BY DownIsOutside DEF ReleaseLock, StepTo
<1>2. step' \in [Processes -> Held \cup Outside]
  BY <1>1 DEF MutexInv, Outside
<1>3. CASE mishaps' = mishaps + 1
  BY <1>2, <1>3, MishapKeepsMutex
<1>4. CASE mishaps' = mishaps /\ mishaps = 0
  <2>1. lock = p /\ \A q \in Processes \ {p} : step[q] \notin Held
    BY <1>1, <1>4 DEF MutexInv, Outside
  <2>2. lock' = Gone /\ expired' = FALSE
    BY <1>4, <2>1 DEF ReleaseLock, Mishap
  <2>3. \A q \in Processes : step'[q] \notin Held
    BY <1>1, <2>1 DEF MutexInv, Held
  <2> QED BY <1>2, <1>4, <2>2, <2>3 DEF MutexInv
<1>5. CASE mishaps' = mishaps /\ mishaps # 0
  BY <1>2, <1>5 DEF MutexInv
<1> QED BY <1>3, <1>4, <1>5 DEF ReleaseLock, Mishap

-----------------------------------------------------------------------------
(* The steps after it, and those of a serving process *)
LEMMA StepsOutsideTheLock ==
  ASSUME MutexInv, NEW p \in Processes, NEW t \in Tables,
         \/ LookAtIndex(p, t) \/ DefineIndex(p, t) \/ PollIndex(p, t) \/ BeginServing(p)
         \/ CheckDimension(p) \/ WriteRow(p) \/ DeleteRow(p) \/ StopProcess(p)
  PROVE  MutexInv'
<1>1. CASE \/ LookAtIndex(p, t) \/ DefineIndex(p, t)
           \/ CheckDimension(p) \/ WriteRow(p) \/ DeleteRow(p)
  <2>1. step' = step /\ LockStays
    BY <1>1 DEF LookAtIndex, lockVars, DefineIndex, CheckDimension, WriteRow,
       DeleteRow, boundVars, runVars
  <2> QED BY <2>1, StillKeepsMutex
<1>2. CASE PollIndex(p, t)
  <2>1. /\ LockStays /\ step[p] = "ensure"
        /\ step' = step \/ step' = [step EXCEPT ![p] = "down"]
    BY <1>2, DownIsOutside DEF PollIndex, lockVars, boundVars
  <2> QED BY <2>1, MoveKeepsMutex, StillKeepsMutex DEF Held, Outside
<1>3. CASE BeginServing(p)
  <2>1. step' = [step EXCEPT ![p] = "serving"] /\ LockStays /\ step[p] = "ensure"
    BY <1>3 DEF BeginServing, StepTo, lockVars, boundVars
  <2> QED BY <2>1, MoveKeepsMutex DEF Held, Outside
<1>4. CASE StopProcess(p)
  <2>1. step' = [step EXCEPT ![p] = "down"] /\ LockStays /\ step[p] = "serving"
    BY <1>4, DownIsOutside DEF StopProcess, lockVars, boundVars
  <2> QED BY <2>1, MoveKeepsMutex DEF Held, Outside
<1> QED BY <1>1, <1>2, <1>3, <1>4

(* A crash is a mishap; a lock that is held does not run out without one *)
LEMMA CrashesAndExpiry ==
  ASSUME MutexInv, (\E p \in Processes : CrashProcess(p)) \/ LockExpires
  PROVE  MutexInv'
<1>1. ASSUME NEW p \in Processes, CrashProcess(p) PROVE MutexInv'
  <2>1. step' = [step EXCEPT ![p] = "down"] /\ mishaps' = mishaps + 1
    BY <1>1, DownIsOutside DEF CrashProcess, Mishap
  <2>2. step' \in [Processes -> Held \cup Outside] BY <2>1 DEF MutexInv, Outside
  <2> QED BY <2>1, <2>2, MishapKeepsMutex
<1>2. CASE LockExpires
  <2>1. lock # Gone /\ step' = step /\ lock' = lock
    BY <1>2 DEF LockExpires, runVars
  <2>2. CASE mishaps' = mishaps + 1
    <3>1. step' \in [Processes -> Held \cup Outside] BY <2>1 DEF MutexInv
    <3> QED BY <2>2, <3>1, MishapKeepsMutex
  <2>3. CASE step[lock] \in {"down", "serving"} /\ mishaps' = mishaps
    <3>1. mishaps # 0 BY <2>1, <2>3 DEF MutexInv, Held
    <3> QED BY <2>1, <2>3, <3>1 DEF MutexInv
  <2> QED BY <1>2, <2>2, <2>3 DEF LockExpires, Mishap
<1> QED BY <1>1, <1>2

LEMMA MutexStep == ASSUME MutexInv, [RuntimeNext]_runtimeVars PROVE MutexInv'
<1>1. CASE UNCHANGED runtimeVars
  BY <1>1, StillKeepsMutex DEF runtimeVars, runVars, boundVars, lockVars
<1>2. CASE LockExpires
  BY <1>2, CrashesAndExpiry
<1>3. ASSUME NEW p \in Processes,
             \/ StartProcess(p) \/ SyncSettings(p) \/ InspectIndex(p)
             \/ ReapLock(p) \/ CreateLock(p) \/ RecheckIndex(p)
             \/ SelectRows(p) \/ RedefineIndex(p) \/ RemoveIndex(p) \/ ClearVectors(p)
             \/ WriteVectors(p) \/ ReleaseLock(p)
             \/ \E t \in Tables : LookAtIndex(p, t) \/ DefineIndex(p, t) \/ PollIndex(p, t)
             \/ BeginServing(p)
             \/ CheckDimension(p) \/ WriteRow(p) \/ DeleteRow(p)
             \/ StopProcess(p) \/ CrashProcess(p)
      PROVE  MutexInv'
  <2>1. "chunk" \in Tables BY DEF Tables
  <2> QED
    BY <1>3, <2>1, StepsBeforeTheLock, CreatingTheLock, StepsUnderTheLock,
       ReleasingTheLock, StepsOutsideTheLock, CrashesAndExpiry
<1> QED BY <1>1, <1>2, <1>3 DEF RuntimeNext

(* However many processes start at once, with whatever models: one at a     *)
(* time embeds the rows again (startup.rs:173), as long as none dies and no *)
(* re-embedding outlasts the lock's time.                                   *)
THEOREM ReembeddersExclude == RuntimeSpec => []OneReembedder
<1>1. RuntimeInit => MutexInv BY MutexInit
<1>2. MutexInv /\ [RuntimeNext]_runtimeVars => MutexInv' BY MutexStep
<1>3. MutexInv => OneReembedder
  BY DEF MutexInv, OneReembedder, Embedding, Held
<1> QED BY <1>1, <1>2, <1>3, PTL DEF RuntimeSpec
-----------------------------------------------------------------------------
(* Types, of what a process has in hand too *)
Works == [table : Tables, read : SUBSET (RowIds \X (0..MaxWrites)), fails : BOOLEAN]

RuntimeTyped ==
  /\ EmbeddingTypeOK
  /\ step \in [Processes -> Held \cup Outside]
  /\ work \in [Processes -> Works]
  /\ write \in [Processes -> (Tables \X RowIds) \cup {Gone}]
  /\ writes \in 0..MaxWrites

LEMMA TypesInit == ASSUME RuntimeInit PROVE RuntimeTyped
<1>1. NoWork \in Works /\ 0 \in 0..MaxWrites /\ SeedDim \in Dims
  BY RuntimeAssumption DEF NoWork, Works, Tables
<1>2. [dim |-> SeedDim, text |-> 0] \in VectorRows
  BY <1>1 DEF VectorRows
<1> QED
  BY <1>1, <1>2 DEF RuntimeInit, RuntimeTyped, EmbeddingTypeOK, Held, Outside

LEMMA DownIsTyped ==
  ASSUME RuntimeTyped, NEW p \in Processes, GoDown(p)
  PROVE  /\ step' \in [Processes -> Held \cup Outside]
         /\ dim' \in [Processes -> Dims] /\ aim' \in [Processes -> Dims]
         /\ work' \in [Processes -> Works]
         /\ write' \in [Processes -> (Tables \X RowIds) \cup {Gone}]
<1>1. NoWork \in Works BY DEF NoWork, Works, Tables
<1> QED
  BY <1>1, RuntimeAssumption DEF GoDown, StepTo, RuntimeTyped, EmbeddingTypeOK, Outside

(* The steps that leave rows, vectors and indexes alone *)
LEMMA QuietTypes ==
  ASSUME RuntimeTyped, NEW p \in Processes, NEW t \in Tables,
         \/ StartProcess(p) \/ SyncSettings(p) \/ InspectIndex(p) \/ ReapLock(p)
         \/ CreateLock(p) \/ RecheckIndex(p) \/ LookAtIndex(p, t) \/ BeginServing(p)
         \/ CheckDimension(p)
  PROVE  RuntimeTyped'
<1> USE DEF RuntimeTyped, EmbeddingTypeOK
<1> USE DEF StepTo, rowVars, lockVars, boundVars, seenVars, runVars
<1>1. CASE StartProcess(p)
  BY <1>1, RuntimeAssumption DEF StartProcess, Outside
<1>2. CASE SyncSettings(p)
  BY <1>2 DEF SyncSettings, Outside
<1>3. CASE InspectIndex(p)
  BY <1>3 DEF InspectIndex, IndexDimension, Outside, Tables
<1>4. CASE ReapLock(p)
  BY <1>4 DEF ReapLock, Outside
<1>5. CASE CreateLock(p)
  BY <1>5, RuntimeAssumption DEF CreateLock, Outside, Held
<1>6. CASE RecheckIndex(p)
  BY <1>6 DEF RecheckIndex, Held
<1>7. CASE LookAtIndex(p, t)
  BY <1>7 DEF LookAtIndex
<1>8. CASE BeginServing(p)
  <2>1. NoWork \in Works BY DEF NoWork, Works, Tables
  <2> QED BY <1>8, <2>1 DEF BeginServing, Outside
<1>9. CASE CheckDimension(p)
  <2>1. writes' \in 0..MaxWrites BY <1>9, RuntimeAssumption DEF CheckDimension
  <2>2. write' \in [Processes -> (Tables \X RowIds) \cup {Gone}]
    BY <1>9 DEF CheckDimension, RowIds, Present, Tables
  <2> QED BY <1>9, <2>1, <2>2 DEF CheckDimension
<1> QED BY <1>1, <1>2, <1>3, <1>4, <1>5, <1>6, <1>7, <1>8, <1>9

(* The steps of a re-embedding *)
LEMMA ReembeddingTypes ==
  ASSUME RuntimeTyped, NEW p \in Processes,
         SelectRows(p) \/ RedefineIndex(p) \/ RemoveIndex(p) \/ ClearVectors(p)
  PROVE  RuntimeTyped'
<1> USE DEF StepTo, rowVars, lockVars, boundVars, seenVars, runVars
<1>1. /\ work[p] \in Works /\ Table(p) \in Tables
      /\ \A r \in SUBSET (RowIds \X (0..MaxWrites)) : [work[p] EXCEPT !.read = r] \in Works
      /\ [work[p] EXCEPT !.fails = TRUE] \in Works
      /\ [NoWork EXCEPT !.table = "entity"] \in Works
  BY DEF RuntimeTyped, Works, Table, NoWork, Tables
<1>2. CASE SelectRows(p)
  <2>1. {<<r, row[Table(p)][r]>> : r \in Present(Table(p))} \in SUBSET (RowIds \X (0..MaxWrites))
    BY <1>1 DEF RuntimeTyped, EmbeddingTypeOK, Present
  <2>2. work' \in [Processes -> Works]
    BY <1>1, <1>2, <2>1 DEF RuntimeTyped, SelectRows, TableFails
  <2>3. step' \in [Processes -> Held \cup Outside]
    BY <1>2 DEF RuntimeTyped, SelectRows, TableFails, Held
  <2> QED BY <1>2, <2>2, <2>3 DEF RuntimeTyped, EmbeddingTypeOK, SelectRows
<1>3. CASE RedefineIndex(p)
  <2>1. work' \in [Processes -> Works] /\ step' \in [Processes -> Held \cup Outside]
    BY <1>1, <1>3 DEF RuntimeTyped, RedefineIndex, TableFails, TableDone, Held
  <2>2. index' \in [Tables -> Dims \cup {Gone}]
    BY <1>1, <1>3 DEF RuntimeTyped, EmbeddingTypeOK, RedefineIndex
  <2> QED BY <1>3, <2>1, <2>2 DEF RuntimeTyped, EmbeddingTypeOK, RedefineIndex
<1>4. CASE RemoveIndex(p)
  <2>1. work' \in [Processes -> Works] /\ step' \in [Processes -> Held \cup Outside]
    BY <1>1, <1>4 DEF RuntimeTyped, RemoveIndex, TableFails, Held
  <2>2. index' \in [Tables -> Dims \cup {Gone}]
    BY <1>1, <1>4 DEF RuntimeTyped, EmbeddingTypeOK, RemoveIndex
  <2> QED BY <1>4, <2>1, <2>2 DEF RuntimeTyped, EmbeddingTypeOK, RemoveIndex
<1>5. CASE ClearVectors(p)
  BY <1>1, <1>5 DEF RuntimeTyped, EmbeddingTypeOK, ClearVectors, Held
<1> QED BY <1>2, <1>3, <1>4, <1>5

(* A table of tables with one field replaced *)
LEMMA PutIsTyped ==
  ASSUME NEW A, NEW B, NEW C, NEW f \in [A -> [B -> C]], NEW a \in A, NEW b \in B, NEW c \in C
  PROVE  [f EXCEPT ![a][b] = c] \in [A -> [B -> C]]
<1>1. [f[a] EXCEPT ![b] = c] \in [B -> C] OBVIOUS
<1> QED BY <1>1

(* The vector that is made of a row that was read *)
LEMMA RewrittenIsVector ==
  ASSUME RuntimeTyped, NEW p \in Processes, NEW r \in {v[1] : v \in work[p].read}
  PROVE  [dim |-> dim[p], text |-> CHOOSE n \in 0..MaxWrites : <<r, n>> \in work[p].read]
           \in VectorRows
<1>1. work[p] \in Works /\ dim[p] \in Dims BY DEF RuntimeTyped, EmbeddingTypeOK
<1>2. \E n \in 0..MaxWrites : <<r, n>> \in work[p].read BY <1>1 DEF Works
<1> QED BY <1>1, <1>2 DEF VectorRows

LEMMA StoringTypes ==
  ASSUME RuntimeTyped, NEW p \in Processes, WriteVectors(p) \/ WriteRow(p) \/ DeleteRow(p)
  PROVE  RuntimeTyped'
<1> USE DEF StepTo, rowVars, lockVars, boundVars, seenVars, runVars
<1>1. CASE WriteVectors(p)
  <2>1. /\ work[p] \in Works /\ Table(p) \in Tables
        /\ [work[p] EXCEPT !.fails = TRUE] \in Works
        /\ [NoWork EXCEPT !.table = "entity"] \in Works
    BY DEF RuntimeTyped, Works, Table, NoWork, Tables
  <2>2. work' \in [Processes -> Works] /\ step' \in [Processes -> Held \cup Outside]
    BY <1>1, <2>1 DEF RuntimeTyped, WriteVectors, TableFails, TableDone, Held
  <2>3. index' \in [Tables -> Dims \cup {Gone}]
    BY <1>1, <2>1 DEF RuntimeTyped, EmbeddingTypeOK, WriteVectors
  <2>4. CASE UNCHANGED vector
    BY <1>1, <2>2, <2>3, <2>4 DEF RuntimeTyped, EmbeddingTypeOK, WriteVectors
  <2>5. CASE vector' # vector
    <3> DEFINE t == Table(p)
               read == {v[1] : v \in work[p].read}
               text(r) == CHOOSE n \in 0..MaxWrites : <<r, n>> \in work[p].read
               new == [r \in RowIds |-> IF r \in read THEN [dim |-> dim[p], text |-> text(r)]
                                        ELSE vector[t][r]]
    <3>1. new \in [RowIds -> VectorRows \cup {Gone}]
      <4>1. \A r \in RowIds : vector[t][r] \in VectorRows \cup {Gone}
        BY <2>1 DEF RuntimeTyped, EmbeddingTypeOK
      <4>2. \A r \in read : [dim |-> dim[p], text |-> text(r)] \in VectorRows
        BY RewrittenIsVector
      <4> QED BY <4>1, <4>2
    <3>2. vector' = [vector EXCEPT ![t] = new]
      BY <1>1, <2>1, <2>5 DEF WriteVectors, RuntimeTyped, EmbeddingTypeOK
    <3>3. vector' \in [Tables -> [RowIds -> VectorRows \cup {Gone}]]
      BY <2>1, <3>1, <3>2 DEF RuntimeTyped, EmbeddingTypeOK
    <3> QED BY <1>1, <2>2, <2>3, <3>3 DEF RuntimeTyped, EmbeddingTypeOK, WriteVectors
  <2> QED BY <2>4, <2>5
<1>2. CASE WriteRow(p)
  <2>1. PICK t \in Tables, r \in RowIds : write[p] = <<t, r>>
    BY <1>2 DEF RuntimeTyped, WriteRow
  <2>2. [dim |-> dim[p], text |-> writes] \in VectorRows
    BY DEF RuntimeTyped, EmbeddingTypeOK, VectorRows
  <2>3. \/ row' = row /\ vector' = vector
        \/ /\ row' = [row EXCEPT ![t][r] = IF row[t][r] = Gone THEN Gone ELSE writes]
           /\ vector' = [vector EXCEPT ![t][r] = [dim |-> dim[p], text |-> writes]]
    BY <1>2, <2>1 DEF WriteRow, RuntimeTyped, EmbeddingTypeOK
  <2>4. row' \in [Tables -> [RowIds -> 0..MaxWrites \cup {Gone, Unborn}]]
    <3> DEFINE text == IF row[t][r] = Gone THEN Gone ELSE writes
    <3>1. text \in 0..MaxWrites \cup {Gone, Unborn}
      BY DEF RuntimeTyped
    <3>2. row \in [Tables -> [RowIds -> 0..MaxWrites \cup {Gone, Unborn}]]
      BY DEF RuntimeTyped, EmbeddingTypeOK
    <3>3. [row EXCEPT ![t][r] = text] \in [Tables -> [RowIds -> 0..MaxWrites \cup {Gone, Unborn}]]
      BY ONLY <3>1, <3>2, PutIsTyped, t \in Tables, r \in RowIds
    <3> QED BY <2>3, <3>2, <3>3
  <2>5. vector' \in [Tables -> [RowIds -> VectorRows \cup {Gone}]]
    <3>1. vector \in [Tables -> [RowIds -> VectorRows \cup {Gone}]]
      BY DEF RuntimeTyped, EmbeddingTypeOK
    <3>2. [vector EXCEPT ![t][r] = [dim |-> dim[p], text |-> writes]]
            \in [Tables -> [RowIds -> VectorRows \cup {Gone}]]
      BY <2>2, <3>1, PutIsTyped
    <3> QED BY <2>3, <3>1, <3>2
  <2> QED BY <1>2, <2>4, <2>5 DEF RuntimeTyped, EmbeddingTypeOK, WriteRow
<1>3. CASE DeleteRow(p)
  <2>1. row' \in [Tables -> [RowIds -> 0..MaxWrites \cup {Gone, Unborn}]]
    BY <1>3, PutIsTyped DEF RuntimeTyped, EmbeddingTypeOK, DeleteRow, Present
  <2>2. vector' \in [Tables -> [RowIds -> VectorRows \cup {Gone}]]
    BY <1>3, PutIsTyped DEF RuntimeTyped, EmbeddingTypeOK, DeleteRow, Present
  <2>3. writes' \in 0..MaxWrites
    BY <1>3, RuntimeAssumption DEF RuntimeTyped, DeleteRow
  <2> QED BY <1>3, <2>1, <2>2, <2>3 DEF RuntimeTyped, EmbeddingTypeOK, DeleteRow
<1> QED BY <1>1, <1>2, <1>3

LEMMA EndTypes ==
  ASSUME RuntimeTyped, NEW p \in Processes, NEW t \in Tables,
         \/ ReleaseLock(p) \/ DefineIndex(p, t) \/ PollIndex(p, t)
         \/ StopProcess(p) \/ CrashProcess(p)
  PROVE  RuntimeTyped'
<1> USE DEF StepTo, rowVars, lockVars, boundVars, seenVars, runVars
<1>1. CASE ReleaseLock(p)
  <2>1. /\ lock' \in Processes \cup {Gone} /\ expired' \in BOOLEAN
        /\ lock' = Gone => ~expired'
    <3>1. (lock' = Gone /\ expired' = FALSE) \/ (lock' = lock /\ expired' = expired)
      BY <1>1 DEF ReleaseLock
    <3>2. lock \in Processes \cup {Gone} /\ expired \in BOOLEAN /\ (lock = Gone => ~expired)
      BY DEF RuntimeTyped, EmbeddingTypeOK
    <3>3. CASE lock' = Gone /\ expired' = FALSE BY <3>3
    <3>4. CASE lock' = lock /\ expired' = expired
      <4>1. lock' \in Processes \cup {Gone} BY <3>2, <3>4
      <4>2. expired' \in BOOLEAN BY <3>2, <3>4
      <4>3. lock' = Gone => ~expired' BY <3>2, <3>4
      <4> QED BY <4>1, <4>2, <4>3
    <3> QED BY <3>1, <3>3, <3>4
  <2>2. UNCHANGED <<row, vector, index, wanted, writes>>
    BY <1>1 DEF ReleaseLock
  <2>3. CASE work[p].fails
    <3>1. GoDown(p) BY <1>1, <2>3 DEF ReleaseLock
    <3> QED BY <2>1, <2>2, <3>1, DownIsTyped DEF RuntimeTyped, EmbeddingTypeOK
  <2>4. CASE ~work[p].fails
    <3>1. step' = [step EXCEPT ![p] = "ensure"] /\ UNCHANGED <<dim, aim, work, write>>
      BY <1>1, <2>4 DEF ReleaseLock
    <3> QED BY <2>1, <2>2, <3>1 DEF RuntimeTyped, EmbeddingTypeOK, Outside
  <2> QED BY <2>3, <2>4
<1>2. CASE DefineIndex(p, t)
  BY <1>2 DEF RuntimeTyped, EmbeddingTypeOK, DefineIndex
<1>3. CASE PollIndex(p, t)
  BY <1>3, DownIsTyped DEF RuntimeTyped, EmbeddingTypeOK, PollIndex
<1>4. CASE StopProcess(p) \/ CrashProcess(p)
  BY <1>4, DownIsTyped DEF RuntimeTyped, EmbeddingTypeOK, StopProcess, CrashProcess
<1> QED BY <1>1, <1>2, <1>3, <1>4

LEMMA TypesStep == ASSUME RuntimeTyped, [RuntimeNext]_runtimeVars PROVE RuntimeTyped'
<1>1. CASE UNCHANGED runtimeVars
  BY <1>1 DEF runtimeVars, rowVars, runVars, boundVars, lockVars, RuntimeTyped, EmbeddingTypeOK
<1>2. CASE LockExpires
  BY <1>2 DEF LockExpires, RuntimeTyped, EmbeddingTypeOK, rowVars, runVars
<1>3. CASE \E p \in Processes : SyncSettings(p) \/ InspectIndex(p) \/ ReapLock(p)
                               \/ CreateLock(p) \/ RecheckIndex(p) \/ StartProcess(p)
                               \/ BeginServing(p) \/ CheckDimension(p)
  <2>1. "chunk" \in Tables BY DEF Tables
  <2> QED BY <1>3, <2>1, QuietTypes
<1>4. CASE \E p \in Processes : SelectRows(p) \/ RedefineIndex(p) \/ RemoveIndex(p)
                               \/ ClearVectors(p)
  BY <1>4, ReembeddingTypes
<1>5. CASE \E p \in Processes : WriteVectors(p) \/ WriteRow(p) \/ DeleteRow(p)
  BY <1>5, StoringTypes
<1>6. CASE \E p \in Processes : ReleaseLock(p) \/ StopProcess(p) \/ CrashProcess(p)
  <2>1. "chunk" \in Tables BY DEF Tables
  <2> QED BY <1>6, <2>1, EndTypes
<1>7. CASE \E p \in Processes, t \in Tables : LookAtIndex(p, t) \/ DefineIndex(p, t) \/ PollIndex(p, t)
  BY <1>7, QuietTypes, EndTypes
<1> QED BY <1>1, <1>2, <1>3, <1>4, <1>5, <1>6, <1>7 DEF RuntimeNext

-----------------------------------------------------------------------------
(* What a process has in hand: one version of each row it has read, nothing *)
(* when it has not come to the lock, and a row to store when it serves      *)
Working == {"select", "redefine", "remove", "clear", "write", "release"}

HandsInv ==
  /\ \A p \in Processes : \A v, w \in work[p].read : v[1] = w[1] => v = w
  /\ \A p \in Processes : step[p] \notin Working \cup {"ensure"} => work[p] = NoWork
  /\ \A p \in Processes : write[p] # Gone => step[p] = "serving"

LEMMA HandsInit == ASSUME RuntimeInit PROVE HandsInv
BY DEF RuntimeInit, HandsInv, NoWork

(* It is enough that it holds of the process that moves *)
LEMMA OwnHands ==
  ASSUME HandsInv, NEW p \in Processes,
         \A q \in Processes \ {p} : step'[q] = step[q] /\ work'[q] = work[q] /\ write'[q] = write[q],
         \A v, w \in work'[p].read : v[1] = w[1] => v = w,
         step'[p] \notin Working \cup {"ensure"} => work'[p] = NoWork,
         write'[p] # Gone => step'[p] = "serving"
  PROVE  HandsInv'
BY DEF HandsInv

LEMMA DownHands ==
  ASSUME RuntimeTyped, HandsInv, NEW p \in Processes, GoDown(p)
  PROVE  HandsInv'
<1>1. step'[p] = "down" /\ work'[p] = NoWork /\ write'[p] = Gone
  BY DEF GoDown, StepTo, RuntimeTyped
<1>2. \A q \in Processes \ {p} : step'[q] = step[q] /\ work'[q] = work[q] /\ write'[q] = write[q]
  BY DEF GoDown, StepTo, RuntimeTyped
<1>3. NoWork.read = {} BY DEF NoWork
<1> QED BY <1>1, <1>2, <1>3, OwnHands

(* A process moves with what it has in hand, or drops it *)
LEMMA MovingHands ==
  ASSUME RuntimeTyped, HandsInv, NEW p \in Processes, NEW s, write' = write,
         step[p] # "serving", step' = [step EXCEPT ![p] = s],
         \/ /\ s \in Working \cup {"ensure"} \/ step[p] \notin Working \cup {"ensure"}
            /\ work' = work
         \/ \E w \in Works : work' = [work EXCEPT ![p] = w] /\ s \in Working
                             /\ (w.read = {} \/ w.read = work[p].read)
         \/ work' = [work EXCEPT ![p] = NoWork]
  PROVE  HandsInv'
<1>1. step'[p] = s /\ \A q \in Processes \ {p} : step'[q] = step[q] /\ work'[q] = work[q]
  BY DEF RuntimeTyped
<1>2. \/ work'[p] = work[p] /\ (s \in Working \cup {"ensure"} \/ step[p] \notin Working \cup {"ensure"})
      \/ s \in Working /\ (work'[p].read = {} \/ work'[p].read = work[p].read)
      \/ work'[p] = NoWork
  BY DEF RuntimeTyped
<1>3. NoWork.read = {} BY DEF NoWork
<1>4. \A v, w \in work'[p].read : v[1] = w[1] => v = w BY <1>2, <1>3 DEF HandsInv
<1>5. step'[p] \notin Working \cup {"ensure"} => work'[p] = NoWork BY <1>1, <1>2 DEF HandsInv
<1>6. write[p] = Gone BY DEF HandsInv
<1> QED BY <1>1, <1>4, <1>5, <1>6, OwnHands

LEMMA HandsStep ==
  ASSUME RuntimeTyped, HandsInv, [RuntimeNext]_runtimeVars PROVE HandsInv'
<1> USE DEF StepTo, rowVars, lockVars, boundVars, seenVars, runVars
<1>1. CASE UNCHANGED runtimeVars \/ LockExpires
  BY <1>1 DEF HandsInv, runtimeVars, LockExpires
<1>2. ASSUME NEW p \in Processes,
             \/ SyncSettings(p) \/ InspectIndex(p) \/ ReapLock(p)
             \/ CreateLock(p) \/ RecheckIndex(p) \/ StartProcess(p)
      PROVE  HandsInv'
  <2>1. /\ write' = write /\ work' = work
        /\ step[p] \notin Working \cup {"ensure", "serving"}
        /\ \E s \in Held \cup Outside : step' = [step EXCEPT ![p] = s]
    BY <1>2 DEF SyncSettings, InspectIndex, ReapLock, CreateLock, RecheckIndex, StartProcess,
       Working, Held, Outside
  <2> QED BY <2>1, MovingHands
<1>3. ASSUME NEW p \in Processes, BeginServing(p) PROVE HandsInv'
  BY <1>3, MovingHands DEF BeginServing
<1>4. ASSUME NEW p \in Processes, CheckDimension(p) PROVE HandsInv'
  BY <1>4, OwnHands DEF CheckDimension, RuntimeTyped, HandsInv
<1>5. ASSUME NEW p \in Processes, WriteRow(p) PROVE HandsInv'
  BY <1>5, OwnHands DEF WriteRow, RuntimeTyped, HandsInv
<1>6. ASSUME NEW p \in Processes, DeleteRow(p) PROVE HandsInv'
  BY <1>6 DEF DeleteRow, HandsInv
<1>7. ASSUME NEW p \in Processes, StopProcess(p) \/ CrashProcess(p) PROVE HandsInv'
  BY <1>7, DownHands DEF StopProcess, CrashProcess
<1>8. ASSUME NEW p \in Processes, ReleaseLock(p) PROVE HandsInv'
  <2>1. \/ GoDown(p)
        \/ /\ step[p] = "release" /\ step' = [step EXCEPT ![p] = "ensure"]
           /\ work' = work /\ write' = write
    BY <1>8 DEF ReleaseLock
  <2> QED BY <2>1, DownHands, MovingHands
<1>9. ASSUME NEW p \in Processes, NEW t \in Tables,
             LookAtIndex(p, t) \/ DefineIndex(p, t) \/ PollIndex(p, t)
      PROVE  HandsInv'
  <2>1. GoDown(p) \/ (step' = step /\ work' = work /\ write' = write)
    BY <1>9 DEF LookAtIndex, DefineIndex, PollIndex
  <2> QED BY <2>1, DownHands DEF HandsInv
<1>10. ASSUME NEW p \in Processes,
              \/ SelectRows(p) \/ RedefineIndex(p) \/ RemoveIndex(p) \/ ClearVectors(p)
              \/ WriteVectors(p)
       PROVE  HandsInv'
  <2>1. /\ work[p] \in Works
        /\ [work[p] EXCEPT !.fails = TRUE] \in Works
        /\ [NoWork EXCEPT !.table = "entity"] \in Works
        /\ [NoWork EXCEPT !.table = "entity"].read = {}
        /\ [work[p] EXCEPT !.fails = TRUE].read = work[p].read
    BY DEF RuntimeTyped, Works, NoWork, Tables
  <2>2. CASE RedefineIndex(p) \/ RemoveIndex(p) \/ ClearVectors(p) \/ WriteVectors(p)
    <3>1. /\ write' = write /\ step[p] \in Working
          /\ \E s \in Working : step' = [step EXCEPT ![p] = s]
          /\ \/ work' = work
             \/ work' = [work EXCEPT ![p] = [work[p] EXCEPT !.fails = TRUE]]
             \/ work' = [work EXCEPT ![p] = [NoWork EXCEPT !.table = "entity"]]
      BY <2>2 DEF RedefineIndex, RemoveIndex, ClearVectors, WriteVectors, TableFails, TableDone,
         Working, RuntimeTyped
    <3> QED BY <2>1, <3>1, MovingHands DEF Working
  <2>3. CASE SelectRows(p)
    <3>1. /\ write' = write /\ step[p] = "select"
          /\ \E s \in Working : step' = [step EXCEPT ![p] = s]
          /\ \/ work' = work
             \/ work' = [work EXCEPT ![p] = [work[p] EXCEPT !.fails = TRUE]]
             \/ work' = [work EXCEPT ![p] = [work[p] EXCEPT !.read =
                  {<<r, row[Table(p)][r]>> : r \in Present(Table(p))}]]
      BY <2>3 DEF SelectRows, TableFails, Working, RuntimeTyped
    <3>2. CASE work' = [work EXCEPT ![p] = [work[p] EXCEPT !.read =
                  {<<r, row[Table(p)][r]>> : r \in Present(Table(p))}]]
      <4>1. work'[p].read = {<<r, row[Table(p)][r]>> : r \in Present(Table(p))}
        BY <2>1, <3>2 DEF RuntimeTyped, Works
      <4>2. \A v, w \in work'[p].read : v[1] = w[1] => v = w BY <4>1
      <4>3. write[p] = Gone BY <3>1 DEF HandsInv
      <4>4. step'[p] \in Working BY <3>1 DEF RuntimeTyped
      <4>5. \A q \in Processes \ {p} : step'[q] = step[q] /\ work'[q] = work[q]
        BY <3>1, <3>2 DEF RuntimeTyped
      <4> QED BY <3>1, <4>2, <4>3, <4>4, <4>5, OwnHands
    <3> QED BY <2>1, <3>1, <3>2, MovingHands DEF Working
  <2> QED BY <1>10, <2>2, <2>3
<1> QED
  BY <1>1, <1>2, <1>3, <1>4, <1>5, <1>6, <1>7, <1>8, <1>9, <1>10 DEF RuntimeNext

-----------------------------------------------------------------------------
(* A row whose vector a re-embedding has deleted and is about to write      *)
AboutToWrite(t, r) ==
  \E p \in Processes : step[p] = "write" /\ Table(p) = t /\ \E v \in work[p].read : v[1] = r

LostInv ==
  \A t \in Tables : \A r \in RowIds :
    row[t][r] \notin {Gone, Unborn} /\ vector[t][r] = Gone =>
      <<t, r>> \in cleared \/ AboutToWrite(t, r)

LEMMA LostInit == ASSUME RuntimeInit PROVE LostInv
<1>1. [dim |-> SeedDim, text |-> 0] \in VectorRows
  BY RuntimeAssumption DEF VectorRows
<1> QED BY <1>1, RuntimeAssumption DEF RuntimeInit, LostInv

(* Whoever is not about to write may move *)
LEMMA MovingLosesNothing ==
  ASSUME LostInv, row' = row, vector' = vector, cleared \subseteq cleared',
         \A q \in Processes : step[q] = "write" => step'[q] = "write" /\ work'[q] = work[q]
  PROVE  LostInv'
<1>1. ASSUME NEW t \in Tables, NEW r \in RowIds, AboutToWrite(t, r) PROVE AboutToWrite(t, r)'
  BY <1>1 DEF AboutToWrite, Table
<1> QED BY <1>1 DEF LostInv

LEMMA DownLosesNothing ==
  ASSUME RuntimeTyped, LostInv, NEW p \in Processes, GoDown(p), row' = row, vector' = vector,
         cleared' = cleared \cup LeavesCleared(p)
  PROVE  LostInv'
<1>1. \A q \in Processes \ {p} : step'[q] = step[q] /\ work'[q] = work[q]
  BY DEF GoDown, StepTo, RuntimeTyped
<1>2. ASSUME NEW t \in Tables, NEW r \in RowIds, AboutToWrite(t, r)
      PROVE  AboutToWrite(t, r)' \/ <<t, r>> \in cleared'
  BY <1>1, <1>2 DEF AboutToWrite, Table, LeavesCleared
<1> QED BY <1>2 DEF LostInv

(* One row is stored with its vector, or goes *)
LEMMA StoringLosesNothing ==
  ASSUME RuntimeTyped, LostInv, NEW p \in Processes, WriteRow(p) \/ DeleteRow(p)
  PROVE  LostInv'
<1>1. step' = step /\ work' = work
  BY DEF WriteRow, DeleteRow, runVars
<1>2. ASSUME NEW t \in Tables, NEW r \in RowIds, AboutToWrite(t, r) PROVE AboutToWrite(t, r)'
  BY <1>1, <1>2 DEF AboutToWrite, Table
<1>3. CASE WriteRow(p)
  <2>1. PICK t \in Tables, r \in RowIds : write[p] = <<t, r>>
    BY <1>3 DEF RuntimeTyped, WriteRow
  <2>2. [dim |-> dim[p], text |-> writes] # Gone
    BY RuntimeAssumption DEF RuntimeTyped, EmbeddingTypeOK, VectorRows
  <2>3. CASE row' = row /\ vector' = vector /\ cleared' = cleared
    BY <1>2, <2>3 DEF LostInv
  <2>4. CASE /\ row' = [row EXCEPT ![t][r] = IF row[t][r] = Gone THEN Gone ELSE writes]
             /\ vector' = [vector EXCEPT ![t][r] = [dim |-> dim[p], text |-> writes]]
             /\ cleared' = cleared \ {<<t, r>>}
    <3>1. vector'[t][r] # Gone
      BY <2>2, <2>4 DEF RuntimeTyped, EmbeddingTypeOK
    <3>2. \A u \in Tables, s \in RowIds : <<u, s>> # <<t, r>> =>
            row'[u][s] = row[u][s] /\ vector'[u][s] = vector[u][s]
      BY <2>4 DEF RuntimeTyped, EmbeddingTypeOK
    <3> QED BY <1>2, <2>4, <3>1, <3>2 DEF LostInv
  <2> QED BY <1>3, <2>1, <2>3, <2>4 DEF WriteRow, RuntimeTyped, EmbeddingTypeOK
<1>4. CASE DeleteRow(p)
  <2>1. PICK t \in Tables, r \in RowIds : /\ row' = [row EXCEPT ![t][r] = Gone]
                                          /\ vector' = [vector EXCEPT ![t][r] = Gone]
    BY <1>4 DEF DeleteRow, Present
  <2>2. row'[t][r] = Gone
    BY <2>1 DEF RuntimeTyped, EmbeddingTypeOK
  <2>3. \A u \in Tables, s \in RowIds : <<u, s>> # <<t, r>> =>
          row'[u][s] = row[u][s] /\ vector'[u][s] = vector[u][s]
    BY <2>1 DEF RuntimeTyped, EmbeddingTypeOK
  <2>4. cleared' = cleared BY <1>4 DEF DeleteRow, seenVars
  <2> QED BY <1>2, <2>2, <2>3, <2>4 DEF LostInv
<1> QED BY <1>3, <1>4

(* What a re-embedding deletes it has read, or it is in `cleared` *)
LEMMA ClearingLosesNothing ==
  ASSUME RuntimeTyped, LostInv, NEW p \in Processes, ClearVectors(p)
  PROVE  LostInv'
<1>1. PICK t \in Tables : t = Table(p) BY DEF RuntimeTyped, Works, Table
<1>2. /\ row' = row /\ work' = work /\ step' = [step EXCEPT ![p] = "write"]
      /\ vector' = [vector EXCEPT ![t] = [r \in RowIds |-> Gone]]
      /\ cleared' = cleared \cup {<<t, r>> : r \in
           {r \in Vectors(t) : <<r, row[t][r]>> \notin work[p].read}}
      /\ step[p] = "clear"
  BY <1>1 DEF ClearVectors, StepTo
<1>3. step'[p] = "write" /\ \A q \in Processes : step[q] = "write" => step'[q] = "write"
  BY <1>2 DEF RuntimeTyped
<1>4. ASSUME NEW u \in Tables, NEW r \in RowIds, AboutToWrite(u, r) PROVE AboutToWrite(u, r)'
  BY <1>2, <1>3, <1>4 DEF AboutToWrite, Table
<1>5. ASSUME NEW r \in RowIds, <<r, row[t][r]>> \in work[p].read PROVE AboutToWrite(t, r)'
  BY <1>1, <1>2, <1>3, <1>5 DEF AboutToWrite, Table
<1>6. \A u \in Tables, r \in RowIds : u # t => vector'[u][r] = vector[u][r]
  BY <1>1, <1>2 DEF RuntimeTyped, EmbeddingTypeOK
<1>7. ASSUME NEW r \in RowIds, row[t][r] \notin {Gone, Unborn}
      PROVE  <<t, r>> \in cleared' \/ AboutToWrite(t, r)'
  <2>1. CASE vector[t][r] = Gone
    BY <1>1, <1>2, <1>4, <1>7, <2>1 DEF LostInv
  <2>2. CASE vector[t][r] # Gone
    BY <1>2, <1>5, <2>2 DEF Vectors
  <2> QED BY <2>1, <2>2
<1> QED BY <1>1, <1>2, <1>4, <1>6, <1>7 DEF LostInv

(* What it has read it writes, or leaves in `cleared` *)
LEMMA RewritingLosesNothing ==
  ASSUME RuntimeTyped, LostInv, NEW p \in Processes, WriteVectors(p)
  PROVE  LostInv'
<1> DEFINE read == {v[1] : v \in work[p].read}
           text(r) == CHOOSE n \in 0..MaxWrites : <<r, n>> \in work[p].read
<1>1. PICK t \in Tables : t = Table(p) BY DEF RuntimeTyped, Works, Table
<1>2. row' = row /\ step[p] = "write" BY DEF WriteVectors
<1>3. \A q \in Processes \ {p} : step'[q] = step[q] /\ work'[q] = work[q]
  BY DEF WriteVectors, TableFails, TableDone, StepTo, RuntimeTyped
<1>4. ASSUME NEW u \in Tables, NEW r \in RowIds, AboutToWrite(u, r), u # t \/ r \notin read
      PROVE  AboutToWrite(u, r)'
  BY <1>1, <1>3, <1>4 DEF AboutToWrite, Table
<1>5. CASE /\ vector' = [vector EXCEPT ![t] = [r \in RowIds |->
                IF r \in read THEN [dim |-> dim[p], text |-> text(r)] ELSE vector[t][r]]]
           /\ cleared' = cleared \ {<<t, v[1]>> : v \in {v \in work[p].read : row[t][v[1]] = v[2]}}
  <2>1. \A r \in read : [dim |-> dim[p], text |-> text(r)] \in VectorRows
    BY RewrittenIsVector
  <2>2. ASSUME NEW r \in RowIds, r \in read PROVE vector'[t][r] # Gone
    <3>1. vector'[t][r] = [dim |-> dim[p], text |-> text(r)]
      BY <1>1, <1>5, <2>2 DEF RuntimeTyped, EmbeddingTypeOK
    <3> QED BY <2>1, <2>2, <3>1, RuntimeAssumption
  <2>3. \A u \in Tables, r \in RowIds : u # t \/ r \notin read =>
          vector'[u][r] = vector[u][r] /\ (<<u, r>> \in cleared => <<u, r>> \in cleared')
    BY <1>1, <1>5 DEF RuntimeTyped, EmbeddingTypeOK
  <2> QED BY <1>2, <1>4, <2>2, <2>3 DEF LostInv
<1>6. CASE vector' = vector /\ cleared' = cleared \cup LeavesCleared(p)
  <2>1. \A r \in read : <<t, r>> \in cleared' BY <1>1, <1>2, <1>6 DEF LeavesCleared
  <2> QED BY <1>2, <1>4, <1>6, <2>1 DEF LostInv
<1> QED BY <1>1, <1>5, <1>6 DEF WriteVectors, RuntimeTyped, EmbeddingTypeOK

LEMMA LostStep ==
  ASSUME RuntimeTyped, LostInv, [RuntimeNext]_runtimeVars PROVE LostInv'
<1> USE DEF StepTo, rowVars, lockVars, boundVars, seenVars, runVars
<1>1. CASE UNCHANGED runtimeVars \/ LockExpires
  <2>1. UNCHANGED <<row, vector, cleared, step, work>>
    BY <1>1 DEF runtimeVars, LockExpires
  <2> QED BY <2>1, MovingLosesNothing
<1>2. ASSUME NEW p \in Processes,
             \/ SyncSettings(p) \/ InspectIndex(p) \/ ReapLock(p)
             \/ CreateLock(p) \/ RecheckIndex(p) \/ StartProcess(p)
             \/ SelectRows(p) \/ RedefineIndex(p) \/ RemoveIndex(p)
             \/ BeginServing(p) \/ CheckDimension(p)
      PROVE  LostInv'
  <2>1. UNCHANGED <<row, vector, cleared>> /\ (step[p] # "write" \/ UNCHANGED <<step, work>>)
    BY <1>2 DEF SyncSettings, InspectIndex, ReapLock, CreateLock, RecheckIndex, StartProcess,
       SelectRows, RedefineIndex, RemoveIndex, BeginServing, CheckDimension
  <2>2. \A q \in Processes \ {p} : step'[q] = step[q] /\ work'[q] = work[q]
    BY <1>2 DEF SyncSettings, InspectIndex, ReapLock, CreateLock, RecheckIndex, StartProcess,
       SelectRows, RedefineIndex, RemoveIndex, BeginServing, CheckDimension, TableFails,
       TableDone, RuntimeTyped
  <2> QED BY <2>1, <2>2, MovingLosesNothing
<1>3. ASSUME NEW p \in Processes, ReleaseLock(p) \/ StopProcess(p) PROVE LostInv'
  <2>1. UNCHANGED <<row, vector, cleared>> /\ step[p] # "write"
    BY <1>3 DEF ReleaseLock, StopProcess
  <2>2. \A q \in Processes \ {p} : step'[q] = step[q] /\ work'[q] = work[q]
    BY <1>3 DEF ReleaseLock, StopProcess, GoDown, RuntimeTyped
  <2> QED BY <2>1, <2>2, MovingLosesNothing
<1>4. ASSUME NEW p \in Processes, CrashProcess(p) PROVE LostInv'
  BY <1>4, DownLosesNothing DEF CrashProcess
<1>5. ASSUME NEW p \in Processes, NEW t \in Tables,
             LookAtIndex(p, t) \/ DefineIndex(p, t) \/ PollIndex(p, t)
      PROVE  LostInv'
  <2>1. /\ UNCHANGED <<row, vector, cleared>> /\ step[p] = "ensure"
        /\ GoDown(p) \/ UNCHANGED <<step, work>>
    BY <1>5 DEF LookAtIndex, DefineIndex, PollIndex
  <2>2. \A q \in Processes \ {p} : step'[q] = step[q] /\ work'[q] = work[q]
    BY <2>1 DEF GoDown, RuntimeTyped
  <2> QED BY <2>1, <2>2, MovingLosesNothing
<1> QED
  BY <1>1, <1>2, <1>3, <1>4, <1>5, ClearingLosesNothing, RewritingLosesNothing,
     StoringLosesNothing DEF RuntimeNext

(* With crashes, failed statements and locks that run out, and whatever is  *)
(* stored and deleted meanwhile: a row is without a vector only while a     *)
(* re-embedding is about to write it, or because one deleted the vector     *)
(* without having read the row or did not come to write it                  *)
(* (text_chunk.rs:247, knowledge_entity.rs:430).                            *)
THEOREM LostVectorsAreExplained == RuntimeSpec => []LostVectorsHaveReasons
<1>1. RuntimeInit => RuntimeTyped /\ LostInv BY TypesInit, LostInit
<1>2. RuntimeTyped /\ LostInv /\ [RuntimeNext]_runtimeVars => (RuntimeTyped /\ LostInv)'
  BY TypesStep, LostStep
<1>3. RuntimeTyped /\ LostInv => LostVectorsHaveReasons
  BY DEF LostInv, LostVectorsHaveReasons, AboutToWrite, Present
<1> QED BY <1>1, <1>2, <1>3, PTL DEF RuntimeSpec

-----------------------------------------------------------------------------
(* The space of vectors where nothing fails and processes start one after   *)
(* the other: outside a re-embedding both indexes are of one dimension d,   *)
(* and every row has a vector of d or is excepted.  During one every server *)
(* is a degraded one, so that whatever it stores is excepted.               *)
Busy == {"sync", "inspect", "reap", "lock", "recheck", "ensure"} \cup Working

Quiet == mishaps = 0 /\ trouble = {}

Alone ==
  /\ \A p, q \in Processes : step[p] \in Busy /\ step[q] \in Busy => p = q
  /\ \A p, q \in Processes : step[p] # "down" /\ step[q] # "down" => dim[p] = dim[q]

Excepted(t, r) == <<t, r>> \in cleared \/ <<t, r>> \in degraded

Whole(t, d) ==
  /\ index[t] = d
  /\ \A r \in RowIds : row[t][r] \notin {Gone, Unborn} =>
       vector[t][r] = [dim |-> d, text |-> row[t][r]] \/ Excepted(t, r)

Fits(p, d) ==
  /\ step[p] = "serving" /\ aim[p] = dim[p] => dim[p] = d
  /\ step[p] = "ensure" => aim[p] = d
  /\ step[p] \in {"reap", "lock", "recheck"} => aim[p] = dim[p] /\ dim[p] # d

Space(d) == (\A t \in Tables : Whole(t, d)) /\ \A p \in Processes : Fits(p, d)

(* What a re-embedding of p has reached: before it writes, a row has a      *)
(* vector that a degraded server stored, or it was read, or it is excepted  *)
Reembedding(p, d) ==
  /\ dim[p] = d /\ aim[p] = d
  /\ \A q \in Processes : step[q] = "serving" => aim[q] # dim[q]
  /\ work[p].table = "entity" => Whole("chunk", d)
  /\ step[p] = "release" /\ ~work[p].fails => \A t \in Tables : Whole(t, d)
  /\ \A t \in Tables, r \in RowIds :
       work[p].table = t /\ row[t][r] \notin {Gone, Unborn} =>
         /\ step[p] = "redefine" => <<t, r>> \in degraded
         /\ step[p] = "write" => \/ vector[t][r] # Gone /\ <<t, r>> \in degraded
                                 \/ <<r, row[t][r]>> \in work[p].read
                                 \/ <<t, r>> \in cleared

SpaceInv ==
  Quiet =>
    /\ Alone
    /\ (\A p \in Processes : step[p] \notin Working) => \E d \in Dims : Space(d)
    /\ \A p \in Processes : step[p] \in Working => \E d \in Dims : Reembedding(p, d)

LEMMA SpaceInit == ASSUME RuntimeInit PROVE SpaceInv
<1>1. \A p \in Processes : step[p] \in {"down", "serving"} /\ dim[p] = SeedDim
  BY DEF RuntimeInit
<1>2. Alone /\ \A p \in Processes : step[p] \notin Working BY <1>1 DEF Alone, Busy, Working
<1>3. \A p \in Processes : Fits(p, SeedDim) BY <1>1 DEF Fits
<1>4. \A t \in Tables : Whole(t, SeedDim) BY DEF RuntimeInit, Whole
<1> QED BY <1>2, <1>3, <1>4, RuntimeAssumption DEF SpaceInv, Space

(* What is left to show of a step: how things stand where no re-embedding   *)
(* is under way after it, and where one is                                  *)
LEMMA SpaceHolds ==
  ASSUME Alone', NEW d \in Dims, Space(d)', \A p \in Processes : step'[p] \notin Working
  PROVE  SpaceInv'
BY DEF SpaceInv

LEMMA ReembeddingHolds ==
  ASSUME Alone', NEW p \in Processes, NEW d \in Dims, Reembedding(p, d)', step'[p] \in Working
  PROVE  SpaceInv'
<1>1. \A q \in Processes : step'[q] \in Working => q = p BY DEF Alone, Busy
<1> QED BY <1>1 DEF SpaceInv

(* Where nothing is stored and no index is made *)
RowsStay == UNCHANGED <<row, vector, index, cleared, degraded>>

LEMMA SpaceStays ==
  ASSUME NEW d \in Dims, Space(d), RowsStay, \A p \in Processes : Fits(p, d)'
  PROVE  Space(d)'
<1>1. \A t \in Tables : Whole(t, d)' BY DEF Space, Whole, Excepted, RowsStay
<1> QED BY <1>1 DEF Space

(* The others stay where they are *)
OthersStay(p) ==
  \A q \in Processes \ {p} :
    step'[q] = step[q] /\ dim'[q] = dim[q] /\ aim'[q] = aim[q] /\ work'[q] = work[q]

(* A process that moves while it starts is alone as before *)
LEMMA StaysAlone ==
  ASSUME Alone, NEW p \in Processes, OthersStay(p),
         step'[p] \in Busy => step[p] \in Busy,
         step'[p] # "down" => step[p] # "down" /\ dim'[p] = dim[p]
  PROVE  Alone'
BY DEF Alone, OthersStay

(* The hypotheses under which a step is looked at *)
QuietStep ==
  /\ MutexInv /\ RuntimeTyped /\ HandsInv /\ LostInv /\ SpaceInv
  /\ Quiet /\ Quiet'

LEMMA AloneNow == ASSUME QuietStep PROVE Alone
BY DEF QuietStep, SpaceInv

(* With somebody on its way who has not come to work *)
LEMMA SpaceNow ==
  ASSUME QuietStep, NEW p \in Processes, step[p] \in Busy \ Working
  PROVE  \E d \in Dims : Space(d)
<1>1. \A q \in Processes : step[q] \notin Working BY DEF QuietStep, SpaceInv, Alone, Busy
<1> QED BY <1>1 DEF QuietStep, SpaceInv

LEMMA ReembeddingNow ==
  ASSUME QuietStep, NEW p \in Processes, step[p] \in Working
  PROVE  \E d \in Dims : Reembedding(p, d)
BY DEF QuietStep, SpaceInv

-----------------------------------------------------------------------------
(* A process that moves to s, with the same dimension, and reaches no work *)
LEMMA StartingMoves ==
  ASSUME QuietStep, NEW p \in Processes, RowsStay, OthersStay(p),
         step[p] \in Busy \ Working, step'[p] \in (Busy \cup {"serving"}) \ Working,
         dim'[p] = dim[p],
         \A d \in Dims : Space(d) => Fits(p, d)'
  PROVE  SpaceInv'
<1>1. Alone' BY AloneNow, StaysAlone DEF Busy, Working
<1>2. PICK d \in Dims : Space(d) BY SpaceNow
<1>3. \A q \in Processes : Fits(q, d)'
  <2>1. \A q \in Processes \ {p} : Fits(q, d)' BY <1>2 DEF Space, Fits, OthersStay
  <2> QED BY <1>2, <2>1
<1>4. \A q \in Processes : step'[q] \notin Working
  <2>1. \A q \in Processes \ {p} : step[q] \notin Busy BY AloneNow DEF Alone
  <2> QED BY <2>1 DEF OthersStay, Busy
<1> QED BY <1>1, <1>2, <1>3, <1>4, SpaceStays, SpaceHolds

LEMMA StartKeepsSpace ==
  ASSUME QuietStep, NEW p \in Processes, StartProcess(p)
  PROVE  SpaceInv'
<1>1. /\ RowsStay /\ step[p] = "down" /\ step' = [step EXCEPT ![p] = "sync"]
      /\ aim' = aim /\ work' = work
  BY DEF StartProcess, StepTo, rowVars, RowsStay
<1>2. PICK c \in StartDims[p] :
        /\ dim' = [dim EXCEPT ![p] = c]
        /\ trouble' = trouble \cup {k \in {"crowd", "mix"} :
             \E q \in {q \in Processes \ {p} : step[q] # "down"} :
               IF k = "crowd" THEN step[q] # "serving" ELSE dim[q] # c}
  BY DEF StartProcess
<1>3. trouble' = {} BY DEF QuietStep, Quiet
<1>4. ASSUME NEW q \in Processes \ {p}, step[q] # "down" PROVE step[q] = "serving" /\ dim[q] = c
  <2>1. step[q] # "serving" => "crowd" \in trouble' BY <1>2, <1>4
  <2>2. dim[q] # c => "mix" \in trouble' BY <1>2, <1>4
  <2> QED BY <1>3, <2>1, <2>2
<1>5. OthersStay(p) /\ step'[p] = "sync" /\ dim'[p] = c
  BY <1>1, <1>2 DEF OthersStay, QuietStep, RuntimeTyped, EmbeddingTypeOK
<1>6. Alone' BY <1>4, <1>5 DEF Alone, OthersStay, Busy, Working
<1>7. \A q \in Processes : step[q] \notin Working /\ step'[q] \notin Working
  BY <1>1, <1>4, <1>5 DEF OthersStay, Working
<1>8. PICK d \in Dims : Space(d) BY <1>7 DEF QuietStep, SpaceInv
<1>9. \A q \in Processes : Fits(q, d)'
  BY <1>5, <1>8 DEF Space, Fits, OthersStay
<1> QED BY <1>1, <1>6, <1>7, <1>8, <1>9, SpaceStays, SpaceHolds

(* The lock is free: whoever had it would be on its way, too *)
LEMMA LockIsFree ==
  ASSUME QuietStep, NEW p \in Processes, step[p] = "lock"
  PROVE  lock = Gone
<1>1. lock # Gone => lock \in Processes /\ step[lock] \in Held BY DEF QuietStep, MutexInv, Quiet
<1>2. Alone BY AloneNow
<1> QED BY <1>1, <1>2 DEF Alone, Held, Busy, Working

LEMMA StartStepsKeepSpace ==
  ASSUME QuietStep, NEW p \in Processes,
         SyncSettings(p) \/ InspectIndex(p) \/ ReapLock(p) \/ CreateLock(p)
  PROVE  SpaceInv'
<1> USE DEF StepTo, rowVars, lockVars, boundVars, seenVars, runVars
<1>1. step \in [Processes -> Held \cup Outside] /\ aim \in [Processes -> Dims]
  BY DEF QuietStep, RuntimeTyped, EmbeddingTypeOK
<1>2. CASE SyncSettings(p)
  <2>1. /\ RowsStay /\ OthersStay(p) /\ step[p] = "sync" /\ step'[p] = "inspect"
        /\ dim' = dim
    BY <1>1, <1>2 DEF SyncSettings, RowsStay, OthersStay
  <2>2. \A d \in Dims : Fits(p, d)' BY <2>1 DEF Fits
  <2> QED BY <2>1, <2>2, StartingMoves DEF Busy, Working
<1>3. CASE InspectIndex(p)
  <2>1. /\ RowsStay /\ OthersStay(p) /\ step[p] = "inspect" /\ step'[p] \in {"reap", "ensure"}
        /\ dim' = dim
    BY <1>1, <1>3 DEF InspectIndex, RowsStay, OthersStay
  <2>2. ASSUME NEW d \in Dims, Space(d) PROVE Fits(p, d)'
    <3>1. IndexDimension = d BY <2>2 DEF Space, Whole, IndexDimension, Tables
    <3>2. d # Gone BY RuntimeAssumption
    <3>3. \/ step'[p] = "reap" /\ aim'[p] = dim[p] /\ d # dim[p]
          \/ step'[p] = "ensure" /\ aim'[p] = d
      BY <1>1, <1>3, <3>1, <3>2 DEF InspectIndex
    <3> QED BY <2>1, <3>3 DEF Fits
  <2> QED BY <2>1, <2>2, StartingMoves DEF Busy, Working
<1>4. CASE ReapLock(p)
  <2>1. /\ RowsStay /\ OthersStay(p) /\ step[p] = "reap" /\ step'[p] = "lock"
        /\ dim' = dim /\ aim' = aim
    BY <1>1, <1>4 DEF ReapLock, RowsStay, OthersStay
  <2>2. \A d \in Dims : Space(d) => Fits(p, d)' BY <2>1 DEF Space, Fits
  <2> QED BY <2>1, <2>2, StartingMoves DEF Busy, Working
<1>5. CASE CreateLock(p)
  <2>1. lock = Gone BY <1>5, LockIsFree DEF CreateLock
  <2>2. mishaps' = mishaps BY DEF QuietStep, Quiet
  <2>3. mishaps # mishaps + 1 BY DEF QuietStep, MutexInv
  <2>4. /\ RowsStay /\ OthersStay(p) /\ step[p] = "lock" /\ step'[p] = "recheck"
        /\ dim' = dim /\ aim' = aim
    BY <1>1, <1>5, <2>1, <2>2, <2>3 DEF CreateLock, Mishap, RowsStay, OthersStay
  <2>5. \A d \in Dims : Space(d) => Fits(p, d)' BY <2>4 DEF Space, Fits
  <2> QED BY <2>4, <2>5, StartingMoves DEF Busy, Working
<1> QED BY <1>2, <1>3, <1>4, <1>5

(* The work begins: whoever serves has found an index that was not of its   *)
(* own dimension, which is that of this process                             *)
LEMMA RecheckKeepsSpace ==
  ASSUME QuietStep, NEW p \in Processes, RecheckIndex(p)
  PROVE  SpaceInv'
<1>1. /\ RowsStay /\ step[p] = "recheck" /\ dim' = dim /\ aim' = aim /\ work' = work
      /\ step' = [step EXCEPT ![p] =
           IF IndexDimension \in {Gone, dim[p]} THEN "release" ELSE "select"]
  BY DEF RecheckIndex, StepTo, rowVars, seenVars, RowsStay
<1>2. PICK d \in Dims : Space(d) BY <1>1, SpaceNow DEF Busy, Working
<1>3. IndexDimension = d BY <1>2 DEF Space, Whole, IndexDimension, Tables
<1>4. aim[p] = dim[p] /\ dim[p] # d /\ d # Gone
  BY <1>1, <1>2, RuntimeAssumption DEF Space, Fits
<1>5. step' = [step EXCEPT ![p] = "select"] BY <1>1, <1>3, <1>4
<1>6. OthersStay(p) /\ step'[p] = "select"
  BY <1>1, <1>5 DEF OthersStay, QuietStep, RuntimeTyped
<1>7. Alone' BY <1>1, <1>6, AloneNow, StaysAlone DEF Busy, Working
<1>8. ASSUME NEW q \in Processes, step'[q] = "serving" PROVE aim[q] # dim[q]
  <2>1. step[q] = "serving" BY <1>6, <1>8 DEF OthersStay
  <2>2. dim[q] = dim[p] BY <1>1, <2>1, AloneNow DEF Alone
  <2> QED BY <1>2, <1>4, <2>1, <2>2 DEF Space, Fits
<1>9. PICK c \in Dims : c = dim[p] BY DEF QuietStep, RuntimeTyped, EmbeddingTypeOK
<1>10. work[p].table = "chunk" BY <1>1 DEF QuietStep, HandsInv, Working, NoWork
<1>11. Reembedding(p, c)'
  BY <1>1, <1>4, <1>6, <1>8, <1>9, <1>10 DEF Reembedding
<1> QED BY <1>6, <1>7, <1>11, ReembeddingHolds DEF Working

-----------------------------------------------------------------------------
(* A re-embedding of p goes on: the others are as they were *)
LEMMA WorkingMoves ==
  ASSUME QuietStep, NEW p \in Processes, NEW d \in Dims, Reembedding(p, d),
         step[p] \in Working, step'[p] \in Working, OthersStay(p),
         dim' = dim, aim' = aim,
         work'[p].table = "entity" => Whole("chunk", d)',
         step'[p] = "release" /\ ~work'[p].fails => \A t \in Tables : Whole(t, d)',
         \A t \in Tables, r \in RowIds :
           work'[p].table = t /\ row'[t][r] \notin {Gone, Unborn} =>
             /\ step'[p] = "redefine" => <<t, r>> \in degraded'
             /\ step'[p] = "write" => \/ vector'[t][r] # Gone /\ <<t, r>> \in degraded'
                                      \/ <<r, row'[t][r]>> \in work'[p].read
                                      \/ <<t, r>> \in cleared'
  PROVE  SpaceInv'
<1>1. Alone' BY AloneNow, StaysAlone DEF Busy, Working
<1>2. \A q \in Processes : step'[q] = "serving" => aim'[q] # dim'[q]
  BY DEF Reembedding, OthersStay, Working
<1>3. Reembedding(p, d)' BY <1>2 DEF Reembedding
<1> QED BY <1>1, <1>3, ReembeddingHolds

LEMMA WholeStays ==
  ASSUME NEW t \in Tables, NEW d \in Dims, Whole(t, d), index'[t] = index[t],
         \A r \in RowIds : /\ row'[t][r] = row[t][r] /\ vector'[t][r] = vector[t][r]
                           /\ Excepted(t, r) => Excepted(t, r)'
  PROVE  Whole(t, d)'
BY DEF Whole

(* A table is done: it is the next one's turn, or the end *)
LEMMA DoneMoves ==
  ASSUME QuietStep, NEW p \in Processes, NEW d \in Dims, Reembedding(p, d), NEW t \in Tables,
         step[p] \in Working, work[p].table = t, Whole(t, d)', TableDone(p),
         t = "entity" /\ Whole("chunk", d) => Whole("chunk", d)',
         dim' = dim, aim' = aim
  PROVE  SpaceInv'
<1>1. step \in [Processes -> Held \cup Outside] /\ work \in [Processes -> Works]
  BY DEF QuietStep, RuntimeTyped
<1>2. CASE t = "chunk"
  <2>1. /\ work' = [work EXCEPT ![p] = [NoWork EXCEPT !.table = "entity"]]
        /\ step' = [step EXCEPT ![p] = "select"]
    BY <1>2 DEF TableDone, Table, StepTo
  <2>2. OthersStay(p) /\ step'[p] = "select" BY <1>1, <2>1 DEF OthersStay
  <2> QED BY <1>2, <2>2, WorkingMoves DEF Working
<1>3. CASE t = "entity"
  <2>1. work' = work /\ step' = [step EXCEPT ![p] = "release"]
    BY <1>3 DEF TableDone, Table, StepTo
  <2>2. OthersStay(p) /\ step'[p] = "release" BY <1>1, <2>1 DEF OthersStay
  <2>3. Whole("chunk", d)' BY <1>3 DEF Reembedding
  <2>4. \A u \in Tables : Whole(u, d)' BY <1>3, <2>3 DEF Tables
  <2> QED BY <2>2, <2>3, <2>4, WorkingMoves DEF Working
<1> QED BY <1>2, <1>3 DEF Tables

(* A table fails: nothing is claimed of it any more *)
LEMMA FailedMoves ==
  ASSUME QuietStep, NEW p \in Processes, NEW d \in Dims, Reembedding(p, d),
         step[p] \in Working, TableFails(p), RowsStay, dim' = dim, aim' = aim
  PROVE  SpaceInv'
<1>1. step \in [Processes -> Held \cup Outside] /\ work \in [Processes -> Works]
  BY DEF QuietStep, RuntimeTyped
<1>2. /\ OthersStay(p) /\ step'[p] = "release"
      /\ work'[p].fails = TRUE /\ work'[p].table = work[p].table
  BY <1>1 DEF TableFails, StepTo, OthersStay, Works
<1>3. work'[p].table = "entity" => Whole("chunk", d)'
  BY <1>2 DEF Reembedding, Whole, Excepted, RowsStay
<1> QED BY <1>2, <1>3, WorkingMoves DEF Working

LEMMA SelectKeepsSpace ==
  ASSUME QuietStep, NEW p \in Processes, SelectRows(p)
  PROVE  SpaceInv'
<1>1. step \in [Processes -> Held \cup Outside] /\ work \in [Processes -> Works]
  BY DEF QuietStep, RuntimeTyped
<1>2. /\ step[p] = "select" /\ RowsStay /\ dim' = dim /\ aim' = aim
  BY DEF SelectRows, rowVars, seenVars, RowsStay
<1>3. PICK d \in Dims : Reembedding(p, d) BY <1>2, ReembeddingNow DEF Working
<1>4. mishaps' # mishaps + 1 BY DEF QuietStep, Quiet
<1>5. /\ OthersStay(p) /\ step'[p] \in {"remove", "redefine"}
      /\ work'[p].table = work[p].table
      /\ step'[p] = "redefine" => Present(work[p].table) = {}
  BY <1>1, <1>2, <1>4 DEF SelectRows, StepTo, Mishap, OthersStay, Works, Table
<1>6. work'[p].table = "entity" => Whole("chunk", d)'
  BY <1>2, <1>3, <1>5 DEF Reembedding, Whole, Excepted, RowsStay
<1> QED BY <1>2, <1>3, <1>5, <1>6, WorkingMoves DEF Working, Present, RowsStay

LEMMA RedefineKeepsSpace ==
  ASSUME QuietStep, NEW p \in Processes, RedefineIndex(p)
  PROVE  SpaceInv'
<1>1. /\ step[p] = "redefine" /\ dim' = dim /\ aim' = aim
      /\ UNCHANGED <<row, vector, cleared, degraded>>
  BY DEF RedefineIndex, seenVars
<1>2. PICK d \in Dims : Reembedding(p, d) BY <1>1, ReembeddingNow DEF Working
<1>3. PICK t \in Tables : t = work[p].table BY DEF QuietStep, RuntimeTyped, Works
<1>4. CASE TableFails(p) /\ index' = index
  BY <1>1, <1>2, <1>4, FailedMoves DEF RowsStay, Working
<1>5. CASE TableDone(p) /\ index' = [index EXCEPT ![t] = d]
  <2>1. \A u \in Tables : index'[u] = IF u = t THEN d ELSE index[u]
    BY <1>5 DEF QuietStep, RuntimeTyped, EmbeddingTypeOK
  <2>2. Whole(t, d)'
    BY <1>1, <1>2, <1>3, <2>1 DEF Whole, Excepted, Reembedding
  <2>3. t = "entity" /\ Whole("chunk", d) => Whole("chunk", d)'
    BY <1>1, <2>1 DEF Whole, Excepted, Tables
  <2> QED BY <1>1, <1>2, <1>3, <1>5, <2>2, <2>3, DoneMoves DEF Working
<1> QED BY <1>2, <1>3, <1>4, <1>5 DEF RedefineIndex, Table, Reembedding

LEMMA RemoveKeepsSpace ==
  ASSUME QuietStep, NEW p \in Processes, RemoveIndex(p)
  PROVE  SpaceInv'
<1>1. step \in [Processes -> Held \cup Outside] /\ work \in [Processes -> Works]
  BY DEF QuietStep, RuntimeTyped
<1>2. /\ step[p] = "remove" /\ dim' = dim /\ aim' = aim
      /\ UNCHANGED <<row, vector, cleared, degraded>>
  BY DEF RemoveIndex, seenVars
<1>3. PICK d \in Dims : Reembedding(p, d) BY <1>2, ReembeddingNow DEF Working
<1>4. PICK t \in Tables : t = work[p].table BY <1>1 DEF Works
<1>5. CASE TableFails(p) /\ index' = index
  BY <1>2, <1>3, <1>5, FailedMoves DEF RowsStay, Working
<1>6. CASE index' = [index EXCEPT ![t] = Gone] /\ StepTo(p, "clear") /\ work' = work
  <2>1. OthersStay(p) /\ step'[p] = "clear" BY <1>1, <1>2, <1>6 DEF StepTo, OthersStay
  <2>2. t = "entity" => index'["chunk"] = index["chunk"]
    BY <1>6 DEF QuietStep, RuntimeTyped, EmbeddingTypeOK, Tables
  <2>3. work'[p].table = "entity" => Whole("chunk", d)'
    BY <1>2, <1>3, <1>4, <1>6, <2>2 DEF Reembedding, Whole, Excepted
  <2> QED BY <1>2, <1>3, <1>6, <2>1, <2>3, WorkingMoves DEF Working
<1> QED BY <1>4, <1>5, <1>6 DEF RemoveIndex, Table

(* Nobody else is about to write, so that a row without a vector is in      *)
(* `cleared` already                                                        *)
LEMMA ClearKeepsSpace ==
  ASSUME QuietStep, NEW p \in Processes, ClearVectors(p)
  PROVE  SpaceInv'
<1>1. step \in [Processes -> Held \cup Outside] /\ work \in [Processes -> Works]
  BY DEF QuietStep, RuntimeTyped
<1>2. PICK t \in Tables : t = work[p].table BY <1>1 DEF Works
<1>3. /\ step[p] = "clear" /\ dim' = dim /\ aim' = aim /\ work' = work
      /\ row' = row /\ index' = index /\ step' = [step EXCEPT ![p] = "write"]
      /\ vector' = [vector EXCEPT ![t] = [r \in RowIds |-> Gone]]
      /\ cleared' = cleared \cup {<<t, r>> : r \in
           {r \in Vectors(t) : <<r, row[t][r]>> \notin work[p].read}}
      /\ degraded' = {e \in degraded : e[1] # t}
  BY <1>2 DEF ClearVectors, Table, StepTo
<1>4. PICK d \in Dims : Reembedding(p, d) BY <1>3, ReembeddingNow DEF Working
<1>5. OthersStay(p) /\ step'[p] = "write" BY <1>1, <1>3 DEF OthersStay
<1>6. ASSUME NEW u \in Tables, u # t, Whole(u, d) PROVE Whole(u, d)'
  <2>1. \A r \in RowIds : vector'[u][r] = vector[u][r]
    BY <1>3, <1>6 DEF QuietStep, RuntimeTyped, EmbeddingTypeOK
  <2>2. \A r \in RowIds : Excepted(u, r) => Excepted(u, r)' BY <1>3, <1>6 DEF Excepted
  <2> QED BY <1>3, <1>6, <2>1, <2>2, WholeStays
<1>7. work'[p].table = "entity" => Whole("chunk", d)'
  BY <1>2, <1>3, <1>4, <1>6 DEF Reembedding, Tables
<1>8. \A q \in Processes : step[q] # "write"
  BY <1>3, AloneNow DEF Alone, Busy, Working
<1>9. ASSUME NEW r \in RowIds, row[t][r] \notin {Gone, Unborn}
      PROVE  <<r, row[t][r]>> \in work[p].read \/ <<t, r>> \in cleared'
  <2>1. vector[t][r] = Gone => <<t, r>> \in cleared
    BY <1>8, <1>9 DEF QuietStep, LostInv, AboutToWrite
  <2> QED BY <1>3, <2>1 DEF Vectors
<1>10. \A u \in Tables, r \in RowIds :
        work'[p].table = u /\ row'[u][r] \notin {Gone, Unborn} =>
          <<r, row'[u][r]>> \in work'[p].read \/ <<u, r>> \in cleared'
  BY <1>2, <1>3, <1>9
<1> QED BY <1>3, <1>4, <1>5, <1>7, <1>10, WorkingMoves DEF Working

(* What was read is as it was or excepted; what was not is excepted *)
LEMMA WriteKeepsSpace ==
  ASSUME QuietStep, NEW p \in Processes, WriteVectors(p)
  PROVE  SpaceInv'
<1> DEFINE read == {v[1] : v \in work[p].read}
           text(r) == CHOOSE n \in 0..MaxWrites : <<r, n>> \in work[p].read
<1>1. step \in [Processes -> Held \cup Outside] /\ work[p] \in Works
  BY DEF QuietStep, RuntimeTyped
<1>2. PICK t \in Tables : t = work[p].table BY <1>1 DEF Works
<1>3. /\ step[p] = "write" /\ dim' = dim /\ aim' = aim /\ row' = row /\ degraded' = degraded
  BY DEF WriteVectors
<1>4. PICK d \in Dims : Reembedding(p, d) BY <1>3, ReembeddingNow DEF Working
<1>5. mishaps' # mishaps + 1 BY DEF QuietStep, Quiet
<1>6. CASE /\ read \cap Vectors(t) # {} /\ cleared' = cleared \cup LeavesCleared(p)
           /\ TableFails(p) /\ vector' = vector /\ index' = index
  <2>1. /\ OthersStay(p) /\ step'[p] = "release"
        /\ work'[p].fails = TRUE /\ work'[p].table = work[p].table
    BY <1>1, <1>3, <1>6 DEF TableFails, StepTo, OthersStay, Works, QuietStep, RuntimeTyped
  <2>2. work'[p].table = "entity" => Whole("chunk", d)'
    BY <1>3, <1>4, <1>6, <2>1 DEF Reembedding, Whole, Excepted
  <2> QED BY <1>3, <1>4, <2>1, <2>2, WorkingMoves DEF Working
<1>7. CASE /\ read \cap Vectors(t) = {} /\ index' = [index EXCEPT ![t] = d] /\ TableDone(p)
           /\ vector' = [vector EXCEPT ![t] = [r \in RowIds |->
                IF r \in read THEN [dim |-> d, text |-> text(r)] ELSE vector[t][r]]]
           /\ cleared' = cleared \ {<<t, v[1]>> : v \in {v \in work[p].read : row[t][v[1]] = v[2]}}
  <2>1. /\ \A u \in Tables : index'[u] = IF u = t THEN d ELSE index[u]
        /\ \A u \in Tables, r \in RowIds : vector'[u][r] =
             IF u = t /\ r \in read THEN [dim |-> d, text |-> text(r)] ELSE vector[u][r]
    BY <1>7 DEF QuietStep, RuntimeTyped, EmbeddingTypeOK
  <2>2. ASSUME NEW r \in RowIds, row[t][r] \notin {Gone, Unborn}
        PROVE  vector'[t][r] = [dim |-> d, text |-> row[t][r]] \/ Excepted(t, r)'
    <3>1. \/ vector[t][r] # Gone /\ <<t, r>> \in degraded
          \/ <<r, row[t][r]>> \in work[p].read
          \/ <<t, r>> \in cleared
      BY <1>2, <1>3, <1>4, <2>2 DEF Reembedding
    <3>2. ASSUME <<r, row[t][r]>> \in work[p].read
          PROVE  vector'[t][r] = [dim |-> d, text |-> row[t][r]]
      <4>1. r \in read BY <3>2
      <4>2. row[t][r] \in 0..MaxWrites /\ \A n \in 0..MaxWrites :
              <<r, n>> \in work[p].read => n = row[t][r]
        BY <1>1, <3>2 DEF QuietStep, HandsInv, Works
      <4>3. text(r) = row[t][r] BY <3>2, <4>2
      <4> QED BY <2>1, <4>1, <4>3
    <3>3. ASSUME <<r, row[t][r]>> \notin work[p].read, <<t, r>> \in cleared
          PROVE  <<t, r>> \in cleared'
      <4>1. ASSUME NEW v \in work[p].read, row[t][v[1]] = v[2] PROVE v[1] # r
        <5>1. v = <<v[1], v[2]>> BY <1>1 DEF Works
        <5> QED BY <3>3, <4>1, <5>1
      <4> QED BY <1>7, <3>3, <4>1
    <3> QED BY <1>3, <3>1, <3>2, <3>3 DEF Excepted
  <2>3. Whole(t, d)' BY <1>3, <2>1, <2>2 DEF Whole
  <2>4. ASSUME t = "entity", Whole("chunk", d) PROVE Whole("chunk", d)'
    <3>1. \A r \in RowIds : Excepted("chunk", r) => Excepted("chunk", r)'
      BY <1>3, <1>7, <2>4 DEF Excepted
    <3> QED BY <1>3, <2>1, <2>4, <3>1, WholeStays DEF Tables
  <2> QED BY <1>2, <1>3, <1>4, <1>7, <2>3, <2>4, DoneMoves DEF Working
<1>8. dim[p] = d BY <1>4 DEF Reembedding
<1>9. vector \in [Tables -> [RowIds -> VectorRows \cup {Gone}]]
  BY DEF QuietStep, RuntimeTyped, EmbeddingTypeOK
<1> QED BY <1>2, <1>5, <1>6, <1>7, <1>8, <1>9 DEF WriteVectors, Table, Mishap

-----------------------------------------------------------------------------
(* The end of a re-embedding: one that failed leaves its trace in `trouble` *)
LEMMA ReleaseKeepsSpace ==
  ASSUME QuietStep, NEW p \in Processes, ReleaseLock(p)
  PROVE  SpaceInv'
<1>1. step \in [Processes -> Held \cup Outside] BY DEF QuietStep, RuntimeTyped
<1>2. step[p] = "release" /\ RowsStay /\ "failure" \notin trouble'
  BY DEF ReleaseLock, rowVars, RowsStay, QuietStep, Quiet
<1>3. /\ ~work[p].fails /\ step' = [step EXCEPT ![p] = "ensure"]
      /\ UNCHANGED <<dim, aim, work>>
  BY <1>2 DEF ReleaseLock, StepTo
<1>4. OthersStay(p) /\ step'[p] = "ensure" BY <1>1, <1>3 DEF OthersStay
<1>5. PICK d \in Dims : Reembedding(p, d) BY <1>2, ReembeddingNow DEF Working
<1>6. Alone' BY <1>2, <1>3, <1>4, AloneNow, StaysAlone DEF Busy, Working
<1>7. ASSUME NEW q \in Processes \ {p}
      PROVE  step'[q] \in {"down", "serving"} /\ step'[q] = step[q]
  <2>1. step[q] \notin Busy BY <1>2, AloneNow DEF Alone, Busy, Working
  <2> QED BY <1>1, <1>4, <2>1 DEF OthersStay, Busy, Working, Held, Outside
<1>8. \A q \in Processes : Fits(q, d)'
  BY <1>3, <1>4, <1>5, <1>7 DEF Fits, Reembedding
<1>9. \A t \in Tables : Whole(t, d)'
  BY <1>2, <1>3, <1>5 DEF Reembedding, Whole, Excepted, RowsStay
<1>10. Space(d)' BY <1>8, <1>9 DEF Space
<1> QED BY <1>4, <1>6, <1>7, <1>10, SpaceHolds DEF Working

(* ensure_runtime finds the index of the dimension it aims at *)
LEMMA EnsureKeepsSpace ==
  ASSUME QuietStep, NEW p \in Processes, NEW t \in Tables,
         LookAtIndex(p, t) \/ DefineIndex(p, t) \/ PollIndex(p, t)
  PROVE  SpaceInv'
<1>1. step[p] = "ensure" BY DEF LookAtIndex, DefineIndex, PollIndex
<1>2. PICK d \in Dims : Space(d) BY <1>1, SpaceNow DEF Busy, Working
<1>3. aim[p] = d /\ index[t] = d BY <1>1, <1>2 DEF Space, Fits, Whole
<1>4. "failure" \notin trouble' BY DEF QuietStep, Quiet
<1>5. UNCHANGED <<row, vector, cleared, degraded, step, dim, aim, work>>
  BY <1>4 DEF LookAtIndex, DefineIndex, PollIndex, rowVars, seenVars
<1>6. index' = index
  <2>1. index' = index \/ index' = [index EXCEPT ![t] = aim[p]]
    BY DEF LookAtIndex, DefineIndex, PollIndex, rowVars
  <2> QED BY <1>3, <2>1 DEF QuietStep, RuntimeTyped, EmbeddingTypeOK
<1>7. RowsStay BY <1>5, <1>6 DEF RowsStay
<1>8. \A c \in Dims : Space(c) => Fits(p, c)' BY <1>5 DEF Space, Fits
<1>9. OthersStay(p) BY <1>5 DEF OthersStay
<1> QED BY <1>1, <1>5, <1>7, <1>8, <1>9, StartingMoves DEF Busy, Working

LEMMA BeginKeepsSpace ==
  ASSUME QuietStep, NEW p \in Processes, BeginServing(p)
  PROVE  SpaceInv'
<1>1. /\ step[p] = "ensure" /\ RowsStay /\ dim' = dim /\ aim' = aim
      /\ step' = [step EXCEPT ![p] = "serving"] /\ work' = [work EXCEPT ![p] = NoWork]
  BY DEF BeginServing, StepTo, rowVars, seenVars, RowsStay
<1>2. OthersStay(p) /\ step'[p] = "serving"
  BY <1>1 DEF OthersStay, QuietStep, RuntimeTyped
<1>3. \A d \in Dims : Space(d) => Fits(p, d)' BY <1>1, <1>2 DEF Space, Fits
<1> QED BY <1>1, <1>2, <1>3, StartingMoves DEF Busy, Working

-----------------------------------------------------------------------------
(* A server stores a row: with a vector of the dimension d, or as a         *)
(* degraded one                                                             *)
LEMMA StoringKeepsWhole ==
  ASSUME QuietStep, NEW p \in Processes, NEW t \in Tables, NEW r \in RowIds, NEW d \in Dims,
         NEW u \in Tables, Whole(u, d), index' = index,
         row' = [row EXCEPT ![t][r] = IF row[t][r] = Gone THEN Gone ELSE writes],
         vector' = [vector EXCEPT ![t][r] = [dim |-> dim[p], text |-> writes]],
         cleared' = cleared \ {<<t, r>>},
         degraded' = IF aim[p] = dim[p] THEN degraded \ {<<t, r>>} ELSE degraded \cup {<<t, r>>},
         aim[p] = dim[p] => dim[p] = d
  PROVE  Whole(u, d)'
<1>1. \A s \in RowIds : <<u, s>> # <<t, r>> =>
        /\ row'[u][s] = row[u][s] /\ vector'[u][s] = vector[u][s]
        /\ Excepted(u, s) => Excepted(u, s)'
  BY DEF QuietStep, RuntimeTyped, EmbeddingTypeOK, Excepted
<1>2. /\ row'[t][r] = IF row[t][r] = Gone THEN Gone ELSE writes
      /\ vector'[t][r] = [dim |-> dim[p], text |-> writes]
  BY DEF QuietStep, RuntimeTyped, EmbeddingTypeOK
<1>3. \/ vector'[t][r] = [dim |-> d, text |-> writes]
      \/ Excepted(t, r)'
  BY <1>2 DEF Excepted
<1> QED BY <1>1, <1>2, <1>3 DEF Whole

LEMMA DeletingKeepsWhole ==
  ASSUME QuietStep, NEW t \in Tables, NEW r \in RowIds, NEW d \in Dims,
         NEW u \in Tables, Whole(u, d), UNCHANGED <<index, cleared, degraded>>,
         row' = [row EXCEPT ![t][r] = Gone],
         vector' = [vector EXCEPT ![t][r] = Gone]
  PROVE  Whole(u, d)'
<1>1. \A s \in RowIds : <<u, s>> # <<t, r>> =>
        row'[u][s] = row[u][s] /\ vector'[u][s] = vector[u][s]
  BY DEF QuietStep, RuntimeTyped, EmbeddingTypeOK
<1>2. row'[t][r] = Gone
  BY DEF QuietStep, RuntimeTyped, EmbeddingTypeOK
<1> QED BY <1>1, <1>2 DEF Whole, Excepted

(* While nobody moves, the space is what the tables say *)
LEMMA StandingStill ==
  ASSUME QuietStep, UNCHANGED <<step, dim, aim, work>>,
         \A d \in Dims : Space(d) => \A t \in Tables : Whole(t, d)',
         \A p \in Processes, d \in Dims : Reembedding(p, d) /\ step[p] \in Working =>
           Reembedding(p, d)'
  PROVE  SpaceInv'
<1>1. Alone' BY AloneNow DEF Alone
<1>2. CASE \E p \in Processes : step[p] \in Working
  BY <1>1, <1>2, ReembeddingNow, ReembeddingHolds
<1>3. CASE \A p \in Processes : step[p] \notin Working
  <2>1. PICK d \in Dims : Space(d) BY <1>3 DEF QuietStep, SpaceInv
  <2>2. \A p \in Processes : Fits(p, d)' BY <2>1 DEF Space, Fits
  <2>3. Space(d)' BY <2>1, <2>2 DEF Space
  <2> QED BY <1>1, <1>3, <2>3, SpaceHolds
<1> QED BY <1>2, <1>3

LEMMA WriteRowKeepsSpace ==
  ASSUME QuietStep, NEW p \in Processes, WriteRow(p)
  PROVE  SpaceInv'
<1>1. PICK t \in Tables, r \in RowIds : write[p] = <<t, r>>
  BY DEF WriteRow, QuietStep, RuntimeTyped
<1>2. UNCHANGED <<index, step, dim, aim, work>> BY DEF WriteRow, runVars
<1>3. step[p] = "serving" BY DEF WriteRow, QuietStep, HandsInv
<1>4. CASE UNCHANGED <<row, vector, cleared, degraded>>
  <2>1. \A u \in Tables, d \in Dims : Whole(u, d) => Whole(u, d)'
    BY <1>2, <1>4 DEF Whole, Excepted
  <2>2. \A q \in Processes, d \in Dims : Reembedding(q, d) => Reembedding(q, d)'
    BY <1>2, <1>4, <2>1 DEF Reembedding, Tables
  <2> QED BY <1>2, <2>1, <2>2, StandingStill DEF Space
<1>5. CASE /\ row' = [row EXCEPT ![t][r] = IF row[t][r] = Gone THEN Gone ELSE writes]
           /\ vector' = [vector EXCEPT ![t][r] = [dim |-> dim[p], text |-> writes]]
           /\ cleared' = cleared \ {<<t, r>>}
           /\ degraded' = IF aim[p] = dim[p] THEN degraded \ {<<t, r>>}
                          ELSE degraded \cup {<<t, r>>}
  <2>1. \A u \in Tables, d \in Dims : Whole(u, d) /\ (aim[p] = dim[p] => dim[p] = d) => Whole(u, d)'
    BY <1>2, <1>5, StoringKeepsWhole
  <2>2. \A d \in Dims : Space(d) => \A u \in Tables : Whole(u, d)'
    BY <1>3, <2>1 DEF Space, Fits
  <2>3. ASSUME NEW q \in Processes, NEW d \in Dims, Reembedding(q, d), step[q] \in Working
        PROVE  Reembedding(q, d)'
    <3>1. aim[p] # dim[p] BY <1>3, <2>3 DEF Reembedding
    <3>2. \A u \in Tables : Whole(u, d) => Whole(u, d)' BY <2>1, <3>1
    <3>3. /\ \A u \in Tables, s \in RowIds : <<u, s>> # <<t, r>> =>
               /\ row'[u][s] = row[u][s] /\ vector'[u][s] = vector[u][s]
               /\ <<u, s>> \in cleared => <<u, s>> \in cleared'
          /\ degraded \subseteq degraded' /\ <<t, r>> \in degraded'
          /\ vector'[t][r] = [dim |-> dim[p], text |-> writes]
      BY <1>5, <3>1 DEF QuietStep, RuntimeTyped, EmbeddingTypeOK
    <3>4. vector'[t][r] # Gone
      <4>1. dim[p] \in Dims /\ writes \in 0..MaxWrites
        BY DEF QuietStep, RuntimeTyped, EmbeddingTypeOK
      <4> QED BY <3>3, <4>1, RuntimeAssumption DEF VectorRows
    <3>5. work'[q].table = "entity" => Whole("chunk", d)'
      BY <1>2, <2>3, <3>2 DEF Reembedding, Tables
    <3>6. step'[q] = "release" /\ ~work'[q].fails => \A u \in Tables : Whole(u, d)'
      BY <1>2, <2>3, <3>2 DEF Reembedding
    <3>7. ASSUME NEW u \in Tables, NEW s \in RowIds, work[q].table = u,
                 row'[u][s] \notin {Gone, Unborn}
          PROVE  /\ step[q] = "redefine" => <<u, s>> \in degraded'
                 /\ step[q] = "write" => \/ vector'[u][s] # Gone /\ <<u, s>> \in degraded'
                                         \/ <<s, row'[u][s]>> \in work[q].read
                                         \/ <<u, s>> \in cleared'
      <4>1. CASE <<u, s>> = <<t, r>> BY <3>3, <3>4, <4>1
      <4>2. CASE <<u, s>> # <<t, r>> BY <2>3, <3>3, <3>7, <4>2 DEF Reembedding
      <4> QED BY <4>1, <4>2
    <3>8. dim[q] = d /\ aim[q] = d /\ \A s \in Processes : step[s] = "serving" => aim[s] # dim[s]
      BY <2>3 DEF Reembedding
    <3> QED BY <1>2, <3>5, <3>6, <3>7, <3>8 DEF Reembedding
  <2> QED BY <1>2, <2>2, <2>3, StandingStill
<1>6. /\ row \in [Tables -> [RowIds -> 0..MaxWrites \cup {Gone, Unborn}]]
      /\ vector \in [Tables -> [RowIds -> VectorRows \cup {Gone}]]
  BY DEF QuietStep, RuntimeTyped, EmbeddingTypeOK
<1> QED BY <1>1, <1>4, <1>5, <1>6 DEF WriteRow

LEMMA DeleteRowKeepsSpace ==
  ASSUME QuietStep, NEW p \in Processes, DeleteRow(p)
  PROVE  SpaceInv'
<1>1. PICK t \in Tables, r \in RowIds :
        row' = [row EXCEPT ![t][r] = Gone] /\ vector' = [vector EXCEPT ![t][r] = Gone]
  BY DEF DeleteRow, Present
<1>2. UNCHANGED <<index, step, dim, aim, work, cleared, degraded>>
  BY DEF DeleteRow, runVars, seenVars
<1>3. \A u \in Tables, d \in Dims : Whole(u, d) => Whole(u, d)'
  BY <1>1, <1>2, DeletingKeepsWhole
<1>4. ASSUME NEW q \in Processes, NEW d \in Dims, Reembedding(q, d), step[q] \in Working
      PROVE  Reembedding(q, d)'
  <2>1. \A u \in Tables, s \in RowIds : row'[u][s] # Gone =>
          row'[u][s] = row[u][s] /\ vector'[u][s] = vector[u][s]
    BY <1>1 DEF QuietStep, RuntimeTyped, EmbeddingTypeOK
  <2> QED BY <1>2, <1>3, <1>4, <2>1 DEF Reembedding, Tables
<1> QED BY <1>2, <1>3, <1>4, StandingStill DEF Space

LEMMA StopKeepsSpace ==
  ASSUME QuietStep, NEW p \in Processes, StopProcess(p)
  PROVE  SpaceInv'
<1>1. step[p] = "serving" /\ RowsStay
  BY DEF StopProcess, rowVars, seenVars, RowsStay
<1>2. OthersStay(p) /\ step'[p] = "down"
  BY DEF StopProcess, GoDown, StepTo, OthersStay, QuietStep, RuntimeTyped, EmbeddingTypeOK
<1>3. Alone' BY <1>2, AloneNow, StaysAlone DEF Busy, Working
<1>4. CASE \E q \in Processes : step[q] \in Working
  <2>1. PICK q \in Processes : step[q] \in Working BY <1>4
  <2>2. PICK d \in Dims : Reembedding(q, d) BY <2>1, ReembeddingNow
  <2>3. q # p BY <1>1, <2>1 DEF Working
  <2>4. \A t \in Tables : Whole(t, d) => Whole(t, d)' BY <1>1 DEF Whole, Excepted, RowsStay
  <2>5. \A s \in Processes : step'[s] = "serving" => aim'[s] # dim'[s]
    BY <1>2, <2>2 DEF Reembedding, OthersStay
  <2>6. step'[q] = step[q] /\ dim'[q] = dim[q] /\ aim'[q] = aim[q] /\ work'[q] = work[q]
    BY <1>2, <2>3 DEF OthersStay
  <2>7. Reembedding(q, d)'
    BY <1>1, <2>2, <2>4, <2>5, <2>6 DEF Reembedding, RowsStay, Tables
  <2> QED BY <1>3, <2>1, <2>6, <2>7, ReembeddingHolds
<1>5. CASE \A q \in Processes : step[q] \notin Working
  <2>1. PICK d \in Dims : Space(d) BY <1>5 DEF QuietStep, SpaceInv
  <2>2. \A q \in Processes : Fits(q, d)' BY <1>2, <2>1 DEF Space, Fits, OthersStay
  <2>3. Space(d)' BY <1>1, <2>1, <2>2, SpaceStays
  <2>4. \A q \in Processes : step'[q] \notin Working BY <1>2, <1>5 DEF OthersStay, Working
  <2> QED BY <1>3, <2>3, <2>4, SpaceHolds
<1> QED BY <1>4, <1>5

(* What the settings ask for, what is about to be stored and the lock are   *)
(* not part of the space                                                    *)
LEMMA UnseenKeepsSpace ==
  ASSUME QuietStep, RowsStay, UNCHANGED <<step, dim, aim, work>>
  PROVE  SpaceInv'
<1>1. \A u \in Tables, d \in Dims : Whole(u, d) => Whole(u, d)'
  BY DEF Whole, Excepted, RowsStay
<1>2. \A q \in Processes, d \in Dims : Reembedding(q, d) => Reembedding(q, d)'
  BY <1>1 DEF Reembedding, RowsStay, Tables
<1> QED BY <1>1, <1>2, StandingStill DEF Space

(* What has failed stays counted *)
LEMMA QuietBefore ==
  ASSUME MutexInv, [RuntimeNext]_runtimeVars, Quiet'
  PROVE  Quiet
<1> USE DEF StepTo, boundVars, seenVars
<1>1. CASE UNCHANGED runtimeVars BY <1>1 DEF runtimeVars, Quiet
<1>2. CASE LockExpires BY <1>2 DEF LockExpires, Mishap, Quiet, MutexInv
<1>3. ASSUME NEW p \in Processes,
             \/ StartProcess(p) \/ SyncSettings(p) \/ InspectIndex(p)
             \/ ReapLock(p) \/ CreateLock(p) \/ RecheckIndex(p)
             \/ SelectRows(p) \/ RedefineIndex(p) \/ RemoveIndex(p) \/ ClearVectors(p)
             \/ WriteVectors(p) \/ ReleaseLock(p)
      PROVE  Quiet
  BY <1>3 DEF StartProcess, SyncSettings, InspectIndex, ReapLock, CreateLock, RecheckIndex,
     SelectRows, RedefineIndex, RemoveIndex, ClearVectors, WriteVectors, ReleaseLock,
     Mishap, Quiet, MutexInv
<1>4. ASSUME NEW p \in Processes, NEW t \in Tables,
             \/ LookAtIndex(p, t) \/ DefineIndex(p, t) \/ PollIndex(p, t) \/ BeginServing(p)
             \/ CheckDimension(p) \/ WriteRow(p) \/ DeleteRow(p)
             \/ StopProcess(p) \/ CrashProcess(p)
      PROVE  Quiet
  BY <1>4 DEF LookAtIndex, DefineIndex, PollIndex, BeginServing, CheckDimension, WriteRow,
     DeleteRow, StopProcess, CrashProcess, Mishap, Quiet, MutexInv
<1>5. "chunk" \in Tables BY DEF Tables
<1> QED BY <1>1, <1>2, <1>3, <1>4, <1>5 DEF RuntimeNext

LEMMA SpaceStep ==
  ASSUME MutexInv, RuntimeTyped, HandsInv, LostInv, SpaceInv, [RuntimeNext]_runtimeVars
  PROVE  SpaceInv'
<1>1. CASE ~Quiet' BY <1>1 DEF SpaceInv
<1>2. CASE Quiet'
  <2>1. QuietStep BY <1>2, QuietBefore DEF QuietStep
  <2>2. CASE UNCHANGED runtimeVars \/ LockExpires
    <3>1. RowsStay /\ UNCHANGED <<step, dim, aim, work>>
      BY <2>2 DEF runtimeVars, LockExpires, RowsStay, rowVars, runVars, seenVars
    <3> QED BY <2>1, <3>1, UnseenKeepsSpace
  <2>3. ASSUME NEW p \in Processes, CheckDimension(p) PROVE SpaceInv'
    <3>1. RowsStay /\ UNCHANGED <<step, dim, aim, work>>
      BY <2>3 DEF CheckDimension, RowsStay, rowVars, runVars, seenVars
    <3> QED BY <2>1, <3>1, UnseenKeepsSpace
  <2>4. ASSUME NEW p \in Processes, CrashProcess(p) PROVE SpaceInv'
    BY <2>1, <2>4 DEF CrashProcess, QuietStep, Quiet
  <2>5. ASSUME NEW p \in Processes,
               \/ StartProcess(p) \/ SyncSettings(p) \/ InspectIndex(p)
               \/ ReapLock(p) \/ CreateLock(p) \/ RecheckIndex(p)
               \/ BeginServing(p) \/ WriteRow(p) \/ DeleteRow(p) \/ StopProcess(p)
        PROVE  SpaceInv'
    BY <2>1, <2>5, StartKeepsSpace, StartStepsKeepSpace, RecheckKeepsSpace, BeginKeepsSpace,
       WriteRowKeepsSpace, DeleteRowKeepsSpace, StopKeepsSpace
  <2>6. ASSUME NEW p \in Processes,
               \/ SelectRows(p) \/ RedefineIndex(p) \/ RemoveIndex(p) \/ ClearVectors(p)
               \/ WriteVectors(p) \/ ReleaseLock(p)
        PROVE  SpaceInv'
    BY <2>1, <2>6, SelectKeepsSpace, RedefineKeepsSpace, RemoveKeepsSpace, ClearKeepsSpace,
       WriteKeepsSpace, ReleaseKeepsSpace
  <2>7. ASSUME NEW p \in Processes, NEW t \in Tables,
               LookAtIndex(p, t) \/ DefineIndex(p, t) \/ PollIndex(p, t)
        PROVE  SpaceInv'
    BY <2>1, <2>7, EnsureKeepsSpace
  <2> QED BY <2>2, <2>3, <2>4, <2>5, <2>6, <2>7 DEF RuntimeNext
<1> QED BY <1>1, <1>2

RuntimeInv == MutexInv /\ RuntimeTyped /\ HandsInv /\ LostInv /\ SpaceInv

(* However often the model is changed, by processes that start one after    *)
(* the other and all with the model of those that serve (startup.rs:40):    *)
(* where all of them serve, each index is there and each row's vector is of *)
(* its dimension and of the row's text, but for rows stored or edited while *)
(* a re-embedding had read them (text_chunk.rs:175) and by degraded servers *)
THEOREM StartsLeaveOne == RuntimeSpec => []StartsLeaveOneSpace
<1>1. RuntimeInit => RuntimeInv
  BY MutexInit, TypesInit, HandsInit, LostInit, SpaceInit DEF RuntimeInv
<1>2. RuntimeInv /\ [RuntimeNext]_runtimeVars => RuntimeInv'
  BY MutexStep, TypesStep, HandsStep, LostStep, SpaceStep DEF RuntimeInv
<1>3. RuntimeInv => StartsLeaveOneSpace
  <2> SUFFICES ASSUME RuntimeInv, Quiet, \A q \in Processes : step[q] \in {"down", "serving"},
                      NEW t \in Tables
               PROVE  /\ index[t] # Gone
                      /\ \A r \in Present(t) :
                           \/ vector[t][r] = [dim |-> index[t], text |-> row[t][r]]
                           \/ <<t, r>> \in cleared \cup degraded
    BY DEF StartsLeaveOneSpace, Quiet
  <2>1. \A q \in Processes : step[q] \notin Working BY DEF Working
  <2>2. PICK d \in Dims : Space(d) BY <2>1 DEF RuntimeInv, SpaceInv
  <2>3. Whole(t, d) BY <2>2 DEF Space
  <2> QED BY <2>3, RuntimeAssumption DEF Whole, Present, Excepted
<1> QED BY <1>1, <1>2, <1>3, PTL DEF RuntimeSpec

-----------------------------------------------------------------------------
(* What is appended to a list without repetitions, and what is taken off it *)
LEMMA AppendedEngine ==
  ASSUME NEW S, NEW s \in Seq(S), NEW e \in S, IsInjective(s), e \notin ToSet(s)
  PROVE  /\ Append(s, e) \in Seq(S) /\ Len(Append(s, e)) = Len(s) + 1
         /\ IsInjective(Append(s, e)) /\ ToSet(Append(s, e)) = ToSet(s) \cup {e}
<1>1. /\ Append(s, e) \in Seq(S) /\ Len(Append(s, e)) = Len(s) + 1 /\ Len(s) \in Nat
      /\ DOMAIN s = 1..Len(s) /\ DOMAIN Append(s, e) = 1..Len(s) + 1
  OBVIOUS
<1>2. /\ \A i \in 1..Len(s) : Append(s, e)[i] = s[i]
      /\ Append(s, e)[Len(s) + 1] = e
  OBVIOUS
<1>3. \A i \in 1..Len(s) : s[i] # e BY <1>1 DEF ToSet
<1>4. IsInjective(Append(s, e)) BY <1>1, <1>2, <1>3 DEF IsInjective
<1>5. \A x : x \in ToSet(Append(s, e)) <=> x \in ToSet(s) \/ x = e
  BY <1>1, <1>2 DEF ToSet
<1> QED BY <1>1, <1>4, <1>5

LEMMA TakenEngine ==
  ASSUME NEW S, NEW s \in Seq(S), IsInjective(s), Len(s) > 0
  PROVE  /\ Last(s) \in ToSet(s)
         /\ Front(s) \in Seq(S) /\ Len(Front(s)) = Len(s) - 1
         /\ IsInjective(Front(s)) /\ ToSet(Front(s)) = ToSet(s) \ {Last(s)}
<1>1. /\ Len(s) \in Nat /\ DOMAIN s = 1..Len(s)
      /\ Front(s) \in Seq(S) /\ Len(Front(s)) = Len(s) - 1
      /\ DOMAIN Front(s) = 1..Len(s) - 1
      /\ \A i \in 1..Len(s) - 1 : Front(s)[i] = s[i]
  <2>1. Len(s) \in Nat /\ DOMAIN s = 1..Len(s) /\ \A i \in 1..Len(s) - 1 : s[i] \in S
    OBVIOUS
  <2>2. /\ Front(s) \in Seq(S) /\ Len(Front(s)) = Len(s) - 1
        /\ \A i \in 1..Len(s) - 1 : Front(s)[i] = s[i]
    BY <2>1, SubSeqProperties DEF Front
  <2>3. DOMAIN Front(s) = 1..Len(s) - 1 BY <2>2
  <2> QED BY <2>1, <2>2, <2>3
<1>2. Last(s) \in ToSet(s) BY <1>1 DEF Last, ToSet
<1>3. IsInjective(Front(s)) BY <1>1 DEF IsInjective
<1>4. \A i \in 1..Len(s) - 1 : s[i] # Last(s) BY <1>1 DEF IsInjective, Last
<1>5. \A x : x \in ToSet(Front(s)) <=> x \in ToSet(s) /\ x # Last(s)
  BY <1>1, <1>4 DEF ToSet, Last
<1> QED BY <1>1, <1>2, <1>3, <1>5

(* A list of all elements, without repetitions *)
LEMMA ListedEngines ==
  ASSUME NEW S, IsFiniteSet(S)
  PROVE  /\ SetToSeq(S) \in Seq(S) /\ Len(SetToSeq(S)) = Cardinality(S)
         /\ IsInjective(SetToSeq(S)) /\ ToSet(SetToSeq(S)) = S
<1> DEFINE n == Cardinality(S)
<1>1. n \in Nat /\ ExistsBijection(1..n, S) BY FS_CardinalityType
<1>2. \E f \in [1..n -> S] : IsInjective(f)
  BY <1>1 DEF ExistsBijection, Bijection, Injection
<1>3. PICK f \in [1..n -> S] : f = SetToSeq(S) /\ IsInjective(f)
  BY <1>2 DEF SetToSeq
<1>4. f \in Injection(1..n, S) BY <1>3 DEF Injection
<1>5. IsFiniteSet(1..n) /\ Cardinality(1..n) = n BY <1>1, FS_Interval
<1>6. f \in Surjection(1..n, S) BY <1>4, <1>5, FS_Injection
<1>7. ToSet(f) = S BY <1>6 DEF Surjection, ToSet
<1> HIDE DEF n
<1>8. f \in Seq(S) /\ Len(f) = n BY <1>1
<1> QED BY <1>3, <1>7, <1>8 DEF n

-----------------------------------------------------------------------------
(* Engines and permits *)
Returning == {c \in Callers : at[c] = "release"}
Reranking == {c \in Callers : rerankLease[c] # NoEngine}

(* A permit of the embedding pool for each idle engine, but for those that  *)
(* are back while their permit is not                                       *)
PermitsInv ==
  /\ embedPermits \in Nat /\ rerankPermits \in Nat
  /\ embedPermits + Cardinality(Returning) = Len(idle)
  /\ rerankPermits + Cardinality(Reranking) = RerankPoolSize

(* An engine is idle or one call's, which has it as long as it embeds *)
LeasesInv ==
  /\ at \in [Callers -> Steps] /\ idle \in Seq(Embedders) /\ nextEngine \in Rerankers
  /\ embedLease \in [Callers -> Embedders \cup {NoEngine}]
  /\ rerankLease \in [Callers -> Rerankers \cup {NoEngine}]
  /\ \A c \in Callers : embedLease[c] # NoEngine <=> at[c] = "embed"
  /\ \A c \in Callers : at[c] \in {"idle", "rerankPermit"} => rerankLease[c] = NoEngine
  /\ \A c, d \in Callers :
       embedLease[c] = embedLease[d] /\ embedLease[c] # NoEngine => c = d
  /\ IsInjective(idle)
  /\ \A e \in Embedders : e \in ToSet(idle) <=> \A c \in Callers : embedLease[c] # e

PoolsInv == LeasesInv /\ PermitsInv

LEMMA PoolsAreInit == ASSUME PoolsInit PROVE PoolsInv
<1>1. LeasesInv
  BY ListedEngines, PoolsAssumption DEF PoolsInit, LeasesInv, Steps, Rerankers, Engines
<1>2. Returning = {} /\ Reranking = {} BY DEF PoolsInit, Returning, Reranking
<1>3. Cardinality({}) = 0 /\ Cardinality(Embedders) \in Nat
  BY FS_EmptySet, FS_CardinalityType, PoolsAssumption
<1>4. PermitsInv
  BY <1>2, <1>3, ListedEngines, PoolsAssumption DEF PoolsInit, PermitsInv
<1> QED BY <1>1, <1>4 DEF PoolsInv

(* One caller more or less in a set of callers *)
LEMMA CountedCallers ==
  ASSUME NEW S \in SUBSET Callers
  PROVE  /\ Cardinality(S) \in Nat
         /\ \A c : c \notin S => Cardinality(S \cup {c}) = Cardinality(S) + 1
         /\ \A c : c \in S => Cardinality(S \ {c}) = Cardinality(S) - 1
<1>1. IsFiniteSet(S) BY PoolsAssumption, FS_Subset
<1> QED BY <1>1, FS_CardinalityType, FS_AddElement, FS_RemoveElement

(* Nothing is counted that has not changed *)
LEMMA PermitsStay ==
  ASSUME PermitsInv, UNCHANGED <<embedPermits, rerankPermits, rerankLease>>,
         Len(idle') = Len(idle),
         \A c \in Callers : at'[c] = "release" <=> at[c] = "release"
  PROVE  PermitsInv'
<1>1. Returning' = Returning /\ Reranking' = Reranking BY DEF Returning, Reranking
<1> QED BY <1>1 DEF PermitsInv

(* A caller moves without a lease *)
LEMMA LeasesStay ==
  ASSUME LeasesInv, UNCHANGED <<idle, embedLease, rerankLease, nextEngine>>,
         NEW c \in Callers, NEW s \in Steps, at' = [at EXCEPT ![c] = s],
         at[c] # "embed" /\ s # "embed",
         s \in {"idle", "rerankPermit"} => rerankLease[c] = NoEngine
  PROVE  LeasesInv'
<1>1. at' \in [Callers -> Steps] BY DEF LeasesInv
<1>2. \A d \in Callers : at'[d] = IF d = c THEN s ELSE at[d] BY DEF LeasesInv
<1> QED BY <1>1, <1>2 DEF LeasesInv

-----------------------------------------------------------------------------
LEMMA StartsLend ==
  ASSUME PoolsInv, NEW c \in Callers, StartRetrieval(c) \/ StartEmbedding(c)
  PROVE  PoolsInv'
<1>1. /\ UNCHANGED <<idle, embedLease, rerankLease, nextEngine, embedPermits, rerankPermits>>
      /\ at[c] = "idle"
      /\ \E s \in {"rerankPermit", "embedPermit"} : at' = [at EXCEPT ![c] = s]
  BY DEF StartRetrieval, StartEmbedding, Go, embedVars, rerankVars
<1>2. rerankLease[c] = NoEngine BY <1>1 DEF PoolsInv, LeasesInv
<1>3. LeasesInv' BY <1>1, <1>2, LeasesStay DEF PoolsInv, Steps
<1>4. \A d \in Callers : at'[d] = "release" <=> at[d] = "release"
  BY <1>1 DEF PoolsInv, LeasesInv
<1>5. PermitsInv' BY <1>1, <1>4, PermitsStay DEF PoolsInv
<1> QED BY <1>3, <1>5 DEF PoolsInv

LEMMA RerankerIsLent ==
  ASSUME PoolsInv, NEW c \in Callers, CheckoutReranker(c)
  PROVE  PoolsInv'
<1>1. /\ UNCHANGED <<idle, embedLease, embedPermits>>
      /\ at[c] = "rerankPermit" /\ at' = [at EXCEPT ![c] = "embedPermit"]
      /\ rerankLease' = [rerankLease EXCEPT ![c] = nextEngine]
      /\ rerankPermits > 0 /\ rerankPermits' = rerankPermits - 1
      /\ nextEngine' = (nextEngine + 1) % RerankPoolSize
  BY DEF CheckoutReranker, Go
<1>2. nextEngine' \in Rerankers
  BY <1>1, PoolsAssumption DEF PoolsInv, LeasesInv, Rerankers
<1>3. nextEngine \in Rerankers /\ nextEngine # NoEngine
  BY PoolsAssumption DEF PoolsInv, LeasesInv, Engines
<1>4. /\ at' \in [Callers -> Steps]
      /\ \A d \in Callers : at'[d] = IF d = c THEN "embedPermit" ELSE at[d]
  BY <1>1 DEF PoolsInv, LeasesInv, Steps
<1>5. /\ rerankLease' \in [Callers -> Rerankers \cup {NoEngine}]
      /\ \A d \in Callers : rerankLease'[d] = IF d = c THEN nextEngine ELSE rerankLease[d]
  BY <1>1, <1>3 DEF PoolsInv, LeasesInv
<1>6. LeasesInv' BY <1>1, <1>2, <1>4, <1>5 DEF PoolsInv, LeasesInv
<1>7. Returning' = Returning BY <1>1, <1>4 DEF Returning
<1>8. rerankLease[c] = NoEngine BY <1>1 DEF PoolsInv, LeasesInv
<1>9. Reranking' = Reranking \cup {c} /\ c \notin Reranking
  BY <1>3, <1>5, <1>8 DEF Reranking
<1>10. Cardinality(Reranking') = Cardinality(Reranking) + 1 /\ Cardinality(Reranking) \in Nat
  BY <1>9, CountedCallers DEF Reranking
<1>11. PermitsInv' BY <1>1, <1>7, <1>10 DEF PoolsInv, PermitsInv
<1> QED BY <1>6, <1>11 DEF PoolsInv

(* A permit that is there means an idle engine *)
LEMMA EngineIsLent ==
  ASSUME PoolsInv, NEW c \in Callers, CheckoutEngine(c)
  PROVE  PoolsInv'
<1>1. /\ UNCHANGED <<rerankLease, rerankPermits, nextEngine>>
      /\ at[c] = "embedPermit" /\ at' = [at EXCEPT ![c] = "embed"]
      /\ embedPermits > 0 /\ embedPermits' = embedPermits - 1
      /\ embedLease' = [embedLease EXCEPT ![c] = Last(idle)]
      /\ idle' = Front(idle)
  BY DEF CheckoutEngine, Go, rerankVars
<1>2. Cardinality(Returning) \in Nat BY CountedCallers DEF Returning
<1>3. idle \in Seq(Embedders) /\ IsInjective(idle) /\ Len(idle) > 0
  BY <1>1, <1>2 DEF PoolsInv, LeasesInv, PermitsInv
<1>4. PICK e : e = Last(idle) OBVIOUS
<1>5. /\ e \in ToSet(idle) /\ idle' \in Seq(Embedders) /\ Len(idle') = Len(idle) - 1
      /\ IsInjective(idle') /\ ToSet(idle') = ToSet(idle) \ {e}
  BY <1>1, <1>3, <1>4, TakenEngine
<1>6. e \in Embedders /\ e # NoEngine
  <2>1. e \in Embedders BY <1>3, <1>5 DEF ToSet
  <2> QED BY <2>1, PoolsAssumption DEF Engines
<1>7. \A d \in Callers : embedLease[d] # e BY <1>5, <1>6 DEF PoolsInv, LeasesInv
<1>8. /\ at' \in [Callers -> Steps]
      /\ \A d \in Callers : at'[d] = IF d = c THEN "embed" ELSE at[d]
  BY <1>1 DEF PoolsInv, LeasesInv, Steps
<1>9. /\ embedLease' \in [Callers -> Embedders \cup {NoEngine}]
      /\ \A d \in Callers : embedLease'[d] = IF d = c THEN e ELSE embedLease[d]
  BY <1>1, <1>4, <1>6 DEF PoolsInv, LeasesInv
<1>10. embedLease[c] = NoEngine BY <1>1 DEF PoolsInv, LeasesInv
<1>11. \A f \in Embedders : f \in ToSet(idle') <=> \A d \in Callers : embedLease'[d] # f
  <2>1. ASSUME NEW f \in Embedders, f # e
        PROVE  f \in ToSet(idle') <=> \A d \in Callers : embedLease'[d] # f
    <3>1. f # NoEngine BY PoolsAssumption DEF Engines
    <3> QED BY <1>5, <1>9, <1>10, <2>1, <3>1 DEF PoolsInv, LeasesInv
  <2> QED BY <1>5, <1>9, <2>1
<1>12. LeasesInv'
  BY <1>1, <1>5, <1>6, <1>7, <1>8, <1>9, <1>11 DEF PoolsInv, LeasesInv
<1>13. Returning' = Returning /\ Reranking' = Reranking BY <1>1, <1>8 DEF Returning, Reranking
<1>14. Len(idle) \in Nat BY <1>3
<1>15. PermitsInv'
  <2>1. embedPermits \in Nat /\ embedPermits + Cardinality(Returning) = Len(idle)
    BY DEF PoolsInv, PermitsInv
  <2>2. embedPermits > 0 /\ embedPermits' = embedPermits - 1 /\ Len(idle') = Len(idle) - 1
    BY <1>1, <1>5
  <2>3. embedPermits' \in Nat /\ embedPermits' + Cardinality(Returning) = Len(idle')
    BY ONLY <1>2, <1>14, <2>1, <2>2
  <2> QED BY <1>1, <1>13, <2>3 DEF PoolsInv, PermitsInv
<1> QED BY <1>12, <1>15 DEF PoolsInv

(* The engine of a call that embeds is put back *)
LEMMA PutBack ==
  ASSUME LeasesInv, NEW c \in Callers, at[c] = "embed",
         idle' = Append(idle, embedLease[c]),
         embedLease' = [embedLease EXCEPT ![c] = NoEngine]
  PROVE  /\ idle' \in Seq(Embedders) /\ Len(idle') = Len(idle) + 1 /\ IsInjective(idle')
         /\ embedLease' \in [Callers -> Embedders \cup {NoEngine}]
         /\ \A d \in Callers : embedLease'[d] = IF d = c THEN NoEngine ELSE embedLease[d]
         /\ \A e \in Embedders : e \in ToSet(idle') <=> \A d \in Callers : embedLease'[d] # e
<1>1. PICK f : f = embedLease[c] OBVIOUS
<1>2. f \in Embedders /\ f # NoEngine BY <1>1 DEF LeasesInv
<1>3. f \notin ToSet(idle) BY <1>1, <1>2 DEF LeasesInv
<1>4. /\ idle' \in Seq(Embedders) /\ Len(idle') = Len(idle) + 1
      /\ IsInjective(idle') /\ ToSet(idle') = ToSet(idle) \cup {f}
  BY <1>1, <1>2, <1>3, AppendedEngine DEF LeasesInv
<1>5. /\ embedLease' \in [Callers -> Embedders \cup {NoEngine}]
      /\ \A d \in Callers : embedLease'[d] = IF d = c THEN NoEngine ELSE embedLease[d]
  BY DEF LeasesInv
<1>6. ASSUME NEW e \in Embedders
      PROVE  e \in ToSet(idle') <=> \A d \in Callers : embedLease'[d] # e
  <2>1. e # NoEngine BY PoolsAssumption DEF Engines
  <2>2. CASE e = f
    <3>1. \A d \in Callers \ {c} : embedLease[d] # f BY <1>1, <1>2 DEF LeasesInv
    <3> QED BY <1>4, <1>5, <2>1, <2>2, <3>1
  <2>3. CASE e # f
    BY <1>1, <1>4, <1>5, <2>1, <2>3 DEF LeasesInv
  <2> QED BY <2>2, <2>3
<1> QED BY <1>4, <1>5, <1>6

LEMMA EngineIsBack ==
  ASSUME PoolsInv, NEW c \in Callers, EmbedReturns(c)
  PROVE  PoolsInv'
<1>1. /\ UNCHANGED <<rerankLease, rerankPermits, nextEngine, embedPermits>>
      /\ at[c] = "embed" /\ at' = [at EXCEPT ![c] = "release"]
      /\ embedLease' = [embedLease EXCEPT ![c] = NoEngine]
      /\ idle' = Append(idle, embedLease[c])
  BY DEF EmbedReturns, Go, rerankVars
<1>2. /\ idle' \in Seq(Embedders) /\ Len(idle') = Len(idle) + 1 /\ IsInjective(idle')
      /\ embedLease' \in [Callers -> Embedders \cup {NoEngine}]
      /\ \A d \in Callers : embedLease'[d] = IF d = c THEN NoEngine ELSE embedLease[d]
      /\ \A e \in Embedders : e \in ToSet(idle') <=> \A d \in Callers : embedLease'[d] # e
  BY <1>1, PutBack DEF PoolsInv
<1>3. /\ at' \in [Callers -> Steps]
      /\ \A d \in Callers : at'[d] = IF d = c THEN "release" ELSE at[d]
  BY <1>1 DEF PoolsInv, LeasesInv, Steps
<1>4. LeasesInv' BY <1>1, <1>2, <1>3 DEF PoolsInv, LeasesInv
<1>5. Returning' = Returning \cup {c} /\ c \notin Returning /\ Reranking' = Reranking
  BY <1>1, <1>3 DEF Returning, Reranking
<1>6. Cardinality(Returning') = Cardinality(Returning) + 1 /\ Cardinality(Returning) \in Nat
  BY <1>5, CountedCallers DEF Returning
<1>7. PermitsInv' BY <1>1, <1>2, <1>5, <1>6 DEF PoolsInv, PermitsInv
<1> QED BY <1>4, <1>7 DEF PoolsInv

(* A caller that is done gives back what it has of the reranker pool *)
LEMMA DroppedReranker ==
  ASSUME LeasesInv, PermitsInv, NEW c \in Callers, DropReranker(c)
  PROVE  /\ rerankLease' \in [Callers -> Rerankers \cup {NoEngine}]
         /\ \A d \in Callers : rerankLease'[d] = IF d = c THEN NoEngine ELSE rerankLease[d]
         /\ rerankPermits' \in Nat
         /\ rerankPermits' + Cardinality(Reranking') = RerankPoolSize
<1>1. /\ rerankLease' \in [Callers -> Rerankers \cup {NoEngine}]
      /\ \A d \in Callers : rerankLease'[d] = IF d = c THEN NoEngine ELSE rerankLease[d]
  BY DEF LeasesInv, DropReranker
<1>2. Reranking' = Reranking \ {c} BY <1>1 DEF Reranking
<1>3. CASE rerankLease[c] = NoEngine
  <2>1. Reranking' = Reranking BY <1>2, <1>3 DEF Reranking
  <2> QED BY <1>1, <1>3, <2>1 DEF DropReranker, PermitsInv
<1>4. CASE rerankLease[c] # NoEngine
  <2>1. Cardinality(Reranking') = Cardinality(Reranking) - 1 /\ Cardinality(Reranking) \in Nat
    BY <1>2, <1>4, CountedCallers DEF Reranking
  <2> QED BY <1>1, <1>4, <2>1 DEF DropReranker, PermitsInv
<1> QED BY <1>3, <1>4

LEMMA PermitIsBack ==
  ASSUME PoolsInv, NEW c \in Callers, ReleasePermit(c)
  PROVE  PoolsInv'
<1>1. /\ UNCHANGED <<idle, embedLease, nextEngine>>
      /\ at[c] = "release" /\ embedPermits' = embedPermits + 1
      /\ \/ at' = [at EXCEPT ![c] = "search"] /\ UNCHANGED <<rerankPermits, rerankLease>>
         \/ at' = [at EXCEPT ![c] = "idle"] /\ DropReranker(c)
  BY DEF ReleasePermit, Go
<1>2. /\ at' \in [Callers -> Steps]
      /\ \A d \in Callers : d # c => at'[d] = at[d]
      /\ \/ at'[c] = "search" /\ UNCHANGED <<rerankPermits, rerankLease>>
         \/ at'[c] = "idle" /\ DropReranker(c)
  BY <1>1 DEF PoolsInv, LeasesInv, Steps
<1>3. /\ rerankLease' \in [Callers -> Rerankers \cup {NoEngine}]
      /\ \A d \in Callers \ {c} : rerankLease'[d] = rerankLease[d]
      /\ at'[c] = "idle" => rerankLease'[c] = NoEngine
      /\ rerankPermits' \in Nat
      /\ rerankPermits' + Cardinality(Reranking') = RerankPoolSize
  <2>1. CASE at'[c] = "idle" /\ DropReranker(c) BY <2>1, DroppedReranker DEF PoolsInv
  <2>2. CASE at'[c] = "search" /\ UNCHANGED <<rerankPermits, rerankLease>>
    BY <2>2 DEF PoolsInv, LeasesInv, PermitsInv, Reranking
  <2> QED BY <1>2, <2>1, <2>2
<1>4. at'[c] \notin {"embed", "rerankPermit", "release"} BY <1>2
<1>5. LeasesInv' BY <1>1, <1>2, <1>3, <1>4 DEF PoolsInv, LeasesInv
<1>6. Returning' = Returning \ {c} /\ c \in Returning
  BY <1>1, <1>2, <1>4 DEF Returning
<1>7. Cardinality(Returning') = Cardinality(Returning) - 1 /\ Cardinality(Returning) \in Nat
  BY <1>6, CountedCallers DEF Returning
<1>8. PermitsInv' BY <1>1, <1>3, <1>7 DEF PoolsInv, PermitsInv
<1> QED BY <1>5, <1>8 DEF PoolsInv

LEMMA SearchesGoOn ==
  ASSUME PoolsInv, NEW c \in Callers, SearchReturns(c) \/ RerankReturns(c)
  PROVE  PoolsInv'
<1>1. /\ UNCHANGED <<idle, embedLease, nextEngine, embedPermits>>
      /\ at[c] \in {"search", "rerank"}
      /\ \/ at' = [at EXCEPT ![c] = "rerank"] /\ UNCHANGED <<rerankPermits, rerankLease>>
         \/ at' = [at EXCEPT ![c] = "idle"] /\ DropReranker(c)
  BY DEF SearchReturns, RerankReturns, Go, embedVars
<1>2. /\ at' \in [Callers -> Steps]
      /\ \A d \in Callers : d # c => at'[d] = at[d]
      /\ \/ at'[c] = "rerank" /\ UNCHANGED <<rerankPermits, rerankLease>>
         \/ at'[c] = "idle" /\ DropReranker(c)
  BY <1>1 DEF PoolsInv, LeasesInv, Steps
<1>3. /\ rerankLease' \in [Callers -> Rerankers \cup {NoEngine}]
      /\ \A d \in Callers \ {c} : rerankLease'[d] = rerankLease[d]
      /\ at'[c] = "idle" => rerankLease'[c] = NoEngine
      /\ rerankPermits' \in Nat
      /\ rerankPermits' + Cardinality(Reranking') = RerankPoolSize
  <2>1. CASE at'[c] = "idle" /\ DropReranker(c) BY <2>1, DroppedReranker DEF PoolsInv
  <2>2. CASE at'[c] = "rerank" /\ UNCHANGED <<rerankPermits, rerankLease>>
    BY <2>2 DEF PoolsInv, LeasesInv, PermitsInv, Reranking
  <2> QED BY <1>2, <2>1, <2>2
<1>4. at'[c] \notin {"embed", "rerankPermit", "release"} BY <1>2
<1>5. LeasesInv' BY <1>1, <1>2, <1>3, <1>4 DEF PoolsInv, LeasesInv
<1>6. Returning' = Returning BY <1>1, <1>2, <1>4 DEF Returning
<1>7. PermitsInv' BY <1>1, <1>3, <1>6 DEF PoolsInv, PermitsInv
<1> QED BY <1>5, <1>7 DEF PoolsInv

(* Wherever a caller goes away, what it had goes back with its permits *)
LEMMA CancelledGivesBack ==
  ASSUME PoolsInv, NEW c \in Callers, CancelCall(c)
  PROVE  PoolsInv'
<1>1. /\ at[c] \notin {"idle", "release"} /\ at' = [at EXCEPT ![c] = "idle"]
      /\ DropReranker(c) /\ nextEngine' = nextEngine
  BY DEF CancelCall, Go
<1>2. /\ at' \in [Callers -> Steps]
      /\ \A d \in Callers : at'[d] = IF d = c THEN "idle" ELSE at[d]
  BY <1>1 DEF PoolsInv, LeasesInv, Steps
<1>3. /\ rerankLease' \in [Callers -> Rerankers \cup {NoEngine}]
      /\ \A d \in Callers : rerankLease'[d] = IF d = c THEN NoEngine ELSE rerankLease[d]
      /\ rerankPermits' \in Nat
      /\ rerankPermits' + Cardinality(Reranking') = RerankPoolSize
  BY <1>1, DroppedReranker DEF PoolsInv
<1>4. Returning' = Returning BY <1>1, <1>2 DEF Returning
<1>5. Cardinality(Returning) \in Nat BY CountedCallers DEF Returning
<1>6. CASE at[c] = "embed"
  <2>1. /\ idle' = Append(idle, embedLease[c]) /\ embedPermits' = embedPermits + 1
        /\ embedLease' = [embedLease EXCEPT ![c] = NoEngine]
    BY <1>6 DEF CancelCall, PoolsInv, LeasesInv
  <2>2. /\ idle' \in Seq(Embedders) /\ Len(idle') = Len(idle) + 1 /\ IsInjective(idle')
        /\ embedLease' \in [Callers -> Embedders \cup {NoEngine}]
        /\ \A d \in Callers : embedLease'[d] = IF d = c THEN NoEngine ELSE embedLease[d]
        /\ \A e \in Embedders : e \in ToSet(idle') <=> \A d \in Callers : embedLease'[d] # e
    BY <1>6, <2>1, PutBack DEF PoolsInv
  <2>3. LeasesInv' BY <1>1, <1>2, <1>3, <2>2 DEF PoolsInv, LeasesInv
  <2>4. PermitsInv' BY <1>3, <1>4, <1>5, <2>1, <2>2 DEF PoolsInv, PermitsInv
  <2> QED BY <2>3, <2>4 DEF PoolsInv
<1>7. CASE at[c] # "embed"
  <2>1. UNCHANGED <<idle, embedPermits, embedLease>>
    BY <1>7 DEF CancelCall, PoolsInv, LeasesInv
  <2>2. LeasesInv' BY <1>1, <1>2, <1>3, <1>7, <2>1 DEF PoolsInv, LeasesInv
  <2>3. PermitsInv' BY <1>3, <1>4, <2>1 DEF PoolsInv, PermitsInv
  <2> QED BY <2>2, <2>3 DEF PoolsInv
<1> QED BY <1>6, <1>7

LEMMA PoolsStep == ASSUME PoolsInv, [PoolsNext]_poolVars PROVE PoolsInv'
<1>1. CASE \/ UNCHANGED poolVars
           \/ \E t \in threads : ThreadLocks(t) \/ ThreadEnds(t)
  <2>1. UNCHANGED <<at, idle, embedLease, rerankLease, nextEngine, embedPermits, rerankPermits>>
    BY <1>1 DEF poolVars, ThreadLocks, ThreadEnds, embedVars, rerankVars
  <2> QED BY <2>1 DEF PoolsInv, LeasesInv, PermitsInv, Returning, Reranking
<1>2. CASE \E c \in Callers :
             StartRetrieval(c) \/ StartEmbedding(c) \/ CallerStep(c) \/ CancelCall(c)
  BY <1>2, StartsLend, RerankerIsLent, EngineIsLent, EngineIsBack, PermitIsBack, SearchesGoOn,
     CancelledGivesBack DEF CallerStep
<1> QED BY <1>1, <1>2 DEF PoolsNext

(* For any number of engines and of calls, of which callers go away while   *)
(* their threads run on, and whatever ends in errors: an embedding engine   *)
(* is lent to one call at a time, a permit stands for an idle one, and no   *)
(* permit of either pool is lost or made up (embedding.rs:246).             *)
THEOREM EnginesAreLent == PoolsSpec => []EnginesAreLentOnce
<1>1. PoolsInit => PoolsInv BY PoolsAreInit
<1>2. PoolsInv /\ [PoolsNext]_poolVars => PoolsInv' BY PoolsStep
<1>3. PoolsInv => EnginesAreLentOnce
  <2> SUFFICES ASSUME PoolsInv PROVE EnginesAreLentOnce OBVIOUS
  <2>1. ToSet(idle) = Embedders \ {embedLease[c] : c \in {c \in Callers : embedLease[c] # NoEngine}}
    <3>1. ToSet(idle) \subseteq Embedders BY DEF PoolsInv, LeasesInv, ToSet
    <3>2. ASSUME NEW e \in Embedders
          PROVE  e \in {embedLease[c] : c \in {c \in Callers : embedLease[c] # NoEngine}}
                   <=> \E c \in Callers : embedLease[c] = e
      BY PoolsAssumption DEF Engines
    <3> QED BY <3>1, <3>2 DEF PoolsInv, LeasesInv
  <2>2. embedPermits <= Len(idle)
    <3>1. Cardinality(Returning) \in Nat BY CountedCallers DEF Returning
    <3> QED BY <3>1 DEF PoolsInv, PermitsInv
  <2> QED BY <2>1, <2>2 DEF EnginesAreLentOnce, PoolsInv, LeasesInv, PermitsInv, Reranking
<1> QED BY <1>1, <1>2, <1>3, PTL DEF PoolsSpec
=============================================================================
