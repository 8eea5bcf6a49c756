--------------------------- MODULE EmbeddingRuntime ---------------------------
(***************************************************************************)
(* The vectors of text chunks and knowledge entities, their indexes, and   *)
(* the processes that start on them (prepare_embedding_runtime): a process *)
(* has the embedding provider of its configuration for as long as it runs, *)
(* and when the index is of another dimension a maintainer embeds every    *)
(* row again before it serves, while others go on serving.                 *)
(*                                                                         *)
(* A vector is its dimension and the text it was made of.  step says where *)
(* a process is:                                                           *)
(*   down                                                                  *)
(*   sync, inspect     prepare_embedding_runtime                           *)
(*   reap, lock        try_acquire_reembed_lock                            *)
(*   recheck           reconcile_under_lock                                *)
(*   select ... write  update_all_embeddings, of `table`                   *)
(*   release           release_reembed_lock                                *)
(*   ensure            ensure_runtime                                      *)
(*   serving           requests and, in a maintainer, ingestion            *)
(***************************************************************************)
EXTENDS Integers, FiniteSets

CONSTANTS
  Processes,
  Maintainers,         \* the processes of the combined binary and of the worker
  Dims,                \* dimensions of embedding models
  SeedDim,             \* that of the vectors there are at first
  StartDims,           \* per process: the dimensions it may be configured with
  SeedRows,            \* ids of the chunks and of the entities there are at first
  SeedProcesses,       \* the processes that serve with that dimension at first
  Gone,                \* no row any more, no vector, no index, no process
  Unborn,              \* no row yet
  MaxStarts,           \* starts of processes in a behaviour (a bound)
  MaxWrites,           \* stored, patched and deleted rows in a behaviour (a bound)
  MaxMishaps           \* crashes, failed statements, outlasted locks (a bound)

VARIABLES
  row,                 \* per table and id: the version of its text
  vector,              \* per table and id: dimension and version
  index,               \* per table: the dimension of the HNSW index
  wanted,              \* system_settings.embedding_dimensions
  lock,                \* maintenance_lock:reembed.owner
  expired,             \* the lock has outlived REEMBED_LOCK_TTL
  step,                \* per process
  dim,                 \* per process: the dimension of its provider
  aim,                 \* per process: index_dim
  work,                \* per process: table, rows read, whether it fails
  ensured,             \* per process and table: progress of ensure_runtime
  write,               \* per process: a row that is about to be stored
  starts, writes, mishaps,
  cleared,             \* vectors deleted by a re-embedding that had not read
                       \* their row, or did not come to write it (history)
  degraded,            \* vectors written by a process whose index is not of its
                       \* dimension (history)
  trouble              \* "crowd": two processes were starting at the same time,
                       \* "mix": two of different dimensions were up,
                       \* "failure": one has not come to serve (history)

(* Vectors there may be *)
VectorRows == [dim : Dims, text : 0..MaxWrites]

ASSUME RuntimeAssumption ==
  /\ Gone \notin Processes \cup Dims \cup VectorRows
  /\ SeedDim \in Dims /\ \A p \in Processes : StartDims[p] \subseteq Dims
  /\ MaxWrites \in Nat

rowVars == <<row, vector, index>>
lockVars == <<lock, expired>>
runVars == <<step, dim, aim, work, ensured>>
boundVars == <<starts, writes, mishaps>>
seenVars == <<cleared, degraded, trouble>>
runtimeVars == <<rowVars, wanted, lockVars, runVars, write, boundVars, seenVars>>

Tables == {"chunk", "entity"}
(* A process stores one new row of each table, which has its name *)
RowIds == Processes \cup SeedRows
Present(t) == {r \in RowIds : row[t][r] \notin {Gone, Unborn}}
Vectors(t) == {r \in RowIds : vector[t][r] # Gone}
DimsIn(t) == {vector[t][r].dim : r \in Vectors(t)}
NoWork == [table |-> "chunk", read |-> {}, fails |-> FALSE]
NotEnsured == [t \in Tables |-> "look"]

RuntimeInit ==
  /\ row = [t \in Tables |-> [r \in RowIds |-> IF r \in SeedRows THEN 0 ELSE Unborn]]
  /\ vector = [t \in Tables |-> [r \in RowIds |->
       IF r \in SeedRows THEN [dim |-> SeedDim, text |-> 0] ELSE Gone]]
  /\ index = [t \in Tables |-> SeedDim]
  /\ wanted = SeedDim
  /\ lock = Gone /\ expired = FALSE
  /\ step = [p \in Processes |-> IF p \in SeedProcesses THEN "serving" ELSE "down"]
  /\ dim = [p \in Processes |-> SeedDim] /\ aim = dim
  /\ work = [p \in Processes |-> NoWork]
  /\ ensured = [p \in Processes |-> NotEnsured]
  /\ write = [p \in Processes |-> Gone]
  /\ starts = 0 /\ writes = 0 /\ mishaps = 0
  /\ cleared = {} /\ degraded = {} /\ trouble = {}

Mishap == mishaps < MaxMishaps /\ mishaps' = mishaps + 1

StepTo(p, s) == step' = [step EXCEPT ![p] = s]

(* What a process has in hand is lost with it *)
GoDown(p) ==
  /\ StepTo(p, "down")
  /\ dim' = [dim EXCEPT ![p] = SeedDim] /\ aim' = [aim EXCEPT ![p] = SeedDim]
  /\ work' = [work EXCEPT ![p] = NoWork]
  /\ ensured' = [ensured EXCEPT ![p] = NotEnsured]
  /\ write' = [write EXCEPT ![p] = Gone]

-----------------------------------------------------------------------------
(* prepare_embedding_runtime *)

StartProcess(p) ==
  /\ step[p] = "down" /\ starts < MaxStarts
  /\ starts' = starts + 1
  /\ \E d \in StartDims[p] :
       LET others == {q \in Processes \ {p} : step[q] # "down"}
       IN /\ dim' = [dim EXCEPT ![p] = d]
          /\ trouble' = trouble \cup
               {k \in {"crowd", "mix"} : \E q \in others :
                  IF k = "crowd" THEN step[q] # "serving" ELSE dim[q] # d}
  /\ StepTo(p, "sync")
  /\ UNCHANGED <<rowVars, wanted, lockVars, aim, work, ensured, write, writes,
                 mishaps, cleared, degraded>>

(* sync_from_embedding_provider, of which the dimension matters here *)
SyncSettings(p) ==
  /\ step[p] = "sync"
  /\ wanted' = dim[p]
  /\ StepTo(p, "inspect")
  /\ UNCHANGED <<rowVars, lockVars, dim, aim, work, ensured, write, boundVars,
                 seenVars>>

(* embedding_index_dimension: the index of the chunks stands for all vectors *)
IndexDimension == index["chunk"]

InspectIndex(p) ==
  /\ step[p] = "inspect"
  /\ LET mismatch == IndexDimension \notin {Gone, dim[p]}
     IN /\ StepTo(p, IF mismatch /\ p \in Maintainers THEN "reap" ELSE "ensure")
        /\ aim' = [aim EXCEPT ![p] =
                     IF mismatch /\ p \notin Maintainers THEN IndexDimension ELSE dim[p]]
  /\ UNCHANGED <<rowVars, wanted, lockVars, dim, work, ensured, write,
                 boundVars, seenVars>>

ReapLock(p) ==
  /\ step[p] = "reap"
  /\ IF expired THEN lock' = Gone /\ expired' = FALSE ELSE UNCHANGED lockVars
  /\ StepTo(p, "lock")
  /\ UNCHANGED <<rowVars, wanted, dim, aim, work, ensured, write, boundVars,
                 seenVars>>

(* Slip: the record is written whether or not there is one *)
CreateLockAnyway(p) ==
  /\ step[p] = "lock"
  /\ lock' = p
  /\ StepTo(p, "recheck")
  /\ UNCHANGED <<rowVars, wanted, expired, dim, aim, work, ensured, write,
                 boundVars, seenVars>>

(* CREATE of the singleton record.  Any error, not only a record that is    *)
(* there, means that the lock is another's; the process then goes on, with  *)
(* the dimension of its provider.                                           *)
CreateLock(p) ==
  /\ step[p] = "lock"
  /\ \/ lock = Gone /\ lock' = p /\ StepTo(p, "recheck") /\ UNCHANGED mishaps
     \/ /\ (lock # Gone /\ UNCHANGED mishaps) \/ Mishap
        /\ StepTo(p, "ensure") /\ UNCHANGED lock
  /\ UNCHANGED <<rowVars, wanted, expired, dim, aim, work, ensured, write,
                 starts, writes, seenVars>>

RecheckIndex(p) ==
  /\ step[p] = "recheck"
  /\ StepTo(p, IF IndexDimension \in {Gone, dim[p]} THEN "release" ELSE "select")
  /\ UNCHANGED <<rowVars, wanted, lockVars, dim, aim, work, ensured, write,
                 boundVars, seenVars>>

-----------------------------------------------------------------------------
(* update_all_embeddings, of the chunks and then of the entities *)

Table(p) == work[p].table

(* Slip: the entities are forgotten *)
ChunksAreAll(p) == StepTo(p, "release") /\ UNCHANGED work

(* The next table, or the end *)
TableDone(p) ==
  IF Table(p) = "chunk"
    THEN /\ work' = [work EXCEPT ![p] = [NoWork EXCEPT !.table = "entity"]]
         /\ StepTo(p, "select")
    ELSE StepTo(p, "release") /\ UNCHANGED work

(* An error is handed on once the lock has been released *)
TableFails(p) ==
  work' = [work EXCEPT ![p].fails = TRUE] /\ StepTo(p, "release")

(* SELECT of every row; without one only the index is made again *)
SelectRows(p) ==
  /\ step[p] = "select"
  /\ LET t == Table(p)
     IN \/ /\ Present(t) # {}
           /\ work' = [work EXCEPT ![p].read = {<<r, row[t][r]>> : r \in Present(t)}]
           /\ StepTo(p, "remove")
           /\ UNCHANGED mishaps
        \/ Present(t) = {} /\ StepTo(p, "redefine") /\ UNCHANGED <<work,
                                                                   mishaps>>
        \/ Mishap /\ TableFails(p)
  /\ UNCHANGED <<rowVars, wanted, lockVars, dim, aim, ensured, write, starts,
                 writes, seenVars>>

(* redefine_hnsw_index, over the vectors that rows may have left *)
RedefineIndex(p) ==
  /\ step[p] = "redefine"
  /\ LET t == Table(p)
     IN \/ /\ index' = [index EXCEPT ![t] = dim[p]]
           /\ TableDone(p)
        \/ DimsIn(t) \ {dim[p]} # {} /\ TableFails(p) /\ UNCHANGED index
  /\ UNCHANGED <<row, vector, wanted, lockVars, dim, aim, ensured, write,
                 boundVars, seenVars>>

(* The rows have been embedded.  REMOVE INDEX fails where there is none. *)
RemoveIndex(p) ==
  /\ step[p] = "remove"
  /\ IF index[Table(p)] = Gone
       THEN TableFails(p) /\ UNCHANGED index
       ELSE /\ index' = [index EXCEPT ![Table(p)] = Gone]
            /\ StepTo(p, "clear") /\ UNCHANGED work
  /\ UNCHANGED <<row, vector, wanted, lockVars, dim, aim, ensured, write,
                 boundVars, seenVars>>

ClearVectors(p) ==
  /\ step[p] = "clear"
  /\ vector' = [vector EXCEPT ![Table(p)] = [r \in RowIds |-> Gone]]
  /\ cleared' = cleared \cup {<<Table(p), r>> : r \in
       {r \in Vectors(Table(p)) : <<r, row[Table(p)][r]>> \notin work[p].read}}
  /\ StepTo(p, "write")
  /\ degraded' = {d \in degraded : d[1] # Table(p)}
  /\ UNCHANGED <<row, index, wanted, lockVars, dim, aim, work, ensured, write,
                 boundVars, trouble>>

(* Rows read whose vectors are not there when a process stops before "write" *)
LeavesCleared(p) ==
  IF step[p] = "write" THEN {<<Table(p), v[1]>> : v \in work[p].read} ELSE {}

(* One transaction: a CREATE per row that was read, also of a row that is   *)
(* no longer there, and the index.  A vector stored meanwhile refuses all.  *)
WriteVectors(p) ==
  /\ step[p] = "write"
  /\ LET t == Table(p)
         read == {v[1] : v \in work[p].read}
         text(r) == CHOOSE n \in 0..MaxWrites : <<r, n>> \in work[p].read
     IN \/ /\ read \cap Vectors(t) = {}
           /\ vector' = [vector EXCEPT ![t] = [r \in RowIds |->
                IF r \in read THEN [dim |-> dim[p], text |-> text(r)] ELSE @[r]]]
           /\ index' = [index EXCEPT ![t] = dim[p]]
           /\ TableDone(p)
           /\ cleared' = cleared \ {<<t, v[1]>> : v \in
                {v \in work[p].read : row[t][v[1]] = v[2]}}
           /\ UNCHANGED mishaps
        \/ /\ (read \cap Vectors(t) # {} /\ UNCHANGED mishaps) \/ Mishap
           /\ cleared' = cleared \cup LeavesCleared(p)
           /\ TableFails(p)
           /\ UNCHANGED <<vector, index>>
  /\ UNCHANGED <<row, wanted, lockVars, dim, aim, ensured, write, starts,
                 writes, degraded, trouble>>

(* DELETE WHERE owner: failing to is logged *)
ReleaseLock(p) ==
  /\ step[p] = "release"
  /\ \/ /\ IF lock = p THEN lock' = Gone /\ expired' = FALSE ELSE UNCHANGED lockVars
        /\ UNCHANGED mishaps
     \/ Mishap /\ UNCHANGED lockVars
  /\ IF work[p].fails
       THEN GoDown(p) /\ trouble' = trouble \cup {"failure"}
       ELSE StepTo(p, "ensure") /\ UNCHANGED <<dim, aim, work, ensured, write,
                                               trouble>>
  /\ UNCHANGED <<rowVars, wanted, starts, writes, cleared, degraded>>

-----------------------------------------------------------------------------
(* ensure_runtime, the two tables at a time *)

EnsureGoes(p, t, s) == ensured' = [ensured EXCEPT ![p][t] = s]

(* The build of an index fails over a vector of another dimension *)
BadBuild(t) == index[t] # Gone /\ DimsIn(t) \ {index[t]} # {}

(* An index of the right dimension may be found in the error state *)
LookAtIndex(p, t) ==
  /\ step[p] = "ensure" /\ ensured[p][t] = "look"
  /\ \/ index[t] = Gone /\ EnsureGoes(p, t, "define")
     \/ index[t] = aim[p] /\ EnsureGoes(p, t, "done")
     \/ /\ index[t] \notin {Gone, aim[p]} \/ BadBuild(t)
        /\ EnsureGoes(p, t, "overwrite")
  /\ UNCHANGED <<rowVars, wanted, lockVars, step, dim, aim, work, write,
                 boundVars, seenVars>>

(* DEFINE INDEX IF NOT EXISTS, DEFINE INDEX OVERWRITE *)
DefineIndex(p, t) ==
  /\ step[p] = "ensure" /\ ensured[p][t] \in {"define", "overwrite"}
  /\ LET kept == ensured[p][t] = "define" /\ index[t] # Gone
     IN /\ index' = IF kept THEN index ELSE [index EXCEPT ![t] = aim[p]]
  /\ EnsureGoes(p, t, "poll")
  /\ UNCHANGED <<row, vector, wanted, lockVars, step, dim, aim, work, write,
                 boundVars, seenVars>>

(* The database builds the index concurrently: a vector of another          *)
(* dimension may end the build in an error, and so may the removal of the   *)
(* index by another process; the process then does not start.               *)
PollIndex(p, t) ==
  /\ step[p] = "ensure" /\ ensured[p][t] = "poll"
  /\ \/ /\ index[t] # Gone
        /\ EnsureGoes(p, t, "done")
        /\ UNCHANGED <<step, dim, aim, work, write, trouble>>
     \/ /\ index[t] = Gone \/ BadBuild(t)
        /\ GoDown(p)
        /\ trouble' = trouble \cup {"failure"}
  /\ UNCHANGED <<rowVars, wanted, lockVars, boundVars, cleared, degraded>>

BeginServing(p) ==
  /\ step[p] = "ensure" /\ \A t \in Tables : ensured[p][t] = "done"
  /\ StepTo(p, "serving")
  /\ work' = [work EXCEPT ![p] = NoWork]
  /\ ensured' = [ensured EXCEPT ![p] = NotEnsured]
  /\ UNCHANGED <<rowVars, wanted, lockVars, dim, aim, write, boundVars,
                 seenVars>>

-----------------------------------------------------------------------------
(* Ingestion and edits *)

(* persist, KnowledgeEntity::patch: the vector has been made, and is of the *)
(* dimension that the settings ask for.  The page that creates an entity    *)
(* compares it with its own provider only.                                  *)
CheckDimension(p) ==
  /\ step[p] = "serving" /\ write[p] = Gone /\ writes < MaxWrites
  /\ \/ /\ wanted = dim[p] /\ p \in Maintainers
        /\ \E t \in Tables : row[t][p] = Unborn /\ write' = [write EXCEPT ![p] = <<t, p>>]
     \/ /\ wanted = dim[p]
        /\ \E r \in Present("entity") : write' = [write EXCEPT ![p] = <<"entity", r>>]
     \/ row["entity"][p] = Unborn /\ write' = [write EXCEPT ![p] = <<"entity", p>>]
  /\ writes' = writes + 1
  /\ UNCHANGED <<rowVars, wanted, lockVars, runVars, starts, mishaps, seenVars>>

(* Slip: row and vector are written by statements of their own, of which the *)
(* second is refused                                                          *)
WriteRowAlone(p) ==
  /\ write[p] # Gone
  /\ LET t == write[p][1]
         r == write[p][2]
     IN /\ row' = [row EXCEPT ![t][r] = IF @ = Gone THEN Gone ELSE writes]
        /\ \/ vector' = [vector EXCEPT ![t][r] = [dim |-> dim[p], text |-> writes]]
           \/ index[t] \notin {Gone, dim[p]} /\ UNCHANGED vector
  /\ write' = [write EXCEPT ![p] = Gone]
  /\ UNCHANGED <<index, wanted, lockVars, runVars, boundVars, seenVars>>

(* One transaction of row and vector.  An index of another dimension may    *)
(* refuse the vector.  A patch writes the vector also of a row that has     *)
(* gone since it was read.                                                  *)
WriteRow(p) ==
  /\ write[p] # Gone
  /\ LET t == write[p][1]
         r == write[p][2]
     IN \/ /\ row' = [row EXCEPT ![t][r] = IF @ = Gone THEN Gone ELSE writes]
           /\ vector' = [vector EXCEPT ![t][r] = [dim |-> dim[p], text |-> writes]]
           /\ cleared' = cleared \ {<<t, r>>}
           /\ degraded' = IF aim[p] = dim[p] THEN degraded \ {<<t, r>>}
                          ELSE degraded \cup {<<t, r>>}
        \/ index[t] \notin {Gone, dim[p]} /\ UNCHANGED <<row, vector, cleared,
                                                         degraded>>
  /\ write' = [write EXCEPT ![p] = Gone]
  /\ UNCHANGED <<index, wanted, lockVars, runVars, boundVars, trouble>>

(* A content is deleted, its rows with their vectors *)
DeleteRow(p) ==
  /\ step[p] = "serving" /\ writes < MaxWrites
  /\ \E t \in Tables : \E r \in Present(t) :
       /\ row' = [row EXCEPT ![t][r] = Gone]
       /\ vector' = [vector EXCEPT ![t][r] = Gone]
  /\ writes' = writes + 1
  /\ UNCHANGED <<index, wanted, lockVars, runVars, write, starts, mishaps,
                 seenVars>>

-----------------------------------------------------------------------------
(* A process is stopped, for a new configuration or by a crash *)
StopProcess(p) ==
  /\ step[p] = "serving" /\ GoDown(p)
  /\ UNCHANGED <<rowVars, wanted, lockVars, boundVars, seenVars>>

CrashProcess(p) ==
  /\ step[p] \notin {"down", "serving"} /\ Mishap
  /\ GoDown(p)
  /\ cleared' = cleared \cup LeavesCleared(p)
  /\ trouble' = trouble \cup {"failure"}
  /\ UNCHANGED <<rowVars, wanted, lockVars, starts, writes, degraded>>

(* A re-embedding takes longer than REEMBED_LOCK_TTL, or its holder has died *)
LockExpires ==
  /\ lock # Gone /\ ~expired
  /\ expired' = TRUE
  /\ \/ step[lock] \in {"down", "serving"} /\ UNCHANGED mishaps
     \/ step[lock] \notin {"down", "serving"} /\ Mishap
  /\ UNCHANGED <<rowVars, wanted, lock, runVars, write, starts, writes,
                 seenVars>>

RuntimeNext ==
  \/ \E p \in Processes :
       \/ StartProcess(p) \/ SyncSettings(p) \/ InspectIndex(p)
       \/ ReapLock(p) \/ CreateLock(p) \/ RecheckIndex(p)
       \/ SelectRows(p) \/ RedefineIndex(p) \/ RemoveIndex(p) \/ ClearVectors(p)
       \/ WriteVectors(p) \/ ReleaseLock(p)
       \/ \E t \in Tables : LookAtIndex(p, t) \/ DefineIndex(p, t) \/ PollIndex(p, t)
       \/ BeginServing(p)
       \/ CheckDimension(p) \/ WriteRow(p) \/ DeleteRow(p)
       \/ StopProcess(p) \/ CrashProcess(p)
  \/ LockExpires

RuntimeSpec == RuntimeInit /\ [][RuntimeNext]_runtimeVars

-----------------------------------------------------------------------------
EmbeddingTypeOK ==
  /\ row \in [Tables -> [RowIds -> 0..MaxWrites \cup {Gone, Unborn}]]
  /\ vector \in [Tables -> [RowIds -> VectorRows \cup {Gone}]]
  /\ index \in [Tables -> Dims \cup {Gone}]
  /\ wanted \in Dims /\ lock \in Processes \cup {Gone} /\ expired \in BOOLEAN
  /\ dim \in [Processes -> Dims] /\ aim \in [Processes -> Dims]
  /\ lock = Gone => ~expired

Embedding(p) == step[p] \in {"select", "redefine", "remove", "clear", "write"}

(* One process at a time embeds the rows again, however many start at once: *)
(* the CREATE of maintenance_lock:reembed is the mutex (startup.rs:173),    *)
(* as long as no process dies and no re-embedding outlasts the lock's time. *)
OneReembedder ==
  mishaps = 0 => \A p, q \in Processes : Embedding(p) /\ Embedding(q) => p = q

(* Where processes start one after the other, with the same model, no start *)
(* fails and no process is on its way, every index is there and every row's *)
(* vector is of the index's dimension and of the row's text, however        *)
(* often the model was changed: startup.rs:40.  Excepted are rows that were *)
(* stored or edited while a re-embedding had them read already              *)
(* (text_chunk.rs:175), and vectors a degraded server wrote.                *)
StartsLeaveOneSpace ==
  mishaps = 0 /\ trouble = {} =>
    \A p \in Processes :
      step[p] = "serving" /\ (\A q \in Processes : step[q] \in {"down", "serving"}) =>
        \A t \in Tables :
          /\ index[t] # Gone
          /\ \A r \in Present(t) :
               \/ vector[t][r] = [dim |-> index[t], text |-> row[t][r]]
               \/ <<t, r>> \in cleared \cup degraded

(* With crashes and failed statements, too, a row is without a vector only  *)
(* while a re-embedding is about to write it, or because one had deleted    *)
(* the vector without having read the row, or has not come to write it      *)
(* (text_chunk.rs:247, knowledge_entity.rs:430): rows and their vectors are *)
(* stored in one transaction.                                               *)
LostVectorsHaveReasons ==
  \A t \in Tables : \A r \in Present(t) :
    vector[t][r] = Gone =>
      \/ <<t, r>> \in cleared
      \/ \E p \in Processes :
           step[p] = "write" /\ Table(p) = t /\ \E v \in work[p].read : v[1] = r

=============================================================================
