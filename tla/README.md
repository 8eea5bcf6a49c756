# Minne in TLA+

Minne is a personal knowledge base: users submit text, links and files; worker
processes extract, chunk, embed and enrich what was submitted and store it in
SurrealDB; web servers show the content, a graph of knowledge entities,
scratchpads and a chat that answers from the content. This directory holds TLA+
modules of the parts of the program in which the order of steps matters, the
TLC configurations that check them on small instances, and theorems about them
that TLAPS proves for every value of the constants.

## 1. The system

Several processes share one SurrealDB database and one object store: any number
of web servers (`html-router`, `api-router`), any number of workers
(`ingestion-pipeline`), or both in one process (`main`). There is no other
coordination: every protocol below is made of single statements with a WHERE
clause, of short transactions, of rows that act as locks, and of check-then-act
sequences. Within a process there are the caches of the web server, the pools of
local models, and tasks that run beside a request.

| Component | State it keeps | Operations | Hard behaviour | Correct when |
|---|---|---|---|---|
| Ingestion task table (`common/.../ingestion_task.rs`) | one row per job: state, attempts, scheduled_at, locked_at, worker_id | create, claim, mark_processing / succeeded / failed / dead_letter / cancelled, release, delete | stale callers, leases, caps | locks match states, terminal states are final, attempts bounded |
| Worker and pipeline (`ingestion-pipeline`) | the worker's copy of the row, where its call is, the artifacts it built | claim, process, persist, finalize, retry, reject; per run: prepare, retrieve, enrich, persist | two workers on one task, crashes between statements, lost replies, deletions during a run | success implies content, every job settles, one run per task, what is stored of a job is what one run wrote |
| Submission and deletion handlers (`api-router/.../ingest.rs`, `html-router/.../ingestion`, `index`, `content`) | none | create tasks for a request, delete a job or a content, stream a task's state | deletion racing a run, partial failure of a batch | an answered form is queued whole, streams end |
| System settings and index-rebuild lease (`system_settings.rs`, `indexes.rs`) | one row: options, lease owner and expiry, checkpoint | patch, sync, acquire / release lease, record, seed | whole-row merges of stale copies against the lease | one rebuild at a time, checkpoint never lost |
| Embedding runtime (`main/src/bootstrap/startup.rs`, `text_chunk.rs`, `knowledge_entity.rs`, `embedding.rs`) | vectors, their indexes, `maintenance_lock`; pools of engines | start, re-embed, ensure the indexes, store, patch, delete | several processes starting, crashes between transactions, cancelled callers | one re-embedder, vectors of one dimension in the end, no engine lent twice, no call stuck |
| Files and contents (`file_info.rs`, `text_content.rs`, `store.rs`) | file rows, objects, contents that refer to them | upload with deduplication, delete, edit, serve | check-then-delete across requests, object and row written apart | no content loses its file to the deletion of another |
| Scratchpads (`scratchpad.rs`, its handlers) | a row per pad, archived and ingested marks | autosave, title, archive, restore, ingest, delete | a save between the reading and the archiving | an ingested pad has a task with its text |
| Chat (`html-router/.../chat`, `conversation.rs`, `message.rs`, `json-stream-parser`) | conversations, messages; per stream: a channel, the partial JSON; the sidebar's cache | ask, stream, store, replay, rename, delete | reconnects, two streams for a question, a client that leaves | replay shows the right turn, one answer per question, the page shows the answer and nothing else |
| Users and authentication (`user.rs`, `middlewares`, `account`, `auth`, `admin`) | user rows, sessions, cached copies, the registration switch, counters | register, sign in and out, change password, keys, preferences, delete | two first users, stale copies | one first administrator, passwords and settings changed by whom they belong to |
| Retrieval (`retrieval-pipeline`) | the context of a search | search, fuse, rerank, resolve entities, assemble | data changing between the stages, the reranker's odd answers | nothing lost, doubled, out of order or somebody else's |
| Knowledge graph handlers | entities, vectors, relationships | create, edit, link, suggest, delete, draw | ends deleted between lookup and write, two edits of one entity | edges and vectors dangle only for known reasons |
| Evaluations (`evaluations`) | converted stores, ledgers, corpora, seeded namespaces | convert, slice, ingest, seed, query | what earlier runs left, crashes halfway | a run measures its own dataset, slice and model |
| Templates, assets, `nix` | none | presentation, packaging | none | not modelled |

How they interact: the handlers write task rows, the worker reads them and
writes contents, chunks, entities and relationships; retrieval reads these and
the settings; the settings carry the dimension that persisting, searching and
the start-up reconciliation must agree on; the worker's idle loop runs the
scheduled index rebuild; deletions by users meet all of them.

`PROJECT.json` lists, under `hazards`, what in this code is hard to test, each
at its line, with the property that covers it.

## 2. The modules

| Module | What it is |
|---|---|
| `TaskLifecycle` | abstract: the life cycle of a task as `state_machine!` declares it, plus creating and deleting the row, plus the one transition the declaration lacks (`Reclaim`) |
| `IngestionTask` | the table `ingestion_task` and its statements, one action each, with the WHERE clause as a predicate of its own |
| `JobContract` | abstract: what a user is promised, without workers, leases, retries or time |
| `IngestionQueue` | the workers' loop and `process_task` over that table, users, the clock, and faults |
| `Enrichment` | what the runs of the pipeline write, stage by stage, against each other and against deletions |
| `SystemSettings` | the row `system_settings:current`, its statements, and the clients that read, edit and merge it |
| `IndexRebuild` | the workers' scheduled index rebuild over that row, the clock, and faults |
| `WebCalls` | requests of the web servers: a handler as a sequence of statements, abandoned or failed anywhere |
| `Library`, `KnowledgeGraph`, `Chat`, `Scratchpads`, `Accounts` | the handlers of one area each and the rows they share, over `WebCalls` |
| `AnswerStream` | the incremental JSON parser and the page while an answer comes in |
| `EmbeddingRuntime` | processes that start with one or another embedding model, the re-embed lock, vectors and indexes |
| `EnginePools` | `FastEmbedPool` and `RerankerPool`: permits, leases, threads that outlive their callers |
| `Search` | one retrieval from the query to the page while contents come and go |
| `Slices`, `Datasets` | pure operators: the ledgers and the converted stores of the benchmark |
| `Evaluations` | benchmark runs one after another over the same caches |
| `*Proofs` | theorems: section 4 |
| `MC*` | instances for TLC, and compositions chosen with `focus` |

A module that composes others extends them: `IngestionQueue` extends
`IngestionTask`, `IndexRebuild` extends `SystemSettings`, the web modules extend
`WebCalls`, `Evaluations` extends `Datasets` and that `Slices`. Components that
share no rows are checked in one run, in which the variable `focus` says which
of them a behaviour is about.

### 2.1 `IngestionTask`

Variables are the columns that statements test or set. `state` has two values
more than `TaskState`: `"Absent"` before the row exists and `"Deleted"` after.

*Time.* The code compares `scheduled_at` and `locked_at` with the clock and
never looks at absolute time, so the module keeps both relative to now: `dueIn`
and `lockAge`. `Tick` lets one unit pass for all rows. A lock older than the
lease behaves like one exactly that old, so `lockAge` stops at `Lease`; due
times in the past only matter for the claim order, and are told apart up to
`Horizon` ticks back. A unit is a second as `time::unix` rounds.

*Statements.* Each is a single UPDATE, CREATE or DELETE and one action. Where
the WHERE clause matches nothing the statement has no effect and the Rust
function returns an error; what the caller makes of it is in `IngestionQueue`.
`ClaimTask` is the whole claim query: candidate states, due time, attempts or
sticky state, lease, the order, the capped increment for first claims and
retries but not for reclaims, and the lock columns. `priority` has one value in
the program and is left out; `created_at` breaks ties between tasks due in the
same unit, which the model leaves open. Error columns and `updated_at` are
write-only and left out.

### 2.2 `IngestionQueue` and `Enrichment`

A worker executes one `process_task` call at a time. `pc[w]` names the statement
it will send next; `job`, `seen` (the attempts in its copy of the row) and
`tries` (failed `mark_succeeded` calls) are its locals. Everything between two
statements is a point where any other actor may act.

| Action | Code |
|---|---|
| `Claim` | `run_worker_loop`, `claim_next_ready` |
| `StartProcessing` | `mark_processing`, or its failure, which ends the call |
| `CheckArtifacts` | `artifacts_persisted` |
| `PipelineReady`, `PipelineFails` | `drive_pipeline` up to the persist stage; a failure is `Validation` or not |
| `Persist` | `execute_persist_transaction`, and the conflict retries around it |
| `Finalize` | `finalize_succeeded`, one `mark_succeeded` per step |
| `ScheduleRetry` | `mark_failed` with the back-off delay |
| `Reject`, `Bury` | `mark_failed` with no delay, then `mark_dead_letter`: two statements |
| `Crash` | the worker process dies; its replacement has a fresh id |
| `StatementFails` | a statement returns a database error without effect |
| `PersistReplyLost` | the persist transaction commits, its reply is lost |
| `Submit`, `DeleteJob`, `DeleteContent` | the users' handlers |
| `PassTime` | the clock |

A fresh worker id may be modelled by reusing the old one because an idle worker
sends no guarded statement before it has claimed, and a claim overwrites the
`worker_id` of the row it takes. A row that still names the old id stays locked
until its lease runs out, under either name.

*Assumption about time.* `MaxStay` bounds the ticks a worker spends in one phase
of a call: from the claim to `mark_processing`, and from there to the end.
`MaxStay < Lease` says that no worker outstays its lease. The code does not
enforce it (the lease is 300 s, there is no renewal, a pipeline calls LLMs), so
the properties that need it say so, and `queue_safety` checks what holds without
it.

`Enrichment` opens the step `Persist` of the queue: a run prepares its text,
reads the entities that resemble it, has the model name entities and relations,
and writes everything in one transaction that first clears what an earlier run
of the job left. Three runs of two jobs (two of one job, when a worker outstayed
its lease) interleave with the two statements that delete a content and with
`delete_knowledge_entity`. `Replies` are the answers of the language model: any
list of names, none or one twice, and relations between any names, keys of the
answer or not, and ids. An id in it that the run had not shown, be it made up,
another run's or another user's, is recorded in `unshown`.

### 2.3 `SystemSettings` and `IndexRebuild`

One row serves three parties: administrators patch options, starting processes
write the embedding backend, model and dimension of their provider, and idle
workers keep the checkpoint and the lease of the index rebuild in it. The
workers' statements set single columns under a WHERE clause; the others read the
row, edit the copy (`changes[c]`) and merge the whole copy back, columns that are
`NONE` included.

| Definition | Code |
|---|---|
| `ReadForPatch`, `KeepBackend`, `Merge` | `SystemSettingsPatch::apply`: `get_current` and `apply_to`; the second `get_current` in `update_with_mode`; the UPDATE |
| `ReadForSync`, `Merge` | `sync_from_embedding_provider` |
| `GiveUp` | `validate` fails, a statement fails, the request is dropped |
| `Look` | `get_current` and the due check of `maybe_run_scheduled_index_rebuild` |
| `Seed`, `Acquire`, `Record`, `Release` | the four statements, and what the caller does next |
| `RebuildDone`, `RebuildFails` | `rebuild_runtime` |
| `StatementFails`, `ReplyLost`, `Crash` | a database error without effect, a reply that is lost, the death of the process |

Options are fields with values; the embedding model and dimension, which are
always written together, are one field. An interval of 0 switches the rebuild
off and is left out. Time is relative as in `IngestionTask`: `checkpoint` is an
age that stops at `Interval`, `expires` is what is left of the lease and stops at
-1, and copies age with the row. All processes have the same clock here; the
code reads the database's for leases and the worker's own for the due check.

`MaxRebuild` bounds the time from the lease to the end of the call. The code has
no such bound (the lease is six hours); `rebuild` lets rebuilds outlast
the lease.

### 2.4 `WebCalls` and the handlers

A handler is a future, and between two awaits any other request runs. `call[c]`
is one request: its handler (`op`), the statement it waits at (`at`), the
signed-in user, the id in its path (`key`), what it has read (`got`) and whose
rows its answer shows (`page`). A step of a module is one statement and what the
handler does until the next one. `AbandonCall` ends a request anywhere: a
statement failed, the client went away, or the process died. `RequireUser` has
run when a call starts.

| Module | Rows | Steps |
|---|---|---|
| `Library` | `file`, `object`, `content`, `children`, `job` | the uploads of a form, one beside the other (`part`): find by digest, put the object, create the row, undo or look again when another upload of the digest was first; the batch of tasks; the worker that turns a job into a content; deleting a content in its statements (other users of the file, object, row, children, content); deleting a job; edits, downloads, lists; the event stream of a task |
| `KnowledgeGraph` | `entity`, `vector`, `edge` | entity and embedding in one transaction, the checks of a relation's ends and the relation, the suggestions of a form, the deletion of one entity (its edges go with it, its vector stays) and of a content's entities, the two reads behind the drawn graph |
| `Chat` | `chat`, `said`, `archive` | asking, the stream and the task (`writer`) that stores its answer when the stream has let go of the channel, the search for an existing answer in the turn, the validation of references against two tables and the retrieval's context, titles, deletion, and the list of conversations that the response middleware caches |
| `Scratchpads` | `pad`, `queued` | each function of `scratchpad.rs` reads, checks the owner, changes by id and reads again |
| `Accounts` | `user`, `session`, `copied`, `open`, `visits` | registration (the users are counted in a statement before the row is created), sign-in and out, the account page, the analytics counters, the copies of users that the session layer caches and handlers clear, and the settings row as far as registration goes: `ReadSettings` and `MergeSettings` are the two halves of `SystemSettingsPatch::apply` for the admin's toggle, for the handlers of models and prompts (`options`) and for a server that starts (`sync`), each of which merges the whole row it has read |
| `AnswerStream` | `parser`, `buffer` | `process_chunk` and the parser of `json-stream-parser` as operators on tokens, fed with every cut of every document into chunks |

*History variables.* Where a race is possible and known, a variable records that
it happened (`raced`, `late`, `robbed`, `shed`, `crossed`, `taken`, `outdated`,
`overtaken`, `passed`, `blind`), and the property says that nothing goes wrong for any other
reason. Each is set by the one interleaving its comment names; without it the
property fails.

### 2.5 `EmbeddingRuntime`, `EnginePools`, `Search`

`EmbeddingRuntime` has processes, of which some (`Maintainers`: workers and the
combined binary) may re-embed. `step[p]` runs through
`prepare_embedding_runtime`: `StartProcess`, `SyncSettings`, `InspectIndex`;
`ReapLock`, `CreateLock` (`try_acquire_reembed_lock`); `RecheckIndex`,
`SelectRows` ... `WriteVectors` for the chunks and then for the entities;
`ReleaseLock`; `LookAtIndex`, `DefineIndex`, `PollIndex` (`ensure_runtime`, both
tables at a time); and then it serves, storing, patching and deleting rows
(`CheckDimension`, `WriteRow`, `DeleteRow`). A vector is its dimension and the
version of the text it was made of. An index of one dimension may refuse a
vector of another, or its build may end in an error; both are left to chance
where the database works concurrently. Crashes, failed statements and locks that
outlive `REEMBED_LOCK_TTL` count as mishaps.

`EnginePools`: `at[c]` says where a call is, and `threads` are the blocking
threads, which go on when the caller is gone. Both semaphores are fair queues,
the pool of engines is a stack, the reranker's engines go round. A retrieval
holds a reranker while it embeds its query.

`Search` follows `perform_search` and the stages of the pipeline. Scores are
integers with `Unit` for 1; fusion, normalisation and blending are computed as
in `scoring.rs`, with a `Unit` that comes out even. The indexes answer with any
of the user's chunks at any scores; the reranker with any list of positions,
doubled, missing or out of range.

### 2.6 `Slices`, `Datasets`, `Evaluations`

The benchmark is sequential; what is hard is what one run leaves for the next.
`Slices` has the choice of questions and paragraphs, the quotas of the mix, and
how a ledger is extended; `Datasets` the converted stores, written file by file,
so that a conversion that dies leaves a prefix of its writes; `Evaluations` the
stages `prepare`, `slice`, `db`, `corpus`, `namespace`, `queries`, each of which
may find its work done by an earlier run with other arguments. Shuffles are fixed
orders, checksums are what they are computed of, a text's id is the number of the
run that ingested it.

## 3. The runs

| Run | Instance | Checks | Shows |
|---|---|---|---|
| `task_cancel` | 2 tasks, 2 workers, 3 attempts, lease 2 | `CancelAcceptsUnfinished`, **violated** | `mark_cancelled` refuses Failed tasks, against its doc |
| `queue_safety` | 2 tasks, 2 workers, `MaxStay = 2 > Lease = 1`, 1 fault; 3 runs of 2 jobs, 1 deletion | `TypeOK`, `OwnerIsCurrent`, `SuccessHasContent`, `ExhaustedIsBeingBuried`, `SnapshotsAreWhole` | what holds although leases are lost, and what runs leave in the database |
| `queue_contract` | 2 tasks, 2 workers, `MaxStay = 1 < Lease = 2`, 1 fault | `OneRunPerTask`, `KeepsContract`, `JobsOutliveFaults` | what holds when no lease is lost: exclusion, the contract, and that every job settles but for the case of `queue_stranded` |
| `queue_stranded` | 1 task, 1 worker, 1 fault | `FailedMovesOn`, **violated** | a crash between `mark_failed` and `mark_dead_letter` strands an exhausted task |
| `queue_rejected` | 1 task, 2 workers, no fault | `RejectedIsBuried`, **violated** | another worker can claim a rejected task between the two statements |
| `rebuild` | 2 workers, 1 client with 1 update, `MaxRebuild = 3 > LeaseTtl = 1`, interval 2, 1 fault | `RebuildTypeOK`, `InitialRebuildWaits`, `OneRebuildAtATime`, `LeaseLostOnlyWhenOver`, `RebuildsRecur` | what holds although copies are stale and rebuilds overlong; exclusion as long as nobody updates the row |
| `rebuild_due` | 2 workers, no update, no fault | `RebuildsOnlyWhenDue`, **violated** | a due rebuild is done twice |
| `settings_patch` | 2 clients, 1 worker, no fault | `PatchIsPartial`, **violated** | a patch puts back what it does not name |
| `pages` | 3 requests, or 2 with 1 fault; 2 people with a browser each, 2 emails; 2 pads, 2 texts; answers of 2 pieces, chunks of at most 3 tokens; 2 tasks, 2 workers, 3 attempts, lease 2 | `PagesTypeOK`, `OneFirstAdmin`, `PasswordsAreOwn`, `SettingsByAdmins`, `StaleCopiesHaveReasons`, `IngestedTextIsQueued`, `AnswersAreShown`; `TaskTypeOK`, `LockMatchesState`, `FollowsLifecycle` | accounts, scratchpads and streamed answers; and that the statements on the task table are safe in any order from any caller |
| `documents` | 2 requests, 1 fault (2 for the polls of a task stream); 2 digests, at most 2 files uploaded by one form or by two; 3 entities; 2 unanswered questions | `DocumentsTypeOK`, `ContentKeepsFile`, `UploadsAreWhole`, `TenantsAreApart`, `GraphsAreSound`, `ReplaysOwnTurn`, `OneAnswerPerQuestion`, `SidebarsHaveReasons`, `StreamsEnd` | files and contents, the knowledge graph, the chat |
| `retrieval` | 3 processes (2 maintainers), 2 dimensions, 2 starts, 1 write or mishap; 2 callers, 1 embedding engine, 1 reranker, 1 cancel, 1 panic; 4 chunks of 3 sources, 1 change; 15 command lines, 2 benchmark runs with a fault or 3 without | `RetrievalTypeOK`, `OneReembedder`, `StartsLeaveOneSpace`, `LostVectorsHaveReasons`, `EnginesAreLentOnce`, `CallsEnd`, `SearchesAreSound`, `EvaluationsAreOwn` | the embedding runtime, the pools, a search, the benchmark's caches |
| `entity_score` | the searches of `retrieval` | `EntitiesScoreBest`, **violated** | an entity does not always have the score of its best chunk |

*Bounds.* Queue: two workers are enough for every race of the protocol, since all
guards mention one worker id and the third party is the row. Two tasks make the
claim order and the independence of rows matter. Two or three attempts give a
first try, a retry and an exhausted task. `Lease = 1` with `MaxStay = 2` lets a
worker sleep through the whole lease of the worker that replaced it and come
back; `Lease = 2` with `MaxStay = 1` is the smallest instance in which time
passes within a phase and the lease still holds. The back-off parameters give
delays of 1 and 2, the second one cut by the maximum. One fault reaches every
single failure. Rebuild: one update puts a stale copy over whatever workers wrote
since it was read, and a rebuild two units longer than the lease lets another
worker take it, and let it run out, before the first one records.

Requests: the races of handlers are between two requests on one row, and the
initial states have rows (a file shared by a content and a waiting job, entities
of both users, unanswered questions, users or none), so that no request is spent
on making them. `pages` has a third request because the stale copy of an account
takes one to make, one to change the row, and one to use the copy. It comes where
no fault does (`FewFaults`), and behaviours in which somebody but the toggle
merges the settings have requests on the settings and departures only
(`SettingsApart`): nothing else reads what they write but a registration, for
which the switch is open or not. Four more bounds keep the run short: visits
are counted in behaviours of their own (`VisitsApart`), requests that only read
arrive last (`ReadersLast`), a behaviour changes preferences or keys, which are
stored alike, but not both (`OneKindOfPatch`), and its requests name one pad
(`OnePad`). Two callers share one embedding engine and one
reranker, so that a search waits for the engine with the reranker in hand. A
process may
start twice with a new model while an old one serves; the third process is the
server that only reads. Answers of two pieces contain every pair of what the
parser treats differently, and every cut into chunks. Queries of three scores
and lists of three candidates reach every branch of fusion and reranking. Any two
command lines follow each other with the first of them failing anywhere, any
three without a failure. What a pair of bounds combines is in the comments
`(a bound)` of the MC modules.

*What the bounds miss.* Three requests on one pad do not reach the interleaving in
which an ingestion looks at a pad that was archived, the pad is restored and
saved, and the ingestion then marks it; the theorem about scratchpads covers it.

*Symmetry* is used in `queue_safety` alone: tasks and workers are
interchangeable, and the run checks invariants only.

*Fairness.* `FairSpec` of the queue: each worker process keeps taking steps (the
loop of `run_worker_loop` never ends, sleeps are finite, and every await in
`process_task` is taken to return), and the clock does not stop. `IndexRebuild`
likewise; a client may stop for ever between its read and its merge. In
`documents` a stream whose client is connected polls on (`PollTask`), a chat
handler and the task that stores an answer run when they can (`ChatStep`,
`WriterStep`); no request has to arrive and none has to be abandoned. In
`EnginePools` every await is driven on (WF of `CallerStep`), a model answers in
the end (WF of `ThreadEnds`), and a thread that waits for a mutex gets it some
time although others may come first (SF of `ThreadLocks`). No user has to act
and no fault has to happen anywhere.

*What a mutant means.* Every property of a passing run is broken by a small
change to a definition, kept next to the original under a comment `Slip`.

### 3.1 Findings

1. `mark_cancelled` leaves out Failed, its doc comment says any non-terminal
   state (`task_cancel`).
2. A crash between the two statements of a final failure strands the task in
   Failed: no claim takes it, and the list of active jobs hides it
   (`queue_stranded`).
3. A validation failure with attempts left is claimable between the two
   statements, so that it may run again instead of being dead-lettered
   (`queue_rejected`).
4. A settings patch merges the whole row it read, and so takes back what others
   wrote in between (`settings_patch`): options, the checkpoint, or a rebuild
   lease, after which a second worker may rebuild at the same time. That is why
   `OneRebuildAtATime` is stated for the time until the first update.
5. `resolve_entities` gives an entity the score of the first candidate of its
   source; its doc comment says the best one, which after reranking may be
   another (`entity_score`). `SearchesAreSound` therefore says no more than that
   it is the score of some candidate of its source.
6. The due check of the rebuild is not repeated under the lease, so that two
   workers may do the same due rebuild one after the other (`rebuild_due`).

### 3.2 What else the models show

These follow from the models, and are why a property has an exception; no run is
spent on them.

*Queue and pipeline.* The claim query moves an expired task from Processing to
Reserved, which the `state_machine!` declaration does not provide for;
`TaskLifecycle` has this transition as an action of its own, `Reclaim`. When a
worker outstays its lease, two workers run one task, content is written after
the job was dead-lettered or settled, and with two workers a task may be
reclaimed for ever because reclaims do not count as attempts. A key that the
model names twice fails the whole persist. A relation's ends that are raw ids
are checked neither for existence nor for their owner: a language model that
writes the id of another user's entity gets its relation (`unshown`). A persist between the
two statements of a deletion leaves children without a content (`torn`). A URL's
screenshot is stored anew by every run and deleted with nothing.

*Files and graph.* A file deleted while an upload or a job holds it is gone for
the content that job makes (`raced`). Not modelled is a CREATE of a file row
that commits and whose reply is lost (`file_info.rs:192`): the object is then
removed and the row stays, for later uploads with that digest to find. A relation whose end is deleted between
check and write dangles for good (`robbed`); a vector outlives its entity after
the deletion of that one entity or a late patch (`shed`).

*Accounts.* Two first registrations may both become administrators (`crossed`);
a changed password goes to whoever has the email by then (`taken`); whoever
saves a prompt, or a server that starts, may undo the closing of registration
(`overtaken`); the session
layer may cache a copy it read before a change and after the clearing
(`outdated`).

*Chat.* A stream that looked for an answer in vain stores a second one
(`blind`); a question put before the one before it was answered gets that
answer replayed. An invalidation of the sidebar between reading and caching is
lost until the copy expires (`passed`).

*Answers on their way.* `\\` before an `n` is shown as a line break while
streaming (a backslash does not survive); other escapes stay raw until the stored
answer is shown. A document with the references before the answer hides the
answer while it streams, since the parser takes a list for a scalar up to its
next comma; the program relies on the order of its schema. Text before the JSON
document hides the answer, and the raw text is what is stored.

*Scratchpads.* A save during an ingestion, or by a request that had seen the pad
before it was archived, is archived without being ingested (`late`).

*Embedding runtime.* A process that does not get the lock goes on with its own
dimension: its `ensure_runtime` may overwrite the chunk index before the lock's
holder looks again, which then skips the re-embedding
(`startup.rs:108`, `:126`). A crash between REMOVE INDEX, DELETE and the
transaction leaves a table without index or vectors, and a crash between the
chunks and the entities vectors of two dimensions (`text_chunk.rs:171` speaks of
one all-or-nothing transaction); a patch in between makes
the re-embedding fail; rows stored between the SELECT and the DELETE lose their
vectors; a read-only server with a new provider writes vectors of a dimension
its index does not have. `StartsLeaveOneSpace` is stated for starts that
follow each other with one model at a time.

*Search.* Entities come from all candidates, chunks only from the first `limit`.

*Pools.* The thread of a cancelled caller works on with an engine that is back
in the pool. A panic poisons an engine, which returns to the top of the stack.

*Evaluations.* A shard relabelled for another model keeps its vectors; an offset
is applied twice, and neither the manifest nor the record of the seed has it, so
that a run without an offset evaluates, instead of its first cases, those a run
with one has left if they are as many; two slices in one namespace reuse each other's rows; a ledger
there is never grown; a reset that fails is logged and the run goes on; an answer
that was not found is cached as found nowhere; stores and their metadata are not
written atomically, so that half a store looks whole; `--limit 0` with
unanswerable questions fails without `--llm-mode`; `--require-ready` compares
neither fingerprint nor number of cases; `--slice-reset-ingestion`,
`--force-convert` and `--refresh-embeddings` do nothing when the namespace is
reusable; the catalog's slice overrides an explicit limit equal to the default.
`EvaluationsAreOwn` excepts exactly the runs that share a namespace, kept it
after a failed reset, have an offset or find what one with an offset has seeded,
or use relabelled vectors.

## 4. The proofs

The theorems hold for any sets and any values of the numeric constants that
satisfy the assumptions `TaskAssumption`, `RetryDelayAssumption`,
`QueueAssumption`, `SettingsAssumption`, `RebuildAssumption`,
`RuntimeAssumption`, `PoolsAssumption`, `EnrichmentAssumption`,
`AccountsAssumption`, `ScratchpadsAssumption`, `AnswersAssumption`,
`GraphAssumption`, `ChatAssumption`, `LibraryAssumption` and `SearchAssumption`. `RetryDelayAssumption` (a retry delay lies between 0 and
the maximum) is an assumption because the provers have no theory of
exponentiation; TLC evaluates it in every run. The others say that numbers are
natural, that `None`, `Gone` and `Nothing` are no values of the sets they stand
beside, that rows an instance starts with and forms that are submitted are
well-formed, that the ids and prefixes that are made (a request makes one at
most, an upload one too, and lends it its own name) are not theirs, that pads
have an owner among the users and answers are written of the pieces the model
knows, and that engines and callers are finitely many.

`IngestionQueueProofs` has the theorems about tasks, workers and the pipeline,
`IndexRebuildProofs`, `RetrievalProofs` and `SearchProofs` those about the
modules of these names, the embedding runtime and the mix of `Slices`, `DocumentsProofs` those about
`KnowledgeGraph`, `Library` and `Chat`, and `PagesProofs` those about `Accounts`
and `Scratchpads`; `AnswerProofs` holds the invariant of `AnswerStream` and the
lemmas about its parser, and `ListProofs` what several of them need of lists.

| Theorem | States | Argument |
|---|---|---|
| `TaskTypeCorrect`, `LockInvariant` | `TaskSpec => []TaskTypeOK`, `[]LockMatchesState` | inductive as they stand, one lemma per kind of statement |
| `TerminalStays` | `TerminalIsFinal` | each statement names the states it starts from |
| `ImplementsLifecycle` | `TaskSpec => FollowsLifecycle` | step by step; a claim maps to Reserve, Reclaim or a stutter |
| `TypeCorrect` | `Spec => []TypeOK` | inductive |
| `OwnerCurrent` | `[]OwnerIsCurrent` | inductive with `TypeOK`: whoever changes a row puts its own id or none into it |
| `SuccessIsReal` | `[]SuccessHasContent` | strengthened by `FinalizerHasContent`: whoever is finalizing has seen or written the content |
| `ExhaustedTasksAreBuried` | `[]ExhaustedIsBeingBuried` | strengthened by `RetryingCanRetry`; needs `OwnerIsCurrent`, since `can_retry` is asked of the copy |
| `RunsAreExclusive` | `MaxStay < Lease` implies `[]OneRunPerTask` | strengthened by `LeaseHeld`: the lock a worker believes in is its own and as old as its stay |
| `QueueKeepsContract` | `MaxStay < Lease` implies `KeepsContract` | refinement under `OwnerIsCurrent`, `LeaseHeld`, `FinalizerHasContent` |
| `RebuildTypeCorrect` | `[]RebuildTypeOK` of `IndexRebuild` | inductive; an edited or aged copy of a well-formed row is well-formed |
| `FirstRebuildWaits` | `[]InitialRebuildWaits` | strengthened by `NoOlderThanSetup`: no checkpoint, in the row or in a copy, is older than the database |
| `LeaseIsKept` | `LeaseLostOnlyWhenOver` | step by step: only statements guarded by the owner, or by an expired lease, write the owner |
| `MaintainersAreExclusive` | `[]OneRebuildAtATime` | strengthened by `LeaseBelongsToRebuilder`: a rebuilder owns the lease, and it is as old as its stay |
| `ReembeddersExclude` | `[]OneReembedder` of `EmbeddingRuntime` | strengthened by `MutexInv`: until something fails, whoever is past the CREATE of the lock is the one it names, and whom it names is past it, so that the lock cannot run out; one lemma per group of steps before, under and after the lock |
| `LostVectorsAreExplained` | `[]LostVectorsHaveReasons` | inductive as `LostInv`, with the types: a row and its vector are stored together, so that only a DELETE takes a vector from a row, and what it takes the process that deletes has read or is noted in `cleared` |
| `StartsLeaveOne` | `[]StartsLeaveOneSpace` | strengthened by `MutexInv`, `HandsInv` (a process has one version of each row it has read, and nothing in hand before the lock and after) and `SpaceInv`: as long as nothing fails and starts follow each other, either every table is whole in one dimension, which those who serve with it have and those on their way to the lock have not (`Space`), or one process is re-embedding, the table before its own is whole in its dimension and its own is as far as it has come (`Reembedding`). One lemma per statement of the re-embedding |
| `EnginesAreLent` | `[]EnginesAreLentOnce` of `EnginePools` | inductive as `PoolsInv`: an engine is idle or of exactly one call (`LeasesInv`), and permits that are there, with those on their way back, are as many as idle engines (`PermitsInv`) |
| `SearchesStaySound`, `SearchTypes` | `SearchSpec => []SearchesAreSound`, `[]SearchTypeOK` | strengthened by `SearchInv`, which says what each stage has in hand: scores of rows that are the user's own and were stored when they were found; candidates each once, in an order that agrees with both queries until they are reranked; entities of the candidates' sources with the score of one of them; and, at the end, a sound page. Below it are facts about the operators: a sorted finite set lists each member once (`SortedFacts`), the shares of two ranks are as the ranks (`PartsFall`), a fusion keeps an order both lists have (`FusedScoresAgree`), whatever a reranker says leaves the same candidates (`RerankedOver`), flattened groups are of one group each (`FlattenFacts`). Lists are joined a finite number of times, so that what `FlattenSeq` computes is shown by an induction over their number (`JoinsExist`, `FlattenIsJoined`) |
| `MixTakesAlike` | what `MixTakes` of `Slices` takes from any number of subsets for any target: never more than a subset has, and a subset that has more to give is at most two cases behind any other | quotas differ by one case at most (`QuotasAreEven`), and what has been granted above them differs by one at most among those that have more to give, after any number of turns (`GrantStaysEven`, `ToppedStaysEven`; the turns are an induction over their number, `StepsExist`). Two cases is the truth, not one: of three subsets, for a target of 4, with the third one empty, the first is asked for 3 and the second for 1. The run has two subsets, of which one alone can lack cases, and `Balanced` allows them one case |
| `RunsLeaveOneSnapshot` | `[]SnapshotsAreWhole` of `Enrichment` | strengthened by `EnrichmentInv`: an id is of the run that made it and so of its job and user, a run names nothing but what its user had, unless it names what it was not shown, and what is stored of a job is all of one run or nothing, which the transaction of another job leaves as it is (`OthersKeepTheirs`) |
| `IngestedPadsAreQueued` | `[]IngestedTextIsQueued` of `Scratchpads` | strengthened by `IngestInv`: what an ingestion has read is the text of the row, unless a save came late, and once its task is stored the task has that text. Its rows may change by one statement at most between two steps of the ingestion (`RowChanges`), its calls by their own (`CallMoves`) |
| `AccountsAreTyped`, `FirstAdminIsOne`, `PasswordsStayOwn`, `StaleCopiesAreExplained` | `[]AccountsTypeOK`, `[]OneFirstAdmin`, `[]PasswordsAreOwn`, `[]StaleCopiesHaveReasons` of `Accounts` | strengthened by `AccountsInv`: an id and an email have one user, a cached copy has the rights of its row, a registration that counted nobody is alone or has been crossed by another, and a request past its check still has what it checked |
| `AdminsAloneSwitch` | `SettingsByAdmins` | the copy of the user that an administrator's request acts on says what the row says, from `AccountsInv`; a merge that is not the toggle's writes the switch as it read it, and whoever changed it since has put the request into `overtaken` (`CopiesAreCurrent`) |
| `AnswersStayShown` | `PagesSpec => []AnswersAreShown` | strengthened by `AnswersInv`: the parser is what it is after the tokens received, wherever they were cut (`ReadOn`), and the page has a beginning of the answer that is at least as long as what the parser has. Below it is what the parser makes of a document, token by token: reading a list of tokens is feeding them one after the other (`ReadIsFed`, an induction over their number, since `FoldLeft` folds over a set); each piece of the answer adds its streamed form and never more (`PieceReads`); a key, a separator or a list of references leads the parser on without touching the answer (`ReferencesPass`, and `TextDrifts` for a text that comes when a list has thrown the parser off); so that every prefix of every document leaves a beginning of the answer and the whole of it all of the answer when it comes first (`DocumentReads`). What the page renders of the pieces is what serde decodes (`AllIsShown`) |
| `PagesAreTyped` | `PagesSpec => []PagesTypeOK` | `PagesInv`: `AccountsInv`, `IngestInv` with the types of pads (an ingestion queues a text that was read from a row), and `AnswersInv`, from which the parser is `ParserOK` |
| `GraphsStaySound` | `[]GraphsAreSound` of `KnowledgeGraph` | strengthened by `GraphInv`: what a request has looked up is later the same row or gone, because an id is given once |
| `ContentsKeepFiles`, `UploadsStayWhole` | `[]ContentKeepsFile`, `[]UploadsAreWhole` of `Library` | strengthened by `LibraryInv`, which follows a file through its life: the object is put, the row created, the object deleted, the row deleted, each once (`FileInv`, `PartInv`). A task that is over keeps its file and its content names it (`JobInv`, `ContentInv`); a request that has decided to delete a file knows of every other content with it that it was made of a task that held the file at the time (`OthersAreRaced`). One lemma per statement, over what the statement leaves alone (`MadeStays`, `ObjectsMade`, `JobsStay`, `NewContents`, `OthersWait`) |
| `TurnsAreReplayed`, `QuestionsAreAnsweredOnce`, `KeptListsAreExplained` | `[]ReplaysOwnTurn`, `[]OneAnswerPerQuestion`, `[]SidebarsHaveReasons` of `Chat` | strengthened by `ChatInv`: a question is the only one with its id and its stamp, an answer is later than its question, and a stream that is answering knows of every answer there is already that it was stored after it had looked or after a further question (`TurnInv`). What a stream replays is the first answer that follows; that there is a first is the well-ordering of the stamps. A list about to be kept is what `KeptInv` says at every step of the other requests |
| `DocumentsAreTyped`, `TenantsStayApart` | `DocumentsSpec => []DocumentsTypeOK`, `[]TenantsAreApart` | the invariants of `Library`, `KnowledgeGraph` and `Chat` together (`DocumentsInv`): each says that a page shows rows of its reader and that what was looked up under the reader's name is the reader's or gone |

`OneRebuildAtATime` speaks of workers within their leases and of the time before
the first update, `OneReembedder` of behaviours without a mishap: they fail
otherwise. `PadsSpec` has any number of requests, `RuntimeSpec` any number of
processes, rows and starts, `PoolsSpec` any number of calls and `EnrichmentSpec`
any number of runs; they are the specifications of the modules, of which the runs
take a `focus`.

Only model-checked: the liveness properties (`JobsOutliveFaults`,
`RebuildsRecur`, `StreamsEnd`, `CallsEnd`), since fairness and ENABLED are beyond
the prover; `EvaluationsAreOwn`, which compares what the benchmark computes by
folding, selecting and sorting lists with what it should be, and
`RetrievalTypeOK` for the evaluations, whose types rest on the same operators
(the types of the runtime, the pools and searches are proved, as part of
`LostInv`, `PoolsInv` and `SearchTypes`).

## 5. Not modelled, and what is left

Not modelled: the extraction of texts (PDF, web pages, audio), prompts and the
wording of answers, the screenshots of web pages, `produce_artifacts` (it writes
nothing and serves the evaluations), the full-text analyzer and its indexes
(they depend on no setting), the choice of an embedding provider before a process
starts, the converters of the datasets' formats, the metrics and reports of the
benchmark, error texts, priorities, templates, assets and packaging. The clients
of the database and the object store have no state of their own: each statement
is a step of the module of its caller.

Left to prove: `EvaluationsAreOwn` and the part of `RetrievalTypeOK` that speaks
of evaluations. But for the mix, `Slices` and `Datasets` compute with folds over
data and stay with TLC.
