------------------------------ MODULE EnginePools ------------------------------
(***************************************************************************)
(* The pools of local models, FastEmbedPool and RerankerPool, and the      *)
(* calls that use them: a retrieval checks a reranker out for its whole    *)
(* length and an embedding engine for its query; ingestion and edits only  *)
(* embed.  A model runs on a blocking thread of its own that outlives a    *)
(* caller who has gone (a closed connection, a cancelled task).            *)
(*                                                                         *)
(* at says where a call is:                                                *)
(*   idle                                                                  *)
(*   rerankPermit      RerankerPool::checkout                              *)
(*   embedPermit       FastEmbedPool::checkout                             *)
(*   embed             FastEmbedLease::embed, its thread at work           *)
(*   release           FastEmbedLease dropped: its engine is back, its     *)
(*                     permit not yet                                      *)
(*   search            the database queries of a retrieval                 *)
(*   rerank            RerankerLease::rerank, its thread at work           *)
(***************************************************************************)
EXTENDS Integers, FiniteSets, SequencesExt

CONSTANTS
  Callers,
  Embedders,           \* engines of the embedding pool
  RerankPoolSize,      \* engines of the reranker pool, 0..RerankPoolSize - 1
  NoEngine,
  MaxCancels,          \* calls whose caller goes away (a bound)
  MaxPanics            \* panics of a model (a bound)


VARIABLES
  at,                  \* per caller
  search,              \* per caller: its call is a retrieval
  idle,                \* FastEmbedPool.engines
  embedPermits, embedQueue,        \* FastEmbedPool.semaphore, a fair one
  embedLease,          \* per caller: FastEmbedLease.engine
  rerankPermits, rerankQueue,      \* RerankerPool.semaphore
  rerankLease,         \* per caller: RerankerLease.engine
  nextEngine,          \* NEXT_ENGINE
  threads,             \* blocking threads: number, engine, the caller that
                       \* awaits it or none, whether it has locked the engine
  failed,              \* callers whose thread has ended in an error
  poisoned,            \* engines whose mutex is poisoned
  cancels, panics

embedVars == <<idle, embedPermits, embedQueue, embedLease>>
rerankVars == <<rerankPermits, rerankQueue, rerankLease, nextEngine>>
threadVars == <<threads, failed, poisoned>>
poolVars == <<at, search, embedVars, rerankVars, threadVars, cancels, panics>>

Rerankers == 0..RerankPoolSize - 1
Engines == Embedders \cup Rerankers

ASSUME PoolsAssumption ==
  /\ RerankPoolSize \in Nat \ {0} /\ Embedders # {} /\ NoEngine \notin Engines
  /\ IsFiniteSet(Embedders) /\ IsFiniteSet(Callers)

Steps == {"idle", "rerankPermit", "embedPermit", "embed", "release",
          "search", "rerank"}
ThreadIds == 1..Cardinality(Callers) + MaxCancels

PoolsInit ==
  /\ at = [c \in Callers |-> "idle"] /\ search = [c \in Callers |-> FALSE]
  /\ idle = SetToSeq(Embedders)
  /\ embedPermits = Cardinality(Embedders) /\ embedQueue = <<>>
  /\ embedLease = [c \in Callers |-> NoEngine]
  /\ rerankPermits = RerankPoolSize /\ rerankQueue = <<>>
  /\ rerankLease = [c \in Callers |-> NoEngine]
  /\ nextEngine = 0
  /\ threads = {} /\ failed = {} /\ poisoned = {}
  /\ cancels = 0 /\ panics = 0

Go(c, s) == at' = [at EXCEPT ![c] = s]

(* spawn_blocking *)
Spawn(c, e) ==
  threads' = threads \cup
    {[no |-> CHOOSE n \in ThreadIds : \A t \in threads : t.no # n,
      engine |-> e, for |-> c, locked |-> FALSE]}

Awaited(c) == \E t \in threads : t.for = c

-----------------------------------------------------------------------------
(* Calls *)

(* perform_search, prepare_chat_request, retrieve_similar_entities *)
StartRetrieval(c) ==
  /\ at[c] = "idle"
  /\ Go(c, "rerankPermit") /\ search' = [search EXCEPT ![c] = TRUE]
  /\ rerankQueue' = Append(rerankQueue, c)
  /\ UNCHANGED <<embedVars, rerankPermits, rerankLease, nextEngine,
                 threadVars, cancels, panics>>

(* embed, embed_batch *)
StartEmbedding(c) ==
  /\ at[c] = "idle"
  /\ Go(c, "embedPermit") /\ search' = [search EXCEPT ![c] = FALSE]
  /\ embedQueue' = Append(embedQueue, c)
  /\ UNCHANGED <<idle, embedPermits, embedLease, rerankVars, threadVars,
                 cancels, panics>>

(* RerankerPool::checkout: the engines go round, whether they are in use or *)
(* not.  The retrieval comes to embed its query.                            *)
CheckoutReranker(c) ==
  /\ at[c] = "rerankPermit" /\ Head(rerankQueue) = c /\ rerankPermits > 0
  /\ rerankPermits' = rerankPermits - 1 /\ rerankQueue' = Tail(rerankQueue)
  /\ rerankLease' = [rerankLease EXCEPT ![c] = nextEngine]
  /\ nextEngine' = (nextEngine + 1) % RerankPoolSize
  /\ Go(c, "embedPermit") /\ embedQueue' = Append(embedQueue, c)
  /\ UNCHANGED <<search, idle, embedPermits, embedLease, threadVars, cancels,
                 panics>>

(* Slip: the engines go round here, too *)
CheckoutAnyEngine(c) ==
  /\ at[c] = "embedPermit" /\ Head(embedQueue) = c /\ embedPermits > 0
  /\ embedPermits' = embedPermits - 1 /\ embedQueue' = Tail(embedQueue)
  /\ embedLease' = [embedLease EXCEPT ![c] = Head(idle)]
  /\ idle' = Append(Tail(idle), Head(idle))
  /\ Spawn(c, Head(idle)) /\ Go(c, "embed")
  /\ UNCHANGED <<search, rerankVars, failed, poisoned, cancels, panics>>

(* FastEmbedPool::checkout: the engine returned last is taken.  That a      *)
(* permit finds none, which the code makes an error, does not occur.        *)
CheckoutEngine(c) ==
  /\ at[c] = "embedPermit" /\ Head(embedQueue) = c /\ embedPermits > 0
  /\ embedPermits' = embedPermits - 1 /\ embedQueue' = Tail(embedQueue)
  /\ embedLease' = [embedLease EXCEPT ![c] = Last(idle)]
  /\ idle' = Front(idle)
  /\ Spawn(c, Last(idle)) /\ Go(c, "embed")
  /\ UNCHANGED <<search, rerankVars, failed, poisoned, cancels, panics>>

(* The embedding is there, or an error is, and the lease is dropped: first  *)
(* the engine goes back, then the permit                                    *)
EmbedReturns(c) ==
  /\ at[c] = "embed" /\ ~Awaited(c)
  /\ idle' = Append(idle, embedLease[c])
  /\ embedLease' = [embedLease EXCEPT ![c] = NoEngine]
  /\ Go(c, "release")
  /\ UNCHANGED <<search, embedPermits, embedQueue, rerankVars, threadVars,
                 cancels, panics>>

(* Slip: a permit goes back without a lease *)
GiveAnyPermit(c) ==
  /\ rerankPermits' = rerankPermits + 1
  /\ rerankLease' = [rerankLease EXCEPT ![c] = NoEngine]

(* A failed or finished retrieval drops its lease, and the permit with it *)
DropReranker(c) ==
  /\ rerankPermits' = IF rerankLease[c] = NoEngine THEN rerankPermits ELSE rerankPermits + 1
  /\ rerankLease' = [rerankLease EXCEPT ![c] = NoEngine]

(* Slip: an error is handed on before the permit is given back *)
KeepPermitOnError(c) ==
  /\ at[c] = "release"
  /\ embedPermits' = IF c \in failed THEN embedPermits ELSE embedPermits + 1
  /\ IF search[c] /\ c \notin failed
       THEN Go(c, "search") /\ UNCHANGED <<rerankPermits, rerankLease>>
       ELSE Go(c, "idle") /\ DropReranker(c)
  /\ failed' = failed \ {c}
  /\ UNCHANGED <<search, idle, embedQueue, embedLease, rerankQueue,
                 nextEngine, threads, poisoned, cancels, panics>>

(* A retrieval goes on with its embedding; an error ends the call *)
ReleasePermit(c) ==
  /\ at[c] = "release"
  /\ embedPermits' = embedPermits + 1
  /\ IF search[c] /\ c \notin failed
       THEN Go(c, "search") /\ UNCHANGED <<rerankPermits, rerankLease>>
       ELSE Go(c, "idle") /\ DropReranker(c)
  /\ failed' = failed \ {c}
  /\ UNCHANGED <<search, idle, embedQueue, embedLease, rerankQueue,
                 nextEngine, threads, poisoned, cancels, panics>>

(* search_chunks finds candidates to rerank, one at most, or an error *)
SearchReturns(c) ==
  /\ at[c] = "search"
  /\ \/ /\ Spawn(c, rerankLease[c]) /\ Go(c, "rerank")
        /\ UNCHANGED <<rerankPermits, rerankLease>>
     \/ Go(c, "idle") /\ DropReranker(c) /\ UNCHANGED threads
  /\ UNCHANGED <<search, embedVars, rerankQueue, nextEngine, failed, poisoned,
                 cancels, panics>>

(* Without a ranking the chunks keep their order; the retrieval is answered *)
RerankReturns(c) ==
  /\ at[c] = "rerank" /\ ~Awaited(c)
  /\ Go(c, "idle") /\ DropReranker(c)
  /\ failed' = failed \ {c}
  /\ UNCHANGED <<search, embedVars, rerankQueue, nextEngine, threads,
                 poisoned, cancels, panics>>

-----------------------------------------------------------------------------
(* Threads *)

Fails(t) == failed' = failed \cup ({t.for} \cap Callers)

(* The mutex of the engine, of which a panic makes an error for ever *)
ThreadLocks(t) ==
  /\ ~t.locked /\ \A u \in threads : u.engine = t.engine => ~u.locked
  /\ IF t.engine \in poisoned
       THEN threads' = threads \ {t} /\ Fails(t)
       ELSE /\ threads' = (threads \ {t}) \cup {[t EXCEPT !.locked = TRUE]}
            /\ UNCHANGED failed
  /\ UNCHANGED <<at, search, embedVars, rerankVars, poisoned, cancels, panics>>

(* The model answers, with an error perhaps, or panics *)
ThreadEnds(t) ==
  /\ t.locked
  /\ threads' = threads \ {t}
  /\ \/ UNCHANGED <<failed, poisoned, panics>>
     \/ Fails(t) /\ UNCHANGED <<poisoned, panics>>
     \/ /\ panics < MaxPanics /\ panics' = panics + 1 /\ Fails(t)
        /\ poisoned' = poisoned \cup {t.engine}
  /\ UNCHANGED <<at, search, embedVars, rerankVars, cancels>>

-----------------------------------------------------------------------------
(* A caller goes away where it waits: its place in a queue and its leases   *)
(* are given up at once, its thread runs on.                                *)
CancelCall(c) ==
  /\ at[c] \notin {"idle", "release"}
  /\ cancels < MaxCancels /\ cancels' = cancels + 1
  /\ Go(c, "idle")
  /\ embedQueue' = Remove(embedQueue, c)
  /\ IF embedLease[c] = NoEngine
       THEN UNCHANGED <<idle, embedPermits, embedLease>>
       ELSE /\ idle' = Append(idle, embedLease[c])
            /\ embedPermits' = embedPermits + 1
            /\ embedLease' = [embedLease EXCEPT ![c] = NoEngine]
  /\ rerankQueue' = Remove(rerankQueue, c)
  /\ DropReranker(c)
  /\ threads' = {IF t.for = c THEN [t EXCEPT !.for = NoEngine] ELSE t : t \in threads}
  /\ failed' = failed \ {c}
  /\ UNCHANGED <<search, nextEngine, poisoned, panics>>

CallerStep(c) ==
  \/ CheckoutReranker(c) \/ CheckoutEngine(c) \/ EmbedReturns(c)
  \/ ReleasePermit(c) \/ SearchReturns(c) \/ RerankReturns(c)

PoolsNext ==
  \/ \E c \in Callers :
       StartRetrieval(c) \/ StartEmbedding(c) \/ CallerStep(c) \/ CancelCall(c)
  \/ \E t \in threads : ThreadLocks(t) \/ ThreadEnds(t)

ThreadOf(n, A(_)) == \E t \in threads : t.no = n /\ A(t)

(* Every await is driven on and a model answers in the end.  A thread that  *)
(* waits for a mutex gets it some time, although another may come first.    *)
PoolsFairness ==
  /\ \A c \in Callers : WF_poolVars(CallerStep(c))
  /\ \A n \in ThreadIds :
       /\ SF_poolVars(ThreadOf(n, ThreadLocks))
       /\ WF_poolVars(ThreadOf(n, ThreadEnds))

PoolsSpec == PoolsInit /\ [][PoolsNext]_poolVars /\ PoolsFairness

-----------------------------------------------------------------------------
PoolsTypeOK ==
  /\ at \in [Callers -> Steps] /\ search \in [Callers -> BOOLEAN]
  /\ embedPermits \in 0..Cardinality(Embedders)
  /\ rerankPermits \in 0..RerankPoolSize /\ nextEngine \in Rerankers
  /\ embedLease \in [Callers -> Embedders \cup {NoEngine}]
  /\ rerankLease \in [Callers -> Rerankers \cup {NoEngine}]
  /\ threads \subseteq [no : ThreadIds, engine : Engines,
                        for : Callers \cup {NoEngine}, locked : BOOLEAN]
  /\ failed \subseteq Callers /\ poisoned \subseteq Engines

(* No two leases hold the same embedding engine, and whoever has a permit   *)
(* finds an idle one, also after callers have gone away with their threads  *)
(* still at work and after errors: embedding.rs:246.  No permit of either   *)
(* pool is lost or made up.                                                 *)
EnginesAreLentOnce ==
  LET leased == {c \in Callers : embedLease[c] # NoEngine}
      reranking == {c \in Callers : rerankLease[c] # NoEngine}
  IN /\ \A c, d \in leased : embedLease[c] = embedLease[d] => c = d
     /\ IsInjective(idle)
     /\ ToSet(idle) = Embedders \ {embedLease[c] : c \in leased}
     /\ embedPermits <= Len(idle)
     /\ rerankPermits + Cardinality(reranking) = RerankPoolSize

(* Every call ends, although a retrieval waits for an embedding engine with *)
(* a reranker in its hand (search/handlers.rs:164), and although engines    *)
(* are poisoned and callers go away: nobody waits for a permit that does    *)
(* not come back.                                                           *)
CallsEnd == \A c \in Callers : at[c] # "idle" ~> at[c] = "idle"

=============================================================================
