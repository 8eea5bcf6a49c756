-------------------------------- MODULE Search --------------------------------
(***************************************************************************)
(* One retrieval of a user, from perform_search to the hits on the page,   *)
(* while contents are stored and deleted: vector and full-text candidates, *)
(* their fusion, the reranker's opinion, the entities of the candidates'   *)
(* sources, and the list that is shown.                                    *)
(*                                                                         *)
(* Scores are integers: a score x of the code is x * Unit.  What the       *)
(* indexes and the reranker answer is any choice they may make.            *)
(***************************************************************************)
EXTENDS Integers, FiniteSets, SequencesExt

CONSTANTS
  Sources,
  ChunksOf, EntitiesOf,   \* per source: ids of its chunks (numbers) and entities
  OwnSources,             \* those of the user
  SeedSources,            \* those that are stored at first
  Views,
  Tuning,                 \* RetrievalTuning; the weights are written out
  TotalLimit,             \* hits that are shown
  VectorScores, TextScores, RerankScores,
  MaxChanges              \* contents stored or deleted meanwhile (a bound)

VARIABLES
  stored,                 \* ids of chunks and entities in the database
  lived,                  \* those that were there since the retrieval began (history)
  changes,
  stage,                  \* "new", a StageKind, "label", "answered" or "failed"
  view, terms,            \* SearchView, the number of terms of the query
  vectorScored, textScored,   \* candidates with their scores
  queries,                \* the queries of search_chunks that are answered
  candidates,             \* PipelineContext.chunk_values
  entities,               \* PipelineContext.entity_results
  hits                    \* chunk_results, and then what is shown

dataVars == <<stored, lived, changes>>
queryVars == <<view, terms, vectorScored, textScored, queries>>
searchVars == <<dataVars, stage, queryVars, candidates, entities, hits>>

ChunkIds == UNION {ChunksOf[s] : s \in Sources}
EntityIds == UNION {EntitiesOf[s] : s \in Sources}
SourceOf(r) == CHOOSE s \in Sources : r \in ChunksOf[s] \cup EntitiesOf[s]
Own(r) == SourceOf(r) \in OwnSources
NoScores == [c \in {} |-> 0]

(* The identifiers of a source are its own.  No query takes so many candidates *)
(* that Unit, below, does not tell their ranks apart.                          *)
ASSUME SearchAssumption ==
  /\ IsFiniteSet(Sources) /\ OwnSources \subseteq Sources /\ SeedSources \subseteq Sources
  /\ \A s \in Sources :
       /\ IsFiniteSet(ChunksOf[s]) /\ ChunksOf[s] \subseteq Nat /\ IsFiniteSet(EntitiesOf[s])
       /\ \A t \in Sources :
            /\ ChunksOf[s] \cap EntitiesOf[t] = {}
            /\ s # t => ChunksOf[s] \cap ChunksOf[t] = {} /\ EntitiesOf[s] \cap EntitiesOf[t] = {}
  /\ Tuning \in [vectorTake : Nat, ftsTake : Nat, keepTop : Nat, resultCap : Nat, perEntity : Nat,
                 useVector : BOOLEAN, useFts : BOOLEAN, scoresOnly : BOOLEAN]
  /\ Tuning.vectorTake <= 1000 /\ Tuning.ftsTake <= 1000
  /\ TotalLimit \in Nat
  /\ VectorScores \subseteq Int /\ TextScores \subseteq Int /\ RerankScores \subseteq Int

AtLeastOne(n) == IF n = 0 THEN 1 ELSE n
Prefix(s, n) == SubSeq(s, 1, IF n < Len(s) THEN n ELSE Len(s))

(* The members of a finite set, sorted by a strict order (a set of pairs) *)
Sorted(S, order) ==
  [i \in 1..Cardinality(S) |-> CHOOSE c \in S : Cardinality({d \in S : <<d, c>> \in order}) = i - 1]

(* What stands in a list at these positions *)
Picked(list, positions) ==
  LET kept == Sorted(positions, {p \in positions \X positions : p[1] < p[2]})
  IN [n \in DOMAIN kept |-> list[kept[n]]]

-----------------------------------------------------------------------------
(* reciprocal_rank_fusion *)

RrfK == 60
(* Ranks up to 3, weights in halves and blends in twentieths come out even *)
Unit == 40 * (RrfK + 1) * (RrfK + 2) * (RrfK + 3)

(* The place of a candidate among those of one query, from 0 *)
Rank(scored, c) ==
  Cardinality({d \in DOMAIN scored : \/ scored[d] > scored[c]
                                     \/ scored[d] = scored[c] /\ d < c})

Contribution(halves, scored, c) ==
  IF c \in DOMAIN scored
    THEN halves * (Unit \div (2 * (RrfK + Rank(scored, c) + 1)))
    ELSE 0

(* Short queries lean on the text *)
TextWeight(n) == IF n \in 1..3 THEN 3 ELSE 2

FusedScore(vectors, texts, n, c) ==
  (IF Tuning.useVector THEN Contribution(2, vectors, c) ELSE 0)
    + (IF Tuning.useFts THEN Contribution(TextWeight(n), texts, c) ELSE 0)

Fusion(vectors, texts, n) ==
  LET merged == (IF Tuning.useVector THEN DOMAIN vectors ELSE {})
                  \cup (IF Tuning.useFts THEN DOMAIN texts ELSE {})
      fused == [c \in merged |-> FusedScore(vectors, texts, n, c)]
      before == {p \in merged \X merged : \/ fused[p[1]] > fused[p[2]]
                                          \/ fused[p[1]] = fused[p[2]] /\ p[1] < p[2]}
      ranked == Sorted(merged, before)
  IN [i \in DOMAIN ranked |-> [chunk |-> ranked[i], score |-> fused[ranked[i]]]]

-----------------------------------------------------------------------------
(* apply_chunk_rerank_results.  An opinion is a sequence of positions in    *)
(* the list of candidates, from 1, each with a score.                       *)

MinMaxNormalize(x, scores) ==
  LET low == CHOOSE m \in scores : \A y \in scores : m <= y
      high == CHOOSE m \in scores : \A y \in scores : m >= y
  IN IF low = high THEN Unit ELSE ((x - low) * Unit) \div (high - low)

Blend(fused, normalized) ==
  IF Tuning.scoresOnly THEN normalized ELSE (7 * fused + 13 * normalized) \div 20

(* Slip: a candidate is not taken out of the list *)
EveryOpinion(list, opinion) == {i \in DOMAIN opinion : opinion[i].index \in DOMAIN list}

(* The first opinion on a candidate counts, one on no candidate does not *)
Opinions(list, opinion) ==
  {i \in DOMAIN opinion :
     /\ opinion[i].index \in DOMAIN list
     /\ \A j \in 1..i - 1 : opinion[j].index # opinion[i].index}

Reranked(list, opinion) ==
  LET raw == {opinion[i].score : i \in DOMAIN opinion}
      counted == Picked(opinion, Opinions(list, opinion))
      first == [n \in DOMAIN counted |->
                  [list[counted[n].index] EXCEPT
                     !.score = Blend(@, MinMaxNormalize(counted[n].score, raw))]]
      unranked == DOMAIN list \ {opinion[i].index : i \in Opinions(list, opinion)}
      all == first \o Picked(list, unranked)
  IN IF Tuning.keepTop > 0 THEN Prefix(all, Tuning.keepTop) ELSE all

-----------------------------------------------------------------------------
(* resolve_entities *)

OfSource(list, s) == Picked(list, {i \in DOMAIN list : SourceOf(list[i].chunk) = s})

(* The sources in the order of their first candidates *)
SourceOrder(list) ==
  LET firsts == Picked(list, {i \in DOMAIN list :
        \A j \in 1..i - 1 : SourceOf(list[j].chunk) # SourceOf(list[i].chunk)})
  IN [n \in DOMAIN firsts |-> SourceOf(firsts[n].chunk)]

(* The entities of a source, with the score of its first candidate *)
EntitiesFor(list, s) ==
  LET chunks == OfSource(list, s)
      found == SetToSeq(EntitiesOf[s] \cap stored)
  IN [n \in DOMAIN found |->
        [entity |-> found[n], score |-> chunks[1].score,
         chunks |-> Prefix(chunks, AtLeastOne(Tuning.perEntity))]]

ResolvedEntities(list) ==
  LET sources == SourceOrder(list)
      own == Picked(sources, {n \in DOMAIN sources : sources[n] \in OwnSources})
  IN FlattenSeq([n \in DOMAIN own |-> EntitiesFor(list, own[n])])

(* chunk_results_for_template, entity_results_for_template *)
Page(chunks, found) ==
  LET both ==
        [n \in DOMAIN chunks |-> [row |-> chunks[n].chunk, score |-> chunks[n].score]]
        \o [n \in DOMAIN found |-> [row |-> found[n].entity, score |-> found[n].score]]
      places == DOMAIN both
      before == {p \in places \X places :
                   \/ both[p[1]].score > both[p[2]].score
                   \/ both[p[1]].score = both[p[2]].score /\ p[1] < p[2]}
      order == Sorted(places, before)
  IN Prefix([n \in DOMAIN order |-> both[order[n]]], TotalLimit)

-----------------------------------------------------------------------------
SearchInit ==
  /\ stored = UNION {ChunksOf[s] \cup EntitiesOf[s] : s \in SeedSources}
  /\ lived = {} /\ changes = 0
  /\ stage = "new" /\ view = "all" /\ terms = 0
  /\ vectorScored = NoScores /\ textScored = NoScores /\ queries = {}
  /\ candidates = <<>> /\ entities = <<>> /\ hits = <<>>

(* perform_search: a blank query is answered at once *)
BeginSearch ==
  /\ stage = "new"
  /\ \/ stage' = "answered" /\ UNCHANGED <<view, terms, lived>>
     \/ /\ stage' = "embed"
        /\ view' \in Views /\ terms' \in {0, 3, 4} /\ lived' = stored
  /\ UNCHANGED <<stored, changes, vectorScored, textScored, queries,
                 candidates, entities, hits>>

EmbedQuery ==
  /\ stage = "embed"
  /\ stage' = "search"
  /\ UNCHANGED <<dataVars, queryVars, candidates, entities, hits>>

(* search_chunks: the two queries run at the same time.  An index answers   *)
(* with chunks of the user.                                                 *)
Answers(take, scores) ==
  UNION {[found -> scores] : found \in
    {f \in SUBSET {c \in ChunkIds \cap stored : Own(c)} : Cardinality(f) <= take}}

QueryVectors ==
  /\ stage = "search" /\ "vector" \notin queries
  /\ vectorScored' \in Answers(Tuning.vectorTake, VectorScores)
  /\ queries' = queries \cup {"vector"}
  /\ UNCHANGED <<dataVars, stage, view, terms, textScored, candidates,
                 entities, hits>>

(* Without a term that is not a stop word, or without use for it, no text   *)
(* is looked for                                                            *)
QueryTexts ==
  /\ stage = "search" /\ "text" \notin queries
  /\ IF Tuning.useFts /\ Tuning.ftsTake > 0 /\ terms > 0
       THEN textScored' \in Answers(Tuning.ftsTake, TextScores)
       ELSE UNCHANGED textScored
  /\ queries' = queries \cup {"text"}
  /\ UNCHANGED <<dataVars, stage, view, terms, vectorScored, candidates,
                 entities, hits>>

FuseCandidates ==
  /\ stage = "search" /\ queries = {"vector", "text"}
  /\ candidates' = Fusion(vectorScored, textScored, terms)
  /\ stage' = "rerank"
  /\ UNCHANGED <<dataVars, queryVars, entities, hits>>

(* What fastembed says of n documents: positions with falling scores.  The  *)
(* code is prepared for one that is missing, said twice or of no document.  *)
OpinionsOn(n) ==
  LET Said == [index : 1..Len(candidates) + 1, score : RerankScores]
      Falling(o) == \A i \in 1..Len(o) - 1 : o[i].score >= o[i + 1].score
  IN {o \in [1..n - 1 -> Said] \cup [1..n -> Said] : o # <<>> /\ Falling(o)}

AfterRerank == IF view = "chunks" THEN "assemble" ELSE "resolve"

(* rerank_chunks: with no reranker, fewer than two documents, an error or   *)
(* no opinion the list stays                                                *)
RerankCandidates ==
  /\ stage = "rerank"
  /\ \/ /\ Len(candidates) > 1 /\ Tuning.keepTop > 1
        /\ \E o \in OpinionsOn(Len(Prefix(candidates, Tuning.keepTop))) :
             candidates' = Reranked(candidates, o)
     \/ UNCHANGED candidates
  /\ stage' = AfterRerank
  /\ vectorScored' = NoScores /\ textScored' = NoScores /\ queries' = {}
  /\ UNCHANGED <<dataVars, view, terms, entities, hits>>

ResolveEntities ==
  /\ stage = "resolve"
  /\ entities' = ResolvedEntities(candidates)
  /\ stage' = "assemble"
  /\ UNCHANGED <<dataVars, queryVars, candidates, hits>>

(* The candidates stand in `candidates` on for the properties *)
AssembleChunks ==
  /\ stage = "assemble"
  /\ LET cap == AtLeastOne(Tuning.resultCap)
         take == AtLeastOne(Tuning.vectorTake)
     IN hits' = Prefix(candidates, IF cap < take THEN cap ELSE take)
  /\ stage' = "label"
  /\ UNCHANGED <<dataVars, queryVars, candidates, entities>>

(* The labels of the sources have been looked up *)
ShowHits ==
  /\ stage = "label"
  /\ hits' = Page(IF view = "entities" THEN <<>> ELSE hits, entities)
  /\ stage' = "answered"
  /\ UNCHANGED <<dataVars, queryVars, candidates, entities>>

(* A query or the embedding fails; nothing is shown *)
FailSearch ==
  /\ stage \in {"embed", "search", "resolve", "label"}
  /\ stage' = "failed"
  /\ vectorScored' = NoScores /\ textScored' = NoScores /\ queries' = {}
  /\ candidates' = <<>> /\ entities' = <<>> /\ hits' = <<>>
  /\ UNCHANGED <<dataVars, view, terms>>

-----------------------------------------------------------------------------
(* Ingestion stores the chunks and entities of a content in one transaction *)
(* and a deletion takes them away in one; users delete single entities too  *)
Change(rows) ==
  /\ changes < MaxChanges /\ changes' = changes + 1
  /\ stage \notin {"new", "answered", "failed"}
  /\ stored' = rows /\ lived' = lived \cup rows
  /\ UNCHANGED <<stage, queryVars, candidates, entities, hits>>

StoreContent ==
  \E s \in Sources :
    /\ (ChunksOf[s] \cup EntitiesOf[s]) \cap stored = {}
    /\ Change(stored \cup ChunksOf[s] \cup EntitiesOf[s])

(* clear_ingested_children, or delete_knowledge_entity *)
DeleteRows ==
  \E s \in Sources :
    \E rows \in {ChunksOf[s] \cup EntitiesOf[s]} \cup {{e} : e \in EntitiesOf[s]} :
      rows \cap stored # {} /\ Change(stored \ rows)

SearchNext ==
  \/ BeginSearch \/ EmbedQuery \/ QueryVectors \/ QueryTexts \/ FuseCandidates
  \/ RerankCandidates \/ ResolveEntities \/ AssembleChunks \/ ShowHits \/ FailSearch
  \/ StoreContent \/ DeleteRows

SearchSpec == SearchInit /\ [][SearchNext]_searchVars

-----------------------------------------------------------------------------
SearchTypeOK ==
  /\ stored \subseteq ChunkIds \cup EntityIds
  /\ \A i \in DOMAIN candidates : candidates[i].chunk \in ChunkIds
  /\ \A i \in DOMAIN candidates : candidates[i].score \in 0..Unit
  /\ \A i \in DOMAIN entities : entities[i].entity \in EntityIds
  /\ Len(hits) <= Len(candidates) + Len(entities)

(* A candidate that no query places behind another is not fused behind it:  *)
(* scoring.rs:140, whose ranks are those of the scores, whatever the order  *)
(* of the rows was                                                          *)
FusionKeepsAgreement ==
  stage = "rerank" =>
    \A i, j \in DOMAIN candidates :
      LET c == candidates[i].chunk
          d == candidates[j].chunk
          NotBehind(scored) ==
            d \in DOMAIN scored =>
              c \in DOMAIN scored /\ Rank(scored, c) <= Rank(scored, d)
      IN NotBehind(vectorScored) /\ NotBehind(textScored) => i <= j

Shown == {hits[i].row : i \in DOMAIN hits}

(* A candidate of the row's source has this score *)
Contributes(list, row, score) ==
  \E n \in DOMAIN list : SourceOf(list[n].chunk) = SourceOf(row) /\ list[n].score = score

(* What is shown is at most TotalLimit rows, none twice and the better      *)
(* scores first, each of the user and in the database at some time since    *)
(* the search began; an entity is there with the score of some candidate    *)
(* chunk of its source                                                      *)
HitsAreSound ==
  stage = "answered" =>
    /\ Len(hits) <= TotalLimit /\ Cardinality(Shown) = Len(hits)
    /\ \A i \in 1..Len(hits) - 1 : hits[i].score >= hits[i + 1].score
    /\ Shown \subseteq {r \in lived : Own(r)}
    /\ \A i \in DOMAIN hits :
         hits[i].row \in EntityIds => Contributes(candidates, hits[i].row, hits[i].score)

(* Fusion, reranking and the resolution of entities keep what the indexes   *)
(* found true on its way to the page (pipeline/mod.rs:121), while contents  *)
(* are stored and deleted and whatever the reranker says                    *)
SearchesAreSound == FusionKeepsAgreement /\ HitsAreSound

(* Entities are "scored by their best contributing chunk", as the comment   *)
(* of resolve_entities has it (stages.rs:221)                               *)
EntitiesScoreBest ==
  \A i \in DOMAIN entities :
    \A n \in DOMAIN entities[i].chunks : entities[i].chunks[n].score <= entities[i].score
=============================================================================
