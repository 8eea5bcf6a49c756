----------------------------- MODULE Evaluations -----------------------------
(***************************************************************************)
(* Runs of the retrieval benchmark (src/evaluations/), one after another   *)
(* over the same caches: converted stores, slice ledgers, ingested         *)
(* paragraphs with a corpus manifest, and database namespaces.  Every      *)
(* stage decides from what earlier runs left whether it can be skipped; a  *)
(* run may stop anywhere, a killed one in the middle of its files.         *)
(*                                                                         *)
(* Ingestion gives a text a new id each time; here the id is the number of *)
(* the run.  A text carries the model its vectors were really made with,   *)
(* its label names the one the cache takes them for.                       *)
(***************************************************************************)
EXTENDS Datasets, TLC

CONSTANTS
  Arguments,      \* the command lines that are tried
  Catalog,        \* slice -> what the catalog gives for it
  DefaultSlice,   \* dataset -> its first slice in the catalog
  SliceKeys,      \* the pairs <<dataset, slice>> that have a directory
  Namespaces,
  Located,        \* the questions whose answer is found in an ingested chunk
  VectorDims,     \* model -> the dimension of its vectors
  MigratedDims,   \* the dimension a fresh namespace is configured with
  DefaultLimit, CorpusFactor, CorpusCap,
  NoLedger, Torn, NoManifest, NoSeed,
  Ranks,          \* what becomes of a query
  MaxRuns, MaxFaults

VARIABLES
  stores,      \* dataset -> its converted store
  ledgers,     \* slice key -> its ledger
  corpora,     \* slice key -> [shards, manifest]
  namespaces,  \* name -> [rows, settings, index], ghosts: owner, kept
  evaluation,  \* the run that is going on
  runs, faults \* how many there were

evaluationVars == <<stores, ledgers, corpora, namespaces, evaluation, runs, faults>>
caches == <<stores, ledgers, corpora, namespaces>>

Idle == [stage |-> "idle"]
c == evaluation.config
key == <<c.dataset, c.slice>>
At(stage) == evaluation.stage = stage
Ends == evaluation' = Idle
Goes(stage, more) == evaluation' = [stage |-> stage] @@ more @@ evaluation
(* Nothing comes after a fault of the last run *)
Fault == faults < MaxFaults /\ runs < MaxRuns /\ faults' = faults + 1

-----------------------------------------------------------------------------
(* A command line as the run takes it: the catalog's slice gives what was    *)
(* not asked for, and the number of cases and the mode of answering even     *)
(* where they were (an explicit default looks like none)                     *)
CatalogArguments(a) ==
  LET slice == IF a.slice = "" THEN DefaultSlice[a.dataset] ELSE a.slice
      given == slice \in DOMAIN Catalog /\ Catalog[slice].dataset = a.dataset
      entry == Catalog[slice]
      llm == IF given /\ entry.llm # {} THEN TRUE \in entry.llm ELSE a.llm
  IN  [a EXCEPT !.slice = slice,
                !.limit = IF given /\ entry.limit # 0 /\ a.limit = DefaultLimit THEN entry.limit ELSE @,
                !.corpus = IF given /\ a.corpus = 0 THEN entry.corpus ELSE @,
                !.llm = llm]
      @@ [verified |-> ~llm]

Finalized(a) ==
  LET f == CatalogArguments(a) IN
  [f EXCEPT !.corpus = IF f.limit = 0 THEN @
                       ELSE IF @ # 0 THEN Max({@, f.limit})
                       ELSE Min({Max({f.limit * CorpusFactor, f.limit}), CorpusCap})]

LedgerTarget == IF c.limit = 0 \/ c.grow = 0 THEN c.limit + c.grow ELSE Max({c.limit, c.grow})
Ask == [limit |-> LedgerTarget, corpus |-> c.corpus, llm |-> c.llm, verified |-> c.verified,
        mult |-> c.mult]
ForceRefresh == c.force \/ c.reset

NamespaceOf(f) == IF f.ns = "" THEN f.slice ELSE f.ns
namespace == NamespaceOf(c)

(* What --require-ready asks for before a run: that everything is there *)
QueryReady(f) ==
  LET k == <<f.dataset, f.slice>>
      ledger == ledgers[k]
      ask == [limit |-> IF f.limit = 0 \/ f.grow = 0 THEN f.limit + f.grow ELSE Max({f.limit, f.grow}),
              corpus |-> f.corpus, mult |-> f.mult]
      readable == ledger \notin {NoLedger, Torn}
  IN  /\ readable /\ IsComplete(ledger, ask)
      /\ IF f.dataset = "beir" THEN LoadsMix(stores, LedgerParagraphs(ledger))
         ELSE stores[f.dataset] # NoStore
      /\ corpora[k].manifest # NoManifest /\ corpora[k].manifest.seed # NoSeed
      /\ namespaces[NamespaceOf(f)].rows # {}

Invoke(a) ==
  /\ At("idle") /\ runs < MaxRuns
  /\ runs' = runs + 1
  /\ \E f \in {Finalized(a)} :
       evaluation' = IF f.ready /\ f.mode = "evaluate" /\ ~QueryReady(f) THEN Idle
                     ELSE [stage |-> "prepare", config |-> f]
  /\ UNCHANGED <<caches, faults>>

-----------------------------------------------------------------------------
(* The ledger of a slice for a dataset in memory: the one that is there, if  *)
(* it fits, and never changed; otherwise one that is built                   *)
Fits(ds, ledger, ask) ==
  ledger # Torn /\ ledger.llm = ask.llm /\ ledger.verified = ask.verified /\ Resolves(ds, ledger)

CanResolve(ds, k, ask) ==
  IF ledgers[k] = NoLedger THEN Materializes(ds, ask) ELSE Fits(ds, ledgers[k], ask)

Resolved(ds, k, ask) == IF ledgers[k] = NoLedger THEN Materialized(ds, ask) ELSE ledgers[k]

(* A conversion builds the ledgers of the catalog as well, and goes on where *)
(* one cannot be built                                                       *)
Prebuilt(ds) ==
  [k \in SliceKeys |->
     LET entry == Catalog[k[2]]
         ask == [limit |-> entry.limit, corpus |-> entry.corpus, verified |-> c.verified,
                 llm |-> IF entry.llm = {} THEN c.llm ELSE TRUE \in entry.llm, mult |-> c.mult]
     IN  IF k[1] = ds.id /\ k[2] \in DOMAIN Catalog /\ CanResolve(ds, k, ask)
         THEN Resolved(ds, k, ask) ELSE ledgers[k]]

Stamp(d) == IF d \in Restamped THEN runs ELSE 0

(* --convert-only *)
ConvertOnly ==
  /\ At("prepare") /\ c.mode = "convert"
  /\ IF c.dataset = "beir" THEN UNCHANGED <<stores, ledgers>>
     ELSE /\ stores' = [stores EXCEPT ![c.dataset] =
                          Converted(RawParagraphs[c.dataset], c.llm, Stamp(c.dataset))]
          /\ ledgers' = Prebuilt(RawDataset(c.dataset))
  /\ Ends
  /\ UNCHANGED <<corpora, namespaces, runs, faults>>

Converts == c.dataset # "beir" /\ (stores[c.dataset] = NoStore \/ c.force)

(* A dataset without a store, or a forced one, is converted *)
Convert ==
  LET store == Converted(RawParagraphs[c.dataset], c.llm, Stamp(c.dataset)) IN
  /\ At("prepare") /\ c.mode # "convert" /\ Converts
  /\ stores' = [stores EXCEPT ![c.dataset] = store]
  /\ ledgers' = Prebuilt(RawDataset(c.dataset))
  /\ Goes("slice", [ds |-> RawDataset(c.dataset), sum |-> store.sum])
  /\ UNCHANGED <<corpora, namespaces, runs, faults>>

(* A store is loaded: the ledger's paragraphs if there is a complete ledger *)
Load ==
  LET store == stores[c.dataset]
      ledger == ledgers[key]
      part == ledger \notin {NoLedger, Torn} /\ IsComplete(ledger, Ask)
      ps == LedgerParagraphs(ledger)
      loads == /\ store.llm = c.llm /\ ledger # Torn
               /\ IF part THEN LoadsPart(store, ps) ELSE LoadsWhole(store)
  IN  /\ At("prepare") /\ c.mode # "convert" /\ c.dataset # "beir" /\ ~Converts
      /\ stores' = [stores EXCEPT ![c.dataset] = Marked(@)]
      /\ IF loads
         THEN Goes("slice", [ds |-> IF part THEN PartOf(c.dataset, store, ps)
                                    ELSE WholeOf(c.dataset, store),
                             sum |-> Checksum(store)])
         ELSE Ends
      /\ UNCHANGED <<ledgers, corpora, namespaces, runs, faults>>

(* The mix resolves its ledger over the raw data first and then keeps the    *)
(* stores of the subsets up with it                                          *)
LoadsLedger(ps) ==
  /\ stores' = [d \in DOMAIN stores |-> SubsetStore(stores[d], ps, d, c.force)]
  /\ IF LoadsMix(stores', ps)
     THEN Goes("slice", [ds |-> MixOf(stores', ps), sum |-> ps])
     ELSE Ends

LoadMix ==
  /\ At("prepare") /\ c.mode # "convert" /\ c.dataset = "beir"
  /\ IF CanResolve(MixDataset, key, Ask)
     THEN \E ledger \in {Resolved(MixDataset, key, Ask)} :
            /\ ledgers' = [ledgers EXCEPT ![key] = ledger]
            /\ LoadsLedger(LedgerParagraphs(ledger))
     ELSE Ends /\ UNCHANGED <<stores, ledgers>>
  /\ UNCHANGED <<corpora, namespaces, runs, faults>>

(* The process dies among the files of a store, after the first of them *)
ConversionDies(d) ==
  /\ At("prepare") /\ c.dataset # "beir" /\ d = c.dataset /\ (c.mode = "convert" \/ Converts)
  /\ \E steps \in {WriteSteps(RawParagraphs[d])} : \E n \in 0 .. Len(steps) - 1 :
       stores' = [stores EXCEPT ![d] = AfterSteps(EmptyStore(c.llm, Stamp(d)), SubSeq(steps, 1, n))]
  /\ Fault /\ Ends
  /\ UNCHANGED <<ledgers, corpora, namespaces, runs>>

(* In the mix some of the other subsets' stores are kept up before that *)
MixSteps(store, missing) ==
  IF store = NoStore THEN WriteSteps(missing) ELSE UpsertSteps(store, missing)

MixConversionDies(d) ==
  /\ At("prepare") /\ c.mode # "convert" /\ c.dataset = "beir" /\ CanResolve(MixDataset, key, Ask)
  /\ \E ledger \in {Resolved(MixDataset, key, Ask)} :
       /\ ledgers' = [ledgers EXCEPT ![key] = ledger]
       /\ \E ps \in {LedgerParagraphs(ledger)} :
          \E steps \in {MixSteps(stores[d], ToConvert(stores[d], ps, d, c.force))} :
          \E n \in 0 .. Len(steps) - 1, done \in SUBSET (ToSet(MixSubsets) \ {d}) :
            stores' = [e \in DOMAIN stores |->
                         IF e = d THEN AfterSteps(IF stores[d] = NoStore THEN EmptyStore(FALSE, Stamp(d))
                                                  ELSE stores[d], SubSeq(steps, 1, n))
                         ELSE IF e \in done THEN SubsetStore(stores[e], ps, e, c.force)
                         ELSE stores[e]]
  /\ Fault /\ Ends
  /\ UNCHANGED <<corpora, namespaces, runs>>

-----------------------------------------------------------------------------
(* The slice stage; --slice-grow ends here.  The window is selected by       *)
(* offset and limit from the ledger.                                         *)
PrepareSlice ==
  /\ At("slice")
  /\ IF CanResolve(evaluation.ds, key, Ask)
     THEN \E ledger \in {Resolved(evaluation.ds, key, Ask)} :
            /\ ledgers' = [ledgers EXCEPT ![key] = ledger]
            /\ IF (c.mode = "warm" \/ c.grow = 0) /\ WindowExists(ledger, c.offset)
               THEN Goes("db", [ledger |-> ledger, window |-> WindowOf(ledger, c.offset, c.limit)])
               ELSE Ends
     ELSE Ends /\ UNCHANGED ledgers
  /\ UNCHANGED <<stores, corpora, namespaces, runs, faults>>

(* A ledger is written in place: the process dies in the middle *)
LedgerDies ==
  /\ \/ At("slice") /\ CanResolve(evaluation.ds, key, Ask)
     \/ At("prepare") /\ c.mode # "convert" /\ c.dataset = "beir" /\ CanResolve(MixDataset, key, Ask)
  /\ ledgers[key] = NoLedger
  /\ ledgers' = [ledgers EXCEPT ![key] = Torn]
  /\ Fault /\ Ends
  /\ UNCHANGED <<stores, corpora, namespaces, runs>>

(* A namespace without settings is migrated; the settings get the provider's *)
(* dimension now, or after the namespace was seeded                          *)
PrepareDb ==
  LET missing == namespaces[namespace].settings = 0
      enforced == IF missing /\ ~c.reseed THEN MigratedDims ELSE VectorDims[c.model]
  IN  /\ At("db")
      /\ namespaces' = [namespaces EXCEPT ![namespace].settings = enforced]
      /\ Goes("corpus", [reapply |-> missing])
      /\ UNCHANGED <<stores, ledgers, corpora, runs, faults>>

-----------------------------------------------------------------------------
(* Slip: a namespace that holds other cases is taken as well *)
CanReuseAnySeed(manifest, sum, count) ==
  /\ manifest.sum = sum /\ manifest.model = c.model
  /\ manifest.seed # NoSeed
  /\ manifest.seed.ns = namespace
  /\ namespaces[namespace].rows # {}

(* A namespace is used as it is when the manifest says that it was seeded    *)
(* with as many cases, and it holds something                                *)
CanReuse(manifest, sum, count) ==
  /\ manifest.sum = sum /\ manifest.model = c.model
  /\ manifest.seed # NoSeed
  /\ manifest.seed.count = count
  /\ manifest.seed.ns = namespace
  /\ namespaces[namespace].rows # {}

Plan == PlanOf(evaluation.ledger, evaluation.window)
PlanIds == {e.id : e \in ToSet(Plan)}

(* Ingested paragraphs of another checksum count as missing *)
Shards == IF ForceRefresh /\ ~c.refresh THEN << >> ELSE corpora[key].shards
Reusable == {p \in DOMAIN Shards : ~ForceRefresh /\ Shards[p].sum = evaluation.sum}
Missing == PlanIds \ Reusable
NewShard == [sum |-> evaluation.sum, label |-> c.model, vector |-> c.model, text |-> runs]

(* Paragraphs under another label, or all with --refresh-embeddings, get the *)
(* provider's label; their vectors stay                                      *)
Relabelled(p) == p \in Reusable /\ (c.refresh \/ Shards[p].label # c.model)
ShardsAfter ==
  [p \in PlanIds |-> IF p \in Missing THEN NewShard
                     ELSE IF Relabelled(p) THEN [Shards[p] EXCEPT !.label = c.model] ELSE Shards[p]]
  @@ Shards

(* The manifest is written anew, without the seed of the last one *)
NewManifest ==
  [sum |-> evaluation.sum, model |-> c.model, llm |-> evaluation.ledger.llm,
   verified |-> evaluation.ledger.verified, seed |-> NoSeed,
   texts |-> [i \in DOMAIN Plan |->
                LET p == Plan[i].id IN
                [id |-> p, text |-> ShardsAfter[p].text, vector |-> ShardsAfter[p].vector]],
   questions |-> [i \in DOMAIN evaluation.window |->
                    LET q == evaluation.window[i] IN
                    [id |-> q, text |-> ShardsAfter[ParagraphOf[q]].text]]]

CorpusIsReused ==
  /\ ~c.reseed /\ corpora[key].manifest # NoManifest
  /\ CanReuse(corpora[key].manifest, evaluation.sum, Len(evaluation.window))

PrepareCorpus ==
  /\ At("corpus")
  /\ \/ /\ CorpusIsReused
        /\ Goes("namespace", [manifest |-> corpora[key].manifest])
        /\ UNCHANGED corpora
     \/ /\ ~CorpusIsReused /\ c.refresh /\ Missing # {}
        /\ Ends /\ UNCHANGED corpora
     \/ /\ ~CorpusIsReused /\ ~(c.refresh /\ Missing # {})
        /\ corpora' = [corpora EXCEPT ![key] =
                         [shards |-> ShardsAfter, manifest |-> NewManifest,
                          relabelled |-> @.relabelled \/ \E p \in PlanIds : Relabelled(p)]]
        /\ Goes("namespace", [manifest |-> NewManifest])
  /\ UNCHANGED <<stores, ledgers, namespaces, runs, faults>>

(* Ingestion fails, or the process dies when it has written some of the      *)
(* paragraphs; an old manifest stays unless the directory was removed        *)
Rewritten ==
  LET Ids(Test(_)) == SelectSeq([i \in DOMAIN Plan |-> Plan[i].id], Test)
  IN  Ids(LAMBDA p : p \in Missing) \o Ids(Relabelled)

CorpusDies ==
  /\ At("corpus") /\ ~CorpusIsReused /\ ~(c.refresh /\ Missing # {})
  /\ \E n \in 0 .. Len(Rewritten) :
       LET done == ToSet(FirstOf(Rewritten, n)) IN
       corpora' = [corpora EXCEPT ![key] =
                     [shards |-> [p \in done |-> ShardsAfter[p]] @@ Shards,
                      manifest |-> IF ForceRefresh /\ ~c.refresh THEN NoManifest ELSE @.manifest,
                      relabelled |-> @.relabelled \/ \E p \in done : Relabelled(p)]]
  /\ Fault /\ Ends
  /\ UNCHANGED <<stores, ledgers, namespaces, runs>>

-----------------------------------------------------------------------------
(* What is seeded: the manifest, or a window of it (the offset, which the    *)
(* manifest's questions already stand behind, is applied once more)          *)
NarrowsManifest(m) == ~(c.offset = 0 /\ Len(evaluation.window) >= Len(m.questions))

NarrowedManifest(m) ==
  LET questions == SubSeq(m.questions, c.offset + 1,
                          Min({c.offset + Len(evaluation.window), Len(m.questions)}))
      Paragraphs(qs) == {ParagraphOf[q.id] : q \in ToSet(qs)}
      own == Paragraphs(questions)
      spare == Len(m.texts) - Cardinality(Paragraphs(m.questions))
      others == SelectSeq(m.texts, LAMBDA t : t.id \notin own)
      negatives == FirstOf(others, Min({HalvesOf(Cardinality(own), c.mult), spare}))
  IN  [m EXCEPT !.questions = questions,
                !.texts = SelectSeq(@, LAMBDA t : t.id \in own \/ t \in ToSet(negatives))]

SeedManifest ==
  IF NarrowsManifest(evaluation.manifest) THEN NarrowedManifest(evaluation.manifest)
  ELSE evaluation.manifest

WindowIsEmpty == NarrowsManifest(evaluation.manifest) /\ c.offset >= Len(evaluation.manifest.questions)

NamespaceIsReused ==
  ~c.reseed /\ CanReuse(evaluation.manifest, evaluation.sum, Len(SeedManifest.questions))

(* A reset leaves a migrated namespace; one that fails is only logged, and   *)
(* what the namespace holds is seeded over                                   *)
FreshNamespace == [rows |-> {}, settings |-> MigratedDims, index |-> 0,
                   owner |-> <<key, c.offset>>, kept |-> FALSE]
KeptNamespace == [namespaces[namespace] EXCEPT !.owner = <<key, c.offset>>, !.kept = TRUE]

Seeded(ns, texts) ==
  [ns EXCEPT !.rows = {r \in @ : \A t \in texts : r.text # t.text \/ r.id # t.id} \cup texts]
Seeds == \A t \in ToSet(SeedManifest.texts) : VectorDims[t.vector] = VectorDims[evaluation.manifest.model]

(* Questions that the mode of answering leaves out *)
CasesOf(m) ==
  SelectSeq(m.questions, LAMBDA q : /\ m.llm \/ q.id \notin Unanswerable
                                    /\ m.verified => q.id \in Located \ Unanswerable)

GoesToQueries ==
  IF CasesOf(SeedManifest) = <<>> \/ c.mode = "warm" THEN Ends
  ELSE Goes("queries", [seeded |-> SeedManifest, cases |-> CasesOf(SeedManifest), results |-> <<>>])

ReuseNamespace ==
  /\ At("namespace") /\ ~WindowIsEmpty /\ NamespaceIsReused
  /\ namespaces' = IF evaluation.reapply
                   THEN [namespaces EXCEPT ![namespace].settings = VectorDims[c.model]]
                   ELSE namespaces
  /\ GoesToQueries
  /\ UNCHANGED <<stores, ledgers, corpora, runs, faults>>

WindowMissed ==
  /\ At("namespace") /\ WindowIsEmpty
  /\ Ends /\ UNCHANGED <<caches, runs, faults>>

(* The namespace is reset, seeded, indexed, and then the seed is recorded;   *)
(* vectors of another dimension than the manifest's fail the seeding, which  *)
(* empties the tables                                                        *)
SeedNamespace(reset) ==
  LET start == IF reset THEN FreshNamespace ELSE KeptNamespace
      seeded == [Seeded(start, ToSet(SeedManifest.texts)) EXCEPT
                   !.index = VectorDims[c.model], !.settings = VectorDims[c.model]]
      record == [ns |-> namespace, count |-> Len(SeedManifest.questions)]
  IN  /\ At("namespace") /\ ~WindowIsEmpty /\ ~NamespaceIsReused
      /\ IF Seeds
         THEN /\ namespaces' = [namespaces EXCEPT ![namespace] = seeded]
              /\ corpora' = [corpora EXCEPT ![key].manifest = [evaluation.manifest EXCEPT !.seed = record]]
              /\ GoesToQueries
         ELSE /\ namespaces' = [namespaces EXCEPT ![namespace] = [start EXCEPT !.rows = {}]]
              /\ Ends /\ UNCHANGED corpora
      /\ IF reset THEN UNCHANGED faults ELSE Fault
      /\ UNCHANGED <<stores, ledgers, runs>>

(* The process dies when the namespace is reset and partly seeded *)
SeedingDies ==
  /\ At("namespace") /\ ~WindowIsEmpty /\ ~NamespaceIsReused /\ Seeds
  /\ \E n \in 0 .. Len(SeedManifest.texts) :
       namespaces' = [namespaces EXCEPT ![namespace] =
                        Seeded(FreshNamespace, ToSet(FirstOf(SeedManifest.texts, n)))]
  /\ Fault /\ Ends
  /\ UNCHANGED <<stores, ledgers, corpora, runs>>

-----------------------------------------------------------------------------
(* Queries run side by side, `workers` of them, and end in any order; what   *)
(* becomes of one is the rank of its source, 0 if it is not found, -1 if     *)
(* the query failed                                                          *)
Answered == {r.case : r \in ToSet(evaluation.results)}

QueryEnds(i, rank) ==
  /\ At("queries") /\ i \in DOMAIN evaluation.cases \ Answered
  /\ Cardinality(1 .. i - 1 \ Answered) < c.workers
  /\ Goes("queries", [results |-> Append(evaluation.results, [case |-> i, rank |-> rank])])
  /\ UNCHANGED <<caches, runs, faults>>

(* The queries that did not fail, in the order of the cases *)
Summaries(results) ==
  SortSeq(SelectSeq(results, LAMBDA r : r.rank >= 0), LAMBDA r, s : r.case < s.case)

SummaryOf(cases, results) ==
  LET list == Summaries(results)
      Count(Test(_)) == Len(SelectSeq(list, Test))
      llm(r) == cases[r.case].id \in Unanswerable
  IN  [order |-> [i \in DOMAIN list |-> cases[list[i].case].id],
       retrieval |-> Count(LAMBDA r : ~llm(r)),
       llm |-> Count(LAMBDA r : llm(r)),
       answered |-> Count(LAMBDA r : llm(r) /\ r.rank > 0),
       correct |-> [k \in 1 .. 3 |-> Count(LAMBDA r : ~llm(r) /\ r.rank \in 1 .. k)]]

Summarize ==
  /\ At("queries") /\ Answered = DOMAIN evaluation.cases
  /\ Goes("report", [summary |-> SummaryOf(evaluation.cases, evaluation.results),
                     failed |-> Cardinality({r \in ToSet(evaluation.results) : r.rank = -1})])
  /\ UNCHANGED <<caches, runs, faults>>

(* The reports are written, which the next run does not read *)
Report == At("report") /\ Ends /\ UNCHANGED <<caches, runs, faults>>

-----------------------------------------------------------------------------
EvaluationInit ==
  /\ stores = [d \in DOMAIN RawParagraphs |-> NoStore]
  /\ ledgers = [k \in SliceKeys |-> NoLedger]
  /\ corpora = [k \in SliceKeys |-> [shards |-> << >>, manifest |-> NoManifest, relabelled |-> FALSE]]
  /\ namespaces = [n \in Namespaces |->
                     [rows |-> {}, settings |-> 0, index |-> 0, owner |-> << >>, kept |-> FALSE]]
  /\ evaluation = Idle /\ runs = 0 /\ faults = 0

EvaluationNext ==
  \/ \E a \in Arguments : Invoke(a)
  \/ ConvertOnly \/ Convert \/ Load \/ LoadMix
  \/ \E d \in DOMAIN RawParagraphs : ConversionDies(d) \/ MixConversionDies(d)
  \/ PrepareSlice \/ LedgerDies \/ PrepareDb
  \/ PrepareCorpus \/ CorpusDies
  \/ ReuseNamespace \/ WindowMissed \/ SeedingDies
  \/ \E reset \in BOOLEAN : SeedNamespace(reset)
  \/ \E i \in 1 .. 3, rank \in Ranks : QueryEnds(i, rank)
  \/ Summarize \/ Report

-----------------------------------------------------------------------------
Stages == {"idle", "prepare", "slice", "db", "corpus", "namespace", "queries", "report"}

(* Stores hold paragraphs, corpora and namespaces texts (types.rs, slice/mod.rs:48) *)
EvaluationTypeOK ==
  /\ \A d \in DOMAIN stores : stores[d] # NoStore => ToSet(stores[d].ids) \subseteq ToSet(RawParagraphs[d])
  /\ \A k \in SliceKeys : DOMAIN corpora[k].shards \subseteq ToSet(ParagraphOrder)
  /\ \A n \in Namespaces : \A r \in namespaces[n].rows : r.text \in 1 .. MaxRuns /\ r.vector \in DOMAIN VectorDims
  /\ evaluation.stage \in Stages
  /\ runs \in 0 .. MaxRuns /\ faults \in 0 .. MaxFaults

(* A run has the namespace to itself: no other slice and no window with an    *)
(* offset was seeded into it since (connect.rs:107 compares names and the     *)
(* number of cases only), the last reset did not fail (prepare_namespace.rs:79 *)
(* goes on), and the run has no offset                                        *)
OwnNamespace ==
  namespaces[namespace].owner = <<key, 0>> /\ ~namespaces[namespace].kept /\ c.offset = 0

Asked == SelectSeq(evaluation.window, LAMBDA q : /\ c.llm \/ q \notin Unanswerable
                                                 /\ c.verified => q \in Located \ Unanswerable)

(* What a run measures is what it was asked to measure, whatever earlier     *)
(* runs cached, skipped or left half done: the cases are the window's, the   *)
(* namespace holds exactly the texts of the manifest with the sources of all *)
(* cases, their vectors are the provider's (unless the cache relabelled      *)
(* them, orchestrator.rs:271), index and settings have its dimension; and    *)
(* every case is counted once, in the order of the window, or failed.  A     *)
(* run's ledger is well formed and the mix is balanced.                      *)
EvaluationsAreOwn ==
  /\ At("db") =>
       WellFormed(evaluation.ledger) /\ (c.dataset = "beir" => Balanced(MixDataset, evaluation.ledger))
  /\ evaluation.stage \in {"queries", "report"} /\ OwnNamespace =>
       LET ns == namespaces[namespace] IN
       /\ [i \in DOMAIN evaluation.cases |-> evaluation.cases[i].id] = Asked
       /\ ns.rows = ToSet(evaluation.seeded.texts)
       /\ \A q \in ToSet(evaluation.cases) :
            \E r \in ns.rows : r.id = ParagraphOf[q.id] /\ r.text = q.text
       /\ corpora[key].relabelled \/ \A r \in ns.rows : r.vector = c.model
       /\ ns.index = VectorDims[c.model] /\ ns.settings = VectorDims[c.model]
  /\ At("report") =>
       LET failed == {evaluation.cases[r.case].id : r \in {x \in ToSet(evaluation.results) : x.rank = -1}}
           summary == evaluation.summary
       IN  /\ summary.order = SelectSeq([i \in DOMAIN evaluation.cases |-> evaluation.cases[i].id],
                                        LAMBDA q : q \notin failed)
           /\ summary.retrieval + summary.llm + evaluation.failed = Len(evaluation.cases)
           /\ summary.correct[1] <= summary.correct[2] /\ summary.correct[3] <= summary.retrieval
=============================================================================
