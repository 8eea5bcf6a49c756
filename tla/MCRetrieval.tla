------------------------------ MODULE MCRetrieval ------------------------------
(* EmbeddingRuntime, EnginePools, Search and Evaluations for TLC.  They have *)
(* no state in common: a behaviour is of one of them, chosen with `focus`.   *)
EXTENDS EmbeddingRuntime, EnginePools, Search, Evaluations

CONSTANTS w1, w2, s1

VARIABLE focus

retrievalVars == <<runtimeVars, poolVars, searchVars, evaluationVars, focus>>

(* w1 is configured with the new model, the others with either *)
ConfiguredDims == [p \in Processes |-> IF p = w1 THEN {2} ELSE {1, 2}]

ChunksOfSources == [a |-> {1, 2}, b |-> {3}, other |-> {4}]
EntitiesOfSources == [a |-> {11}, b |-> {12}, other |-> {14}]

SmallTuning ==
  [vectorTake |-> 2, ftsTake |-> 2, keepTop |-> 3, resultCap |-> 2, perEntity |-> 2,
   useVector |-> TRUE, useFts |-> TRUE, scoresOnly |-> FALSE]

(* Questions q1 to q7 on the paragraphs 1 to 6 of three datasets; q6, which *)
(* shares its paragraph with q5, has no answer                               *)
QuestionParagraphs == [q1 |-> 1, q2 |-> 2, q3 |-> 3, q5 |-> 5, q6 |-> 5, q7 |-> 6]
Raw == [fever |-> <<1, 2>>, fiqa |-> <<3, 4>>, squad |-> <<5, 6, 7>>]
ShuffledCases == <<"q6", "q2", "q5", "q1", "q3", "q7">>
ShuffledParagraphs == <<4, 7, 2, 1, 6, 3, 5>>
SubsetOfParagraphs == [p \in 1 .. 7 |-> IF p < 3 THEN "fever" ELSE IF p < 5 THEN "fiqa" ELSE "squad"]
Mix == <<"fever", "fiqa">>

CatalogSlices ==
  [mix |-> [dataset |-> "beir", limit |-> 2, corpus |-> 3, llm |-> {}],
   feverS |-> [dataset |-> "fever", limit |-> 1, corpus |-> 2, llm |-> {}],
   squadS |-> [dataset |-> "squad", limit |-> 2, corpus |-> 3, llm |-> {}]]
DefaultSlices == [beir |-> "mix", fever |-> "feverS", squad |-> "squadS"]
Keys == {<<"beir", "mix">>, <<"fever", "feverS">>, <<"squad", "squadS">>, <<"squad", "own">>}
ModelDims == [m1 |-> 1, m2 |-> 1]
Outcomes == {-1, 2}

(* The command lines differ from a plain run in what the stages tell apart *)
PlainRun ==
  [dataset |-> "squad", slice |-> "", limit |-> 2, corpus |-> 0, llm |-> FALSE, mult |-> 2,
   offset |-> 0, grow |-> 0, mode |-> "evaluate", force |-> FALSE, reset |-> FALSE,
   refresh |-> FALSE, reseed |-> FALSE, ready |-> FALSE, ns |-> "", model |-> "m1", workers |-> 1]
CommandLines ==
  {PlainRun,
   [PlainRun EXCEPT !.limit = 1],
   [PlainRun EXCEPT !.limit = 1, !.grow = 2],
   [PlainRun EXCEPT !.slice = "own", !.llm = TRUE, !.offset = 1, !.limit = 0],
   [PlainRun EXCEPT !.slice = "own", !.llm = TRUE, !.limit = 1],
   [PlainRun EXCEPT !.force = TRUE],
   [PlainRun EXCEPT !.model = "m2", !.ready = TRUE],
   [PlainRun EXCEPT !.refresh = TRUE, !.reseed = TRUE],
   [PlainRun EXCEPT !.reset = TRUE, !.reseed = TRUE],
   [PlainRun EXCEPT !.mode = "warm"],
   [PlainRun EXCEPT !.offset = 1, !.llm = TRUE, !.limit = 3],
   [PlainRun EXCEPT !.mode = "convert", !.dataset = "fever"],
   [PlainRun EXCEPT !.dataset = "fever"],
   [PlainRun EXCEPT !.dataset = "beir", !.workers = 2],
   [PlainRun EXCEPT !.dataset = "beir", !.limit = 3, !.force = TRUE, !.ns = "squadS"]}

Init ==
  /\ RuntimeInit /\ PoolsInit /\ SearchInit /\ EvaluationInit
  /\ focus \in {"runtime", "pools", "search", "evaluations"}

(* A behaviour has a fault or a row that is written, not both (a bound) *)
OneEvent == writes' + mishaps' <= 1

(* The third benchmark run comes in behaviours without a fault (a bound) *)
FewFaults == faults' = 0 \/ runs' < MaxRuns

Next ==
  /\ \/ /\ focus = "runtime" /\ RuntimeNext /\ OneEvent
        /\ UNCHANGED <<poolVars, searchVars, evaluationVars>>
     \/ focus = "pools" /\ PoolsNext /\ UNCHANGED <<runtimeVars, searchVars, evaluationVars>>
     \/ focus = "search" /\ SearchNext /\ UNCHANGED <<runtimeVars, poolVars, evaluationVars>>
     \/ /\ focus = "evaluations" /\ EvaluationNext /\ FewFaults
        /\ UNCHANGED <<runtimeVars, poolVars, searchVars>>
  /\ UNCHANGED focus

(* PoolsFairness, where there are calls *)
Fairness ==
  /\ \A caller \in Callers : WF_poolVars(focus = "pools" /\ CallerStep(caller))
  /\ \A n \in ThreadIds :
       /\ SF_poolVars(focus = "pools" /\ ThreadOf(n, ThreadLocks))
       /\ WF_poolVars(focus = "pools" /\ ThreadOf(n, ThreadEnds))

RetrievalSpec == Init /\ [][Next]_retrievalVars /\ Fairness

(* The behaviours of Search alone *)
SearchOnly == Init /\ focus = "search" /\ [][Next]_retrievalVars

-----------------------------------------------------------------------------
(* Rows, vectors and processes (startup.rs:22), permits, leases and threads  *)
(* (embedding.rs:229), candidates and hits (pipeline/context.rs:17), stores, *)
(* ledgers and caches of the benchmark (corpus/mod.rs) have their types.     *)
RetrievalTypeOK ==
  /\ focus = "runtime" => EmbeddingTypeOK
  /\ focus = "pools" => PoolsTypeOK
  /\ focus = "search" => SearchTypeOK
  /\ focus = "evaluations" => EvaluationTypeOK
=============================================================================
