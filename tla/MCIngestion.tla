------------------------------ MODULE MCIngestion ------------------------------
(* IngestionQueue and Enrichment for TLC.  The first says which runs of a    *)
(* job there are, the second what they write: a behaviour has steps of one  *)
(* of the two, chosen with `focus`.                                        *)
EXTENDS IngestionQueue, Enrichment, TLC

CONSTANTS u1, u2, d1, d2, k1, k2

VARIABLE focus

Symmetry == Permutations(Tasks) \cup Permutations(Workers)

(* Two runs of one job and a run of another job of the same user *)
JobOfRun == 1 :> d1 @@ 2 :> d1 @@ 3 :> d2
UserOfJob == d1 :> u1 @@ d2 :> u1
EntitiesOfOthers == { [id |-> <<0, 1>>, source |-> "old", owner |-> u1],
                      [id |-> <<0, 2>>, source |-> "old", owner |-> u2] }

(* Answers without entities, with one key twice, and with one relation (a     *)
(* bound): between keys, to a key that is missing, and with an id that is     *)
(* shown or not, made up, of another user or of another run                  *)
Reply(keys, from, to) == [keys |-> keys, relations |-> {[from |-> from, to |-> to]}]
AnswersOfModels ==
  {NoAnalysis, [NoAnalysis EXCEPT !.keys = <<k1, k1>>], [NoAnalysis EXCEPT !.keys = <<k1, k2>>],
   Reply(<<k1, k2>>, k1, k2), Reply(<<k1>>, k1, k2), Reply(<<k1>>, k1, <<0, 1>>),
   Reply(<<k1>>, MadeUp, k1), Reply(<<k1>>, <<1, 1>>, k1), Reply(<<>>, <<0, 1>>, <<0, 2>>)}

EnrichmentIdle ==
  /\ run = [r \in Runs |-> [at |-> "Idle", similar |-> {}, analysis |-> NoAnalysis]]
  /\ chunkOnly = FALSE /\ snapshot = [k \in Documents |-> NoRun]
  /\ entity = {} /\ chunk = {} /\ relation = {} /\ deleting = {} /\ torn = {} /\ removed = {}
  /\ unshown = {} /\ deletions = 0

QueueAndEnrichment ==
  /\ Init
  /\ focus \in {"queue", "enrichment"}
  /\ IF focus = "enrichment" THEN EnrichmentInit ELSE EnrichmentIdle

(* There are two workers (a bound) *)
FewRuns == \E r \in Runs : run'[r].at \in {"Idle", "Skipped", "Persisted", "Failed"}

(* Runs come to an end, workers do not *)
RunsAreOver ==
  /\ \A r \in Runs : run[r].at \in {"Skipped", "Persisted", "Failed"}
  /\ UNCHANGED <<vars, enrichmentVars>>

IngestionNext ==
  /\ \/ focus = "queue" /\ Next /\ UNCHANGED enrichmentVars
     \/ focus = "enrichment" /\ EnrichmentNext /\ FewRuns /\ UNCHANGED vars
     \/ focus = "enrichment" /\ RunsAreOver
  /\ UNCHANGED focus

IngestionSpec == QueueAndEnrichment /\ [][IngestionNext]_<<vars, enrichmentVars, focus>>

=============================================================================
