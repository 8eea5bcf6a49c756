------------------------------- MODULE Enrichment -------------------------------
(* What one run of the ingestion pipeline writes (ingestion-pipeline         *)
(* pipeline/stages.rs, services.rs, enrichment_result.rs, persistence.rs).  *)
(*                                                                         *)
(* A run prepares the text of its job, looks up entities of the user that   *)
(* resemble it, has the language model name entities and relations, and     *)
(* writes content, entities, chunks and relations in one transaction that   *)
(* first clears what an earlier run of the job left.  Minutes pass between  *)
(* those stages.  Runs of several jobs are under way together, and two of   *)
(* one job when a worker outstays its lease (IngestionQueue says when); the *)
(* user meanwhile deletes entities and contents.                           *)
(*                                                                         *)
(* An entity's id is <<run, i>> for the i-th entity the model named to that *)
(* run.  Run 0 made what was stored at first.                              *)
EXTENDS Naturals, Sequences

CONSTANTS
  Runs,          \* a subset of Nat \ {0}
  Documents,     \* jobs, and the contents they make
  DocumentOf,    \* the job of each run
  OwnerOf,       \* the user of each job
  OldEntities,   \* records [id, source, owner] of entities stored at first
  Keys,          \* what the model may call an entity: no id
  Replies,       \* the answers the model may give (Analyses)
  NoRun,
  MaxDeletions   \* a bound: deletions by users

VARIABLES
  run,           \* the pipeline's machine and context of each run
  chunkOnly,     \* IngestionConfig::chunk_only
  snapshot,      \* the text_content row of a job: the run that wrote it, and which
                 \* entities and relations it wrote with it (history)
  entity,        \* records [id, source, owner]
  chunk,         \* records [source, by]
  relation,      \* records [from, to, source, owner, by]
  deleting,      \* jobs whose content is being deleted: children cleared, row there
  torn,          \* jobs persisted again in the middle of that (history)
  removed,       \* ids of entities that users deleted one by one (history)
  unshown,       \* <<run, id>>: the answer to the run names an id that the run had
                 \* not shown to the model (history)
  deletions

enrichmentVars == <<run, chunkOnly, snapshot, entity, chunk, relation, deleting, torn,
                    removed, unshown, deletions>>

-----------------------------------------------------------------------------
(* An id that nobody has *)
MadeUp == <<0, 0>>

NoAnalysis == [keys |-> <<>>, relations |-> {}]

(* What runs may write: entities, and with relations a snapshot *)
Owners == {OwnerOf[k] : k \in Documents}
WrittenEntities == [id : Runs \X Nat, source : Documents, owner : Owners]
Ids == ({0} \cup Runs) \X Nat
Names == Keys \cup Ids
WrittenRelations == [from : Ids, to : Ids, source : Documents, owner : Owners, by : Runs]
Snapshots == [by : Runs, entities : SUBSET WrittenEntities, relations : SUBSET WrittenRelations]

(* The shape of get_ingress_analysis_schema: entities by their keys, none    *)
(* perhaps or one key twice, and relations between any two names: keys of    *)
(* the answer or not, ids that the model was shown or has from elsewhere.    *)
Analyses == [keys : Seq(Names), relations : SUBSET [from : Names, to : Names]]

ASSUME EnrichmentAssumption ==
  /\ Runs \subseteq Nat \ {0} /\ DocumentOf \in [Runs -> Documents]
  /\ Replies \subseteq Analyses /\ \A key \in Keys : key \notin Ids
  /\ \A e \in OldEntities : e.id \in {0} \X (Nat \ {0}) /\ e.source \notin Documents
  /\ \A e, f \in OldEntities : e.id = f.id => e = f
  /\ NoRun \notin Snapshots

(* GraphMapper: assign_id gives every entity named an id of its own, and a  *)
(* key named twice the later one.                                          *)
AssignedId(r, keys, key) ==
  <<r, CHOOSE i \in 1..Len(keys) : keys[i] = key /\ \A j \in i + 1..Len(keys) : keys[j] # key>>

(* get_or_parse_id: an id is taken as it is, whoever has it                 *)
EndId(r, keys, end) == IF end \in Ids THEN end ELSE AssignedId(r, keys, end)

(* ... and another name that is no key of the answer is an error *)
Resolves(analysis) ==
  \A rel \in analysis.relations :
    \A end \in {rel.from, rel.to} \ Ids : \E i \in 1..Len(analysis.keys) : analysis.keys[i] = end

Ends(analysis) == {rel.from : rel \in analysis.relations} \cup {rel.to : rel \in analysis.relations}

(* process_entities and process_relationships *)
EntitiesOf(r, analysis) ==
  { [id |-> AssignedId(r, analysis.keys, analysis.keys[i]),
     source |-> DocumentOf[r], owner |-> OwnerOf[DocumentOf[r]]] : i \in 1..Len(analysis.keys) }

RelationsOf(r, analysis) ==
  { [from |-> EndId(r, analysis.keys, rel.from), to |-> EndId(r, analysis.keys, rel.to),
     source |-> DocumentOf[r], owner |-> OwnerOf[DocumentOf[r]], by |-> r] :
    rel \in analysis.relations }

(* INSERT refuses two rows of one id, and the transaction with them *)
HasDistinctIds(analysis) ==
  \A i, j \in 1..Len(analysis.keys) : analysis.keys[i] = analysis.keys[j] => i = j

(* prepare_chunks: at least one chunk, of an empty text too *)
ChunksOf(r) == {[source |-> DocumentOf[r], by |-> r]}

-----------------------------------------------------------------------------
EnrichmentInit ==
  /\ run = [r \in Runs |-> [at |-> "Idle", similar |-> {}, analysis |-> NoAnalysis]]
  /\ chunkOnly \in BOOLEAN
  /\ snapshot = [k \in Documents |-> NoRun]
  /\ entity = OldEntities
  /\ chunk = {} /\ relation = {} /\ deleting = {} /\ torn = {} /\ removed = {}
  /\ unshown = {} /\ deletions = 0

RowsUnchanged == UNCHANGED <<snapshot, entity, chunk, relation, deleting, torn, removed, deletions>>

(* abort: nothing of a run is stored before its last stage *)
Fails(r) ==
  /\ run' = [run EXCEPT ![r] = [at |-> "Failed", similar |-> {}, analysis |-> NoAnalysis]]
  /\ RowsUnchanged

(* process_task: a job whose content is there is not run again *)
StartRun(r) ==
  /\ run[r].at = "Idle"
  /\ \A q \in Runs : q < r /\ DocumentOf[q] = DocumentOf[r] => run[q].at # "Idle"
  /\ run' = [run EXCEPT ![r].at = IF snapshot[DocumentOf[r]] = NoRun THEN "Ready" ELSE "Skipped"]
  /\ RowsUnchanged /\ UNCHANGED <<chunkOnly, unshown>>

(* prepare_content: the payload becomes a text, with the id of the job *)
PrepareContent(r) ==
  /\ run[r].at = "Ready"
  /\ \/ run' = [run EXCEPT ![r].at = "ContentPrepared"] /\ RowsUnchanged
     \/ Fails(r)
  /\ UNCHANGED <<chunkOnly, unshown>>

(* retrieve_related: some of the user's entities (at most one here, a bound; *)
(* which ones is Search's concern), or an error; none is looked for when only *)
(* chunks are wanted                                                        *)
RetrieveRelated(r) ==
  /\ run[r].at = "ContentPrepared"
  /\ LET own == {e.id : e \in {e \in entity : e.owner = OwnerOf[DocumentOf[r]]}}
     IN \/ \E similar \in {{}} \cup {{id} : id \in IF chunkOnly THEN {} ELSE own} :
             /\ run' = [run EXCEPT ![r].at = "Retrieved", ![r].similar = similar]
             /\ RowsUnchanged
        \/ ~chunkOnly /\ Fails(r)
  /\ UNCHANGED <<chunkOnly, unshown>>

(* enrich: the model's answer, which may also be no answer of the schema *)
Enrich(r) ==
  /\ run[r].at = "Retrieved"
  /\ \/ \E analysis \in IF chunkOnly THEN {NoAnalysis} ELSE Replies :
          /\ run' = [run EXCEPT ![r] = [at |-> "Enriched", similar |-> {}, analysis |-> analysis]]
          /\ unshown' = unshown \cup ({r} \X ((Ends(analysis) \cap Ids) \ run[r].similar))
          /\ RowsUnchanged
     \/ Fails(r) /\ UNCHANGED unshown
  /\ UNCHANGED chunkOnly

(* What the database does when entities go: their relations go with them *)
Without(relations, ids) == {e \in relations : e.from \notin ids /\ e.to \notin ids}

IdsOfSource(k) == {e.id : e \in {e \in entity : e.source = k}}

(* A slip: the relations of the run before are left *)
ClearedButForRelations(k) ==
  [entity |-> {e \in entity : e.source # k}, chunk |-> {c \in chunk : c.source # k},
   relation |-> Without(relation, IdsOfSource(k))]

(* CLEAR_INGESTED_CHILD_ROWS_SURQL *)
Cleared(k) ==
  [entity |-> {e \in entity : e.source # k}, chunk |-> {c \in chunk : c.source # k},
   relation |-> Without({e \in relation : ~(e.source = k /\ e.owner = OwnerOf[k])}, IdsOfSource(k))]

(* build_artifacts: what a run writes besides its chunks *)
SnapshotOf(r) ==
  [by |-> r, entities |-> EntitiesOf(r, run[r].analysis),
             relations |-> RelationsOf(r, run[r].analysis)]

(* persist: build_artifacts and execute_persist_transaction, which asks     *)
(* neither whether the job is still this run's nor whether the ends of the  *)
(* relations exist                                                         *)
PersistRun(r) ==
  LET k == DocumentOf[r]
      analysis == run[r].analysis
      left == Cleared(k)
  IN /\ run[r].at = "Enriched"
     /\ \/ /\ Resolves(analysis) /\ HasDistinctIds(analysis)
           /\ run' = [run EXCEPT ![r] = [at |-> "Persisted", similar |-> {}, analysis |-> NoAnalysis]]
           /\ snapshot' = [snapshot EXCEPT ![k] = SnapshotOf(r)]
           /\ entity' = left.entity \cup SnapshotOf(r).entities
           /\ chunk' = left.chunk \cup ChunksOf(r)
           /\ relation' = left.relation \cup SnapshotOf(r).relations
           /\ torn' = torn \cup (deleting \cap {k})
           /\ UNCHANGED <<deleting, removed, deletions>>
        \/ Fails(r)
     /\ UNCHANGED <<chunkOnly, unshown>>

(* delete_text_content: the children in one transaction ... *)
ClearChildren(k) ==
  /\ snapshot[k] # NoRun /\ k \notin deleting /\ deletions < MaxDeletions
  /\ deletions' = deletions + 1
  /\ entity' = Cleared(k).entity
  /\ chunk' = Cleared(k).chunk
  /\ relation' = Cleared(k).relation
  /\ deleting' = deleting \cup {k}
  /\ UNCHANGED <<run, chunkOnly, snapshot, torn, removed, unshown>>

(* ... and the row in the next statement *)
DropContent(k) ==
  /\ k \in deleting
  /\ snapshot' = [snapshot EXCEPT ![k] = NoRun]
  /\ deleting' = deleting \ {k}
  /\ UNCHANGED <<run, chunkOnly, entity, chunk, relation, torn, removed, unshown, deletions>>

(* delete_knowledge_entity *)
RemoveEntity(e) ==
  /\ deletions < MaxDeletions
  /\ deletions' = deletions + 1
  /\ entity' = entity \ {e}
  /\ relation' = Without(relation, {e.id})
  /\ removed' = removed \cup {e.id}
  /\ UNCHANGED <<run, chunkOnly, snapshot, chunk, deleting, torn, unshown>>

RunStep(r) ==
  \/ StartRun(r)
  \/ PrepareContent(r)
  \/ RetrieveRelated(r)
  \/ Enrich(r)
  \/ PersistRun(r)

EnrichmentNext ==
  \/ \E r \in Runs : RunStep(r)
  \/ \E k \in Documents : ClearChildren(k) \/ DropContent(k)
  \/ \E e \in entity : RemoveEntity(e)

EnrichmentSpec == EnrichmentInit /\ [][EnrichmentNext]_enrichmentVars

-----------------------------------------------------------------------------
IsStored(id) == \E e \in entity : e.id = id

(* What is stored of a job is what one run of it wrote, whichever runs of   *)
(* it and of other jobs came before, between and after: nothing of another  *)
(* run is left over, and nothing is missing but entities that a user deleted *)
(* and relations that lost an end.  A job without a content has nothing     *)
(* stored, unless a run wrote it again in the middle of its deletion.  A     *)
(* relation reaches another user's entity only where the model named the id  *)
(* of that entity without having been shown it: the look-up of related       *)
(* entities and the mapping of keys to ids mix no users up.                 *)
(* persistence.rs:35, text_content.rs:103, content/handlers.rs:184,         *)
(* graph_mapper.rs:25.                                                     *)
SnapshotsAreWhole ==
  /\ \A k \in Documents \ deleting :
       LET row == snapshot[k]
           mine == {e \in relation : e.source = k}
       IN /\ row # NoRun =>
               /\ {c.by : c \in {c \in chunk : c.source = k}} = {row.by}
               /\ \A e \in row.entities : e \in entity \/ e.id \in removed
               /\ \A e \in entity : e.source = k => e \in row.entities
               /\ mine \subseteq row.relations
               /\ \A e \in row.relations : e \in mine \/ \E end \in {e.from, e.to} \ {MadeUp} : ~IsStored(end)
          /\ row = NoRun /\ k \notin torn =>
               /\ \A e \in entity : e.source # k
               /\ \A c \in chunk : c.source # k
               /\ mine = {}
  /\ \A e \in relation, n \in entity :
       n.id \in {e.from, e.to} => n.owner = e.owner \/ <<e.by, n.id>> \in unshown
=============================================================================
