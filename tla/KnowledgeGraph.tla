---------------------------- MODULE KnowledgeGraph ----------------------------
(***************************************************************************)
(* Knowledge entities, the relationships between them and their vectors,   *)
(* and the handlers of knowledge/handlers.rs.                              *)
(*                                                                         *)
(* An entity has a row of its own and a vector, the embedding of its text, *)
(* in a second table.  A relationship is an edge that names two entities   *)
(* and its user; both ends are looked up before it is stored.  The         *)
(* database removes the edges of an entity it deletes, and nothing else.   *)
(***************************************************************************)
EXTENDS WebCalls

CONSTANTS
  SeedEntities,        \* entities there are before the first request
  EntityOwner,         \* their owners
  Source,              \* the content they were extracted from
  Selections,          \* sets of ids that a form may select
  MaxSuggestions       \* MAX_RELATIONSHIP_SUGGESTIONS

VARIABLES
  entity,              \* rows of `knowledge_entity`; text is who wrote it last
  vector,              \* rows of `knowledge_entity_embedding`: the text embedded
  edge,                \* rows of `relates_to`
  robbed,              \* requests one of whose ends was deleted after its lookup
                       \* and before the edge was stored (history)
  shed                 \* entities deleted alone, or while a patch of them was
                       \* under way (history)

graphVars == <<entity, vector, edge, robbed, shed>>

-----------------------------------------------------------------------------
EntityIds == Calls \cup SeedEntities
Stored(i) == entity[i] # Nothing

GraphInit ==
  /\ entity = [i \in EntityIds |->
       IF i \in SeedEntities
         THEN [owner |-> EntityOwner[i], source |-> Source[i], text |-> i] ELSE Nothing]
  /\ vector = [i \in EntityIds |-> IF i \in SeedEntities THEN i ELSE Nothing]
  /\ edge = {} /\ robbed = {} /\ shed = {}

EntityRows == [owner : Users, source : {Source[i] : i \in SeedEntities} \cup {"manual"},
               text : EntityIds]

(* The database makes the id of a new row, and a row is not the lack of one *)
ASSUME GraphAssumption ==
  /\ Calls \cap SeedEntities = {}
  /\ \A i \in SeedEntities : EntityOwner[i] \in Users
  /\ Nothing \notin EntityRows

(* get_knowledge_entities, get_knowledge_relationships *)
OwnEntities(u) == {i \in EntityIds : Stored(i) /\ entity[i].owner = u}
OwnEdges(u) == {e \in edge : e.owner = u}

OwnersOf(ids) == {entity[i].owner : i \in {j \in ids : Stored(j)}}

-----------------------------------------------------------------------------
(* get_and_validate_knowledge_entity, of the handlers for one entity *)
ReadOwnEntity(c) ==
  /\ call[c].op \in {"edit", "patch entity", "delete entity"} /\ call[c].at = "read"
  /\ LET row == entity[call[c].key]
     IN IF row = Nothing \/ row.owner # call[c].user THEN Refuses(c)
        ELSE IF call[c].op = "edit" THEN Answers(c, {row.owner})
        ELSE Goto(c, IF call[c].op = "patch entity" THEN "again" ELSE "delete")
  /\ UNCHANGED <<graphVars, faults>>

(* KnowledgeEntity::patch: the text of the form is embedded, the row read   *)
(* again for its source and its user ...                                   *)
ReadEntityAgain(c) ==
  /\ At(c, "patch entity", "again")
  /\ IF Stored(call[c].key) THEN Goto(c, "patch") ELSE Refuses(c)
  /\ UNCHANGED <<graphVars, faults>>

(* Slip: the row is upserted as its vector is, and comes back without an owner *)
PatchAndRevive(c) ==
  /\ At(c, "patch entity", "patch")
  /\ LET i == call[c].key
     IN /\ entity' = [entity EXCEPT ![i] =
             [(IF @ = Nothing THEN [owner |-> Nobody, source |-> "manual", text |-> c] ELSE @)
                EXCEPT !.text = c]]
        /\ vector' = [vector EXCEPT ![i] = c]
  /\ Goto(c, "entities")
  /\ UNCHANGED <<edge, robbed, shed, faults>>

(* ... and row and vector written in one transaction: the UPDATE of a row   *)
(* that has gone does nothing, the UPSERT of its vector makes a new one     *)
PatchEntity(c) ==
  /\ At(c, "patch entity", "patch")
  /\ LET i == call[c].key
     IN /\ entity' = [entity EXCEPT ![i] = IF @ = Nothing THEN @ ELSE [@ EXCEPT !.text = c]]
        /\ vector' = [vector EXCEPT ![i] = c]
  /\ Goto(c, "entities")
  /\ UNCHANGED <<edge, robbed, shed, faults>>

-----------------------------------------------------------------------------
(* Observation: who has looked up an entity and not yet used it *)
HasLookedUp(d, i) ==
  \/ /\ call[d].at \in {"out", "relate"}
     /\ \/ call[d].op = "link" /\ i \in {call[d].key[1]} \cup
             (IF call[d].at = "relate" THEN {call[d].key[2]} ELSE {})
        \/ call[d].op = "create entity" /\ (i = d \/ (call[d].at = "relate" /\ i = call[d].got.end))
Patching(i) == \E d \in Calls : At(d, "patch entity", "patch") /\ call[d].key = i

(* The database deletes entities, and their edges with them *)
Purge(ids) ==
  /\ entity' = [i \in EntityIds |-> IF i \in ids THEN Nothing ELSE entity[i]]
  /\ edge' = {e \in edge : e.from \notin ids /\ e.to \notin ids}
  /\ robbed' = robbed \cup {d \in Calls : \E i \in ids : HasLookedUp(d, i)}

(* delete_knowledge_entity: the row; its vector stays *)
DeleteEntity(c) ==
  /\ At(c, "delete entity", "delete")
  /\ Purge({call[c].key})
  /\ shed' = shed \cup {call[c].key}
  /\ Goto(c, "entities")
  /\ UNCHANGED <<vector, faults>>

(* Slip: the embeddings are left out *)
ClearEntitiesOnly(c) ==
  /\ At(c, "clear", "delete")
  /\ LET ids == {i \in EntityIds : Stored(i) /\ entity[i].source = call[c].key}
     IN /\ Purge(ids)
        /\ shed' = shed \cup {i \in ids : Patching(i)}
  /\ Answers(c, {})
  /\ UNCHANGED <<vector, faults>>

(* clear_ingested_children of a content, one transaction: entities and     *)
(* vectors by their source, vectors that earlier deletions left included   *)
ClearEntities(c) ==
  /\ At(c, "clear", "delete")
  /\ LET ids == {i \in EntityIds : Stored(i) /\ entity[i].source = call[c].key}
         left == {i \in SeedEntities : ~Stored(i) /\ Source[i] = call[c].key}
     IN /\ Purge(ids)
        /\ vector' = [i \in EntityIds |-> IF i \in ids \cup left THEN Nothing ELSE vector[i]]
        /\ shed' = shed \cup {i \in ids : Patching(i)}
  /\ Answers(c, {})
  /\ UNCHANGED faults

-----------------------------------------------------------------------------
(* store_relationship: validate one end, validate the other, RELATE *)
Foreign(c, i) == ~Stored(i) \/ entity[i].owner # call[c].user

From(c) == IF call[c].op = "link" THEN call[c].key[1] ELSE c
To(c) == IF call[c].op = "link" THEN call[c].key[2] ELSE call[c].got.end

ReadFrom(c) ==
  /\ call[c].op \in {"link", "create entity"} /\ call[c].at = "in"
  /\ IF Foreign(c, From(c)) THEN Refuses(c) ELSE Goto(c, "out")
  /\ UNCHANGED <<graphVars, faults>>

(* Slip: the other end is not looked up *)
ReadToNot(c) ==
  /\ call[c].op \in {"link", "create entity"} /\ call[c].at = "out"
  /\ Goto(c, "relate")
  /\ UNCHANGED <<graphVars, faults>>

ReadTo(c) ==
  /\ call[c].op \in {"link", "create entity"} /\ call[c].at = "out"
  /\ IF Foreign(c, To(c)) THEN Refuses(c) ELSE Goto(c, "relate")
  /\ UNCHANGED <<graphVars, faults>>

StoreEdge(c) ==
  /\ call[c].op \in {"link", "create entity"} /\ call[c].at = "relate"
  /\ edge' = edge \cup {[by |-> c, from |-> From(c), to |-> To(c), owner |-> call[c].user]}
  /\ Goto(c, IF call[c].op = "link" THEN "entities" ELSE "next")
  /\ UNCHANGED <<entity, vector, robbed, shed, faults>>

-----------------------------------------------------------------------------
(* create_knowledge_entity: row and vector in one transaction, then an edge *)
(* to every selected entity, each once                                     *)
StoreEntity(c) ==
  /\ At(c, "create entity", "store")
  /\ entity' = [entity EXCEPT ![c] = [owner |-> call[c].user, source |-> "manual", text |-> c]]
  /\ vector' = [vector EXCEPT ![c] = c]
  /\ Goto(c, IF call[c].key = {} THEN "entities" ELSE "valid")
  /\ UNCHANGED <<edge, robbed, shed, faults>>

ReadValidIds(c) ==
  /\ At(c, "create entity", "valid")
  /\ Reads(c, [left |-> (call[c].key \cap OwnEntities(call[c].user)) \ {c}, end |-> Nothing],
           "next")
  /\ UNCHANGED <<graphVars, faults>>

NextTarget(c) ==
  /\ At(c, "create entity", "next")
  /\ \/ /\ call[c].got.left = {} /\ Reads(c, Nothing, "entities")
     \/ \E i \in call[c].got.left :
          Reads(c, [left |-> call[c].got.left \ {i}, end |-> i], "in")
  /\ UNCHANGED <<graphVars, faults>>

(* delete_relationship_by_id: of this user, in the statement itself *)
DeleteEdge(c) ==
  /\ At(c, "unlink", "delete")
  /\ LET mine == {e \in OwnEdges(call[c].user) : <<e.by, e.to>> = call[c].key}
     IN IF mine = {} THEN Refuses(c) /\ UNCHANGED edge
        ELSE edge' = edge \ mine /\ Goto(c, "entities")
  /\ UNCHANGED <<entity, vector, robbed, shed, faults>>

-----------------------------------------------------------------------------
(* suggest_knowledge_relationships: the user's entities, then vector and    *)
(* full-text search for that user.  A vector whose entity has gone takes a  *)
(* place among those searched and is dropped.                               *)
ReadLookup(c) ==
  /\ At(c, "suggest", "lookup")
  /\ Reads(c, OwnEntities(call[c].user), "search")
  /\ UNCHANGED <<graphVars, faults>>

(* suggest_related_entities: what is found, in the lookup, up to a limit *)
Suggest(c) ==
  /\ At(c, "suggest", "search")
  /\ \E found \in SUBSET OwnEntities(call[c].user) :
       LET suggested == found \cap call[c].got
       IN /\ Cardinality(suggested) <= MaxSuggestions
          /\ Answers(c, {call[c].user : i \in call[c].got} \cup OwnersOf(suggested))
  /\ UNCHANGED <<graphVars, faults>>

-----------------------------------------------------------------------------
(* The lists that end the handlers, the page and the graph: entities by a   *)
(* filter or all of them, then the relationships between those.  The        *)
(* statements for types and categories show no rows.                        *)
IsFiltered(op) == op \in {"graph", "knowledge"}

ListEntities(c) ==
  /\ call[c].at = "entities"
  /\ \E nodes \in SUBSET OwnEntities(call[c].user) :
       /\ ~IsFiltered(call[c].op) => nodes = OwnEntities(call[c].user)
       /\ IF call[c].op \in {"patch entity", "delete entity"} THEN Answers(c, OwnersOf(nodes))
          ELSE Reads(c, nodes, "edges")
  /\ UNCHANGED <<graphVars, faults>>

(* build_knowledge_base_data and get_knowledge_graph_json draw relationships *)
(* with both ends in the list; the tables of relationships have them all     *)
ListEdges(c) ==
  /\ call[c].at = "edges"
  /\ LET all == OwnEdges(call[c].user)
         links == IF call[c].op \in {"link", "unlink", "new entity"} THEN all
                  ELSE {e \in all : e.from \in call[c].got /\ e.to \in call[c].got}
     IN Answers(c, {e.owner : e \in links} \cup {call[c].user : i \in call[c].got})
  /\ UNCHANGED <<graphVars, faults>>

-----------------------------------------------------------------------------
GraphRequest(c, u) ==
  /\ \/ \E i \in EntityIds : Stored(i) /\
          \E op \in {"edit", "patch entity", "delete entity"} : Starts(c, op, u, i, "read")
     \/ \E i, j \in SeedEntities : Starts(c, "link", u, <<i, j>>, "in")
     \/ \E e \in edge : Starts(c, "unlink", u, <<e.by, e.to>>, "delete")
     \/ \E ids \in Selections : Starts(c, "create entity", u, ids, "store")
     \/ \E i \in SeedEntities : Source[i] # "manual" /\ EntityOwner[i] = u
                                /\ Starts(c, "clear", u, Source[i], "delete")
     \/ Starts(c, "suggest", u, Nothing, "lookup")
     \/ \E op \in {"new entity", "knowledge", "graph"} : Starts(c, op, u, Nothing, "entities")
  /\ UNCHANGED <<graphVars, faults>>

GraphStep(c) ==
  \/ ReadOwnEntity(c) \/ ReadEntityAgain(c) \/ PatchEntity(c)
  \/ DeleteEntity(c) \/ ClearEntities(c)
  \/ ReadFrom(c) \/ ReadTo(c) \/ StoreEdge(c)
  \/ StoreEntity(c) \/ ReadValidIds(c) \/ NextTarget(c) \/ DeleteEdge(c)
  \/ ReadLookup(c) \/ Suggest(c) \/ ListEntities(c) \/ ListEdges(c)

GraphNext ==
  \E c \in Calls :
    \/ GraphStep(c)
    \/ AbandonCall(c) /\ UNCHANGED graphVars
    \/ \E u \in Users : GraphRequest(c, u)

GraphSpec == GraphInit /\ CallsInit /\ [][GraphNext]_<<graphVars, callVars>>

-----------------------------------------------------------------------------
GraphTypeOK ==
  /\ entity \in [EntityIds -> EntityRows \cup {Nothing}]
  /\ vector \in [EntityIds -> EntityIds \cup {Nothing}]
  /\ edge \subseteq [by : Calls, from : EntityIds, to : EntityIds, owner : Users]
  /\ robbed \subseteq Calls /\ shed \subseteq EntityIds

(* A relationship connects entities of the user it belongs to, whoever     *)
(* asked for it and whatever ids the form named.  An id is not used again: *)
(* an end that was validated does not become somebody else's.              *)
(* knowledge_relationship.rs:45.                                           *)
EdgesAreOwn ==
  \A e \in edge :
    /\ Stored(e.from) => entity[e.from].owner = e.owner
    /\ Stored(e.to) => entity[e.to].owner = e.owner

(* What outlives the deletion of an entity.  A relationship has both its   *)
(* ends, unless one was deleted after it had been looked up and before the *)
(* relationship was stored: nothing removes that one with its end.  A      *)
(* vector without its entity, which takes a place in every search, is left *)
(* by the deletion of that one entity, or by a patch that read it before   *)
(* its content was deleted; a deleted content leaves none of its own.      *)
(* knowledge_relationship.rs:46-67, knowledge/handlers.rs:1069,            *)
(* knowledge_entity.rs:321.                                                *)
LeftoversHaveReasons ==
  /\ \A e \in edge : (Stored(e.from) /\ Stored(e.to)) \/ e.by \in robbed
  /\ \A i \in EntityIds : vector[i] # Nothing => Stored(i) \/ i \in shed

(* An entity is searched by the embedding of the text it has, also when    *)
(* two requests patch it at the same time.  knowledge_entity.rs:315.       *)
VectorsFollowTexts ==
  \A i \in EntityIds : Stored(i) => vector[i] = entity[i].text

(* The graph that is stored hangs together, and what is found by a vector  *)
(* is the entity with that text: knowledge_relationship.rs:46,             *)
(* knowledge_entity.rs:315.                                                *)
GraphsAreSound == LeftoversHaveReasons /\ VectorsFollowTexts
=============================================================================
