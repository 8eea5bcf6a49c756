---------------------------- MODULE DocumentsProofs ----------------------------
(***************************************************************************)
(* Proofs about KnowledgeGraph, Library and Chat, for any number of         *)
(* requests, users, entities, files, contents, jobs and conversations, and  *)
(* about what the three show to whom.                                      *)
(*                                                                         *)
(* KnowledgeGraph and Chat rest on ids being given once: what a request has *)
(* looked up and found to be its user's own is later the same row, or gone; *)
(* a question is stored once and stays the only message with its id and its *)
(* stamp.  Library rests on what happens to a file once: its object is put, *)
(* its row is created, its object is deleted, its row is deleted, in that   *)
(* order.                                                                  *)
(***************************************************************************)
EXTENDS MCDocuments, WellFoundedInduction, FiniteSetTheorems, TLAPS

-----------------------------------------------------------------------------
(* Requests, and KnowledgeGraph *)

CallFields == {"op", "at", "user", "key", "got", "page"}

Ends == {"answered", "refused", "failed"}

CallShape == DOMAIN call = Calls /\ \A c \in Calls : DOMAIN call[c] = CallFields

(* The calls after a step of c *)
Moves(c) ==
  /\ DOMAIN call' = Calls /\ DOMAIN call'[c] = CallFields
  /\ \A d \in Calls \ {c} : call'[d] = call[d]

(* c has moved on in its handler *)
GoesOn(c) ==
  /\ Moves(c) /\ call'[c].op = call[c].op
  /\ call'[c].user = call[c].user /\ call'[c].key = call[c].key

LEMMA GotoFields ==
  ASSUME CallShape, NEW c \in Calls, NEW s, Goto(c, s)
  PROVE  /\ GoesOn(c) /\ call'[c].at = s
         /\ call'[c].got = call[c].got /\ call'[c].page = call[c].page
BY DEF CallShape, GoesOn, Moves, Goto, CallFields

LEMMA ReadsFields ==
  ASSUME CallShape, NEW c \in Calls, NEW r, NEW s, Reads(c, r, s)
  PROVE  /\ GoesOn(c) /\ call'[c].at = s
         /\ call'[c].got = r /\ call'[c].page = call[c].page
BY DEF CallShape, GoesOn, Moves, Reads, CallFields

LEMMA AnswersFields ==
  ASSUME CallShape, NEW c \in Calls, NEW o, Answers(c, o)
  PROVE  /\ GoesOn(c) /\ call'[c].at = "answered"
         /\ call'[c].got = Nothing /\ call'[c].page = o
BY DEF CallShape, GoesOn, Moves, Answers, CallFields

LEMMA StartsFields ==
  ASSUME CallShape, NEW c \in Calls, NEW o, NEW u, NEW k, NEW s, Starts(c, o, u, k, s)
  PROVE  /\ Moves(c) /\ call'[c].op = o /\ call'[c].at = s /\ call'[c].user = u
         /\ call'[c].key = k /\ call'[c].got = Nothing /\ call'[c].page = {}
         /\ call[c].at = "unused"
BY DEF CallShape, Moves, Starts, Arrives, Unused, CallFields

LEMMA ShapeStays ==
  ASSUME CallShape, NEW c \in Calls, Moves(c) PROVE CallShape'
BY DEF CallShape, Moves

-----------------------------------------------------------------------------
(* KnowledgeGraph *)

(* No entity will be stored under this id any more *)
Settled(i) == i \in Calls => call[i].at # "unused" /\ ~At(i, "create entity", "store")

(* An end that c has looked up *)
EndIsOwn(c, i) ==
  /\ i \in EntityIds /\ Settled(i)
  /\ Stored(i) => entity[i].owner = call[c].user
  /\ Stored(i) \/ c \in robbed

LinkInv(c) ==
  /\ call[c].op = "link" =>
       call[c].key[1] \in EntityIds /\ call[c].key[2] \in EntityIds
  /\ call[c].op = "create entity" /\ call[c].at \in {"next", "in", "out", "relate"} =>
       call[c].got.left \subseteq EntityIds
  /\ call[c].op = "create entity" /\ call[c].at \in {"in", "out", "relate"} =>
       call[c].got.end \in EntityIds
  /\ call[c].op \in {"link", "create entity"} /\ call[c].at \in {"out", "relate"} =>
       EndIsOwn(c, From(c))
  /\ call[c].op \in {"link", "create entity"} /\ call[c].at = "relate" =>
       EndIsOwn(c, To(c))

GraphCallInv(c) ==
  /\ call[c].at # "unused" => call[c].user \in Users
  /\ call[c].op \in {"edit", "patch entity", "delete entity"} => call[c].key \in EntityIds
  /\ At(c, "patch entity", "patch") => Stored(call[c].key) \/ call[c].key \in shed
  /\ LinkInv(c)
  /\ call[c].page \subseteq {call[c].user}

EdgeInv(e) ==
  /\ Settled(e.from) /\ (Stored(e.from) => entity[e.from].owner = e.owner)
  /\ Settled(e.to) /\ (Stored(e.to) => entity[e.to].owner = e.owner)
  /\ (Stored(e.from) /\ Stored(e.to)) \/ e.by \in robbed

VectorsAreSound ==
  \A i \in EntityIds : /\ Stored(i) => vector[i] = entity[i].text
                       /\ vector[i] # Nothing => Stored(i) \/ i \in shed

GraphInv ==
  /\ GraphTypeOK /\ CallShape
  /\ \A c \in Calls : GraphCallInv(c)
  /\ \A e \in edge : EdgeInv(e)
  /\ \A i \in EntityIds : Stored(i) => Settled(i)
  /\ VectorsAreSound

(* A call that moves on does not give an id a second time *)
LEMMA SettledStays ==
  ASSUME NEW c \in Calls, Moves(c), call'[c].at # "unused",
         At(c, "create entity", "store")' => call[c].at = "unused",
         NEW i, Settled(i)
  PROVE  Settled(i)'
BY DEF Settled, Moves, At

LEMMA EndStays ==
  ASSUME NEW c \in Calls, NEW i, EndIsOwn(c, i), Settled(i)',
         call'[c].user = call[c].user, robbed \subseteq robbed',
         Stored(i)' => Stored(i) /\ entity'[i].owner = entity[i].owner,
         Stored(i) /\ ~Stored(i)' => c \in robbed'
  PROVE  EndIsOwn(c, i)'
BY DEF EndIsOwn

(* No entity appears or changes hands *)
EntitiesStay ==
  \A i \in EntityIds : Stored(i)' => Stored(i) /\ entity'[i].owner = entity[i].owner

(* Of one that goes, the edges go too, and who had looked it up is recorded *)
DeletionsAreSeen ==
  \A i \in EntityIds : Stored(i) /\ ~Stored(i)' =>
    /\ \A d \in Calls : HasLookedUp(d, i) => d \in robbed'
    /\ Patching(i) => i \in shed'
    /\ \A e \in edge' : i \notin {e.from, e.to}

HistoriesGrow == robbed \subseteq robbed' /\ shed \subseteq shed'

NewEdgesAreSound == \A e \in edge' : e \in edge \/ EdgeInv(e)'

(* c gets no second id *)
StoresOnce(c) ==
  call'[c].at # "unused" /\ (At(c, "create entity", "store")' => call[c].at = "unused")

(* Every action but StoreEntity *)
LEMMA GraphStepKeeps ==
  ASSUME GraphInv, NEW c \in Calls, Moves(c), StoresOnce(c), GraphTypeOK', GraphCallInv(c)',
         EntitiesStay, HistoriesGrow, DeletionsAreSeen, NewEdgesAreSound, VectorsAreSound'
  PROVE  GraphInv'
<1>1. CallShape'
  BY ShapeStays DEF GraphInv
<1>2. \A i : Settled(i) => Settled(i)'
  BY SettledStays DEF StoresOnce
<1>3. ASSUME NEW d \in Calls, d # c PROVE GraphCallInv(d)'
  <2>1. call'[d] = call[d] /\ GraphCallInv(d)
    BY <1>3 DEF Moves, GraphInv
  <2>2. ASSUME NEW i, EndIsOwn(d, i), HasLookedUp(d, i) PROVE EndIsOwn(d, i)'
    BY <1>2, <2>1, <2>2, EndStays DEF EndIsOwn, EntitiesStay, HistoriesGrow, DeletionsAreSeen
  <2>3. ASSUME call[d].op \in {"link", "create entity"}, call[d].at \in {"out", "relate"}
        PROVE  EndIsOwn(d, From(d))'
    <3>1. PICK i : i = From(d)
      OBVIOUS
    <3>2. EndIsOwn(d, i) /\ HasLookedUp(d, i)
      BY <2>1, <2>3, <3>1 DEF GraphCallInv, LinkInv, HasLookedUp, From
    <3>3. From(d)' = i
      BY <2>1, <3>1 DEF From
    <3> QED BY <2>2, <3>2, <3>3 DEF EndIsOwn, Settled, Stored
  <2>4. ASSUME call[d].op \in {"link", "create entity"}, call[d].at = "relate"
        PROVE  EndIsOwn(d, To(d))'
    <3>1. PICK i : i = To(d)
      OBVIOUS
    <3>2. EndIsOwn(d, i) /\ HasLookedUp(d, i)
      BY <2>1, <2>4, <3>1 DEF GraphCallInv, LinkInv, HasLookedUp, To
    <3>3. To(d)' = i
      BY <2>1, <3>1 DEF To
    <3> QED BY <2>2, <3>2, <3>3 DEF EndIsOwn, Settled, Stored
  <2>5. LinkInv(d)'
    BY <2>1, <2>3, <2>4 DEF GraphCallInv, LinkInv
  <2>6. At(d, "patch entity", "patch") =>
          Stored(call[d].key)' \/ call[d].key \in shed'
    BY <2>1 DEF GraphCallInv, At, Patching, HistoriesGrow, DeletionsAreSeen
  <2> QED BY <2>1, <2>5, <2>6 DEF GraphCallInv, At
<1>4. ASSUME NEW e \in edge' PROVE EdgeInv(e)'
  <2>1. CASE e \in edge
    <3>1. EdgeInv(e) /\ e.from \in EntityIds /\ e.to \in EntityIds
      BY <2>1 DEF GraphInv, GraphTypeOK
    <3> QED
      BY <1>2, <3>1 DEF EdgeInv, EntitiesStay, HistoriesGrow, DeletionsAreSeen
  <2> QED BY <2>1 DEF NewEdgesAreSound
<1>5. \A i \in EntityIds : Stored(i)' => Settled(i)'
  BY <1>2 DEF GraphInv, EntitiesStay
<1> QED BY <1>1, <1>3, <1>4, <1>5 DEF GraphInv

(* A statement that reads *)
LEMMA GraphMoves ==
  ASSUME GraphInv, NEW c \in Calls, UNCHANGED graphVars, Moves(c), StoresOnce(c),
         GraphCallInv(c)'
  PROVE  GraphInv'
<1>1. GraphTypeOK' /\ VectorsAreSound' /\ HistoriesGrow
  BY DEF GraphInv, GraphTypeOK, VectorsAreSound, HistoriesGrow, Stored, graphVars
<1>2. EntitiesStay /\ DeletionsAreSeen /\ NewEdgesAreSound
  BY DEF EntitiesStay, DeletionsAreSeen, NewEdgesAreSound, Stored, graphVars
<1> QED BY <1>1, <1>2, GraphStepKeeps

LEMMA GraphEndInv ==
  ASSUME GraphInv, NEW c \in Calls, call[c].at # "unused", GoesOn(c), call'[c].at \in Ends,
         call'[c].page \subseteq {call[c].user}
  PROVE  GraphCallInv(c)'
BY DEF GraphInv, GraphCallInv, LinkInv, GoesOn, Ends, At

LEMMA GraphEnds ==
  ASSUME GraphInv, NEW c \in Calls, call[c].at # "unused", UNCHANGED graphVars,
         \/ Refuses(c) \/ Fails(c)
         \/ \E o \in SUBSET {call[c].user} : Answers(c, o)
  PROVE  GraphInv'
<1>0. CallShape /\ call[c].page \subseteq {call[c].user}
  BY DEF GraphInv, GraphCallInv
<1>1. CASE Refuses(c) \/ Fails(c)
  <2>1. GoesOn(c) /\ call'[c].at \in {"refused", "failed"} /\ call'[c].page = call[c].page
    BY <1>0, <1>1, ReadsFields DEF Refuses, Fails
  <2>2. GraphCallInv(c)'
    BY <1>0, <2>1, GraphEndInv DEF Ends
  <2> QED BY <2>1, <2>2, GraphMoves DEF GoesOn, StoresOnce, At
<1>2. ASSUME NEW o \in SUBSET {call[c].user}, Answers(c, o)
      PROVE  GraphInv'
  <2>1. GoesOn(c) /\ call'[c].at = "answered" /\ call'[c].page = o
    BY <1>0, <1>2, AnswersFields
  <2>2. GraphCallInv(c)'
    BY <1>2, <2>1, GraphEndInv DEF Ends
  <2> QED BY <2>1, <2>2, GraphMoves DEF GoesOn, StoresOnce, At
<1> QED BY <1>1, <1>2

LEMMA RequestingGraph ==
  ASSUME GraphInv, NEW c \in Calls, NEW u \in Users, GraphRequest(c, u) PROVE GraphInv'
<1>1. ASSUME NEW o, NEW k, NEW s, Starts(c, o, u, k, s),
             s \in {"read", "in", "delete", "store", "lookup", "entities"},
             o \in {"edit", "patch entity", "delete entity"} => k \in EntityIds,
             o = "link" => k[1] \in EntityIds /\ k[2] \in EntityIds,
             o = "create entity" => s = "store"
      PROVE  GraphInv'
  <2>1. /\ Moves(c) /\ call[c].at = "unused"
        /\ call'[c].op = o /\ call'[c].at = s /\ call'[c].user = u
        /\ call'[c].key = k /\ call'[c].page = {}
    BY <1>1, StartsFields DEF GraphInv
  <2>2. GraphCallInv(c)'
    BY <1>1, <2>1 DEF GraphCallInv, LinkInv, At
  <2> QED BY <1>1, <2>1, <2>2, GraphMoves DEF GraphRequest, StoresOnce
<1> QED BY <1>1 DEF GraphRequest, EntityIds

LEMMA ReadingOwnEntity ==
  ASSUME GraphInv, NEW c \in Calls, ReadOwnEntity(c) PROVE GraphInv'
<1>0. /\ UNCHANGED graphVars /\ call[c].at = "read"
      /\ call[c].op \in {"edit", "patch entity", "delete entity"}
  BY DEF ReadOwnEntity
<1>1. CASE Refuses(c) \/ \E o \in SUBSET {call[c].user} : Answers(c, o)
  BY <1>0, <1>1, GraphEnds
<1>2. ASSUME NEW s \in {"again", "delete"}, Goto(c, s) PROVE GraphInv'
  <2>1. GoesOn(c) /\ call'[c].at = s /\ call'[c].page = call[c].page
    BY <1>2, GotoFields DEF GraphInv
  <2>2. GraphCallInv(c)'
    BY <1>0, <2>1 DEF GraphInv, GraphCallInv, LinkInv, GoesOn, At
  <2> QED BY <1>0, <2>1, <2>2, GraphMoves DEF GoesOn, StoresOnce, At
<1> QED BY <1>1, <1>2 DEF ReadOwnEntity

LEMMA ReadingEntityAgain ==
  ASSUME GraphInv, NEW c \in Calls, ReadEntityAgain(c) PROVE GraphInv'
<1>0. UNCHANGED graphVars /\ call[c].op = "patch entity" /\ call[c].at = "again"
  BY DEF ReadEntityAgain, At
<1>1. CASE Refuses(c)
  BY <1>0, <1>1, GraphEnds
<1>2. CASE Stored(call[c].key) /\ Goto(c, "patch")
  <2>1. GoesOn(c) /\ call'[c].at = "patch" /\ call'[c].page = call[c].page
    BY <1>2, GotoFields DEF GraphInv
  <2>2. GraphCallInv(c)'
    BY <1>0, <1>2, <2>1
       DEF GraphInv, GraphCallInv, LinkInv, GoesOn, At, Stored, graphVars
  <2> QED BY <1>0, <2>1, <2>2, GraphMoves DEF GoesOn, StoresOnce, At
<1> QED BY <1>1, <1>2 DEF ReadEntityAgain

LEMMA PatchingEntity ==
  ASSUME GraphInv, NEW c \in Calls, PatchEntity(c) PROVE GraphInv'
<1>0. PICK k \in EntityIds :
        /\ UNCHANGED <<edge, robbed, shed, faults>>
        /\ call[c].op = "patch entity" /\ call[c].at = "patch"
        /\ k = call[c].key /\ (Stored(k) \/ k \in shed) /\ c \in EntityIds
  BY DEF PatchEntity, At, GraphInv, GraphCallInv, EntityIds
<1>1. GoesOn(c) /\ call'[c].at = "entities" /\ call'[c].page = call[c].page
  BY GotoFields DEF PatchEntity, GraphInv
<1>2. /\ vector' = [vector EXCEPT ![k] = c]
      /\ \A i \in EntityIds \ {k} : entity'[i] = entity[i] /\ vector'[i] = vector[i]
      /\ vector'[k] = c
      /\ entity'[k] = IF Stored(k) THEN [entity[k] EXCEPT !.text = c] ELSE Nothing
  BY <1>0 DEF PatchEntity, GraphInv, GraphTypeOK, Stored
<1>3. Stored(k) => /\ entity'[k].text = c /\ entity'[k].owner = entity[k].owner
                   /\ entity'[k] \in EntityRows
  <2>1. Stored(k) => entity[k] \in EntityRows
    BY <1>0 DEF GraphInv, GraphTypeOK, Stored
  <2> QED BY <1>0, <1>2, <2>1 DEF EntityRows
<1>4. \A i \in EntityIds : Stored(i)' <=> Stored(i)
  <2>1. Stored(k)' <=> Stored(k)
    BY <1>2, <1>3, GraphAssumption DEF Stored
  <2> QED BY <1>2, <2>1 DEF Stored
<1>5. GraphTypeOK'
  <2>1. entity' \in [EntityIds -> EntityRows \cup {Nothing}]
    BY <1>2, <1>3 DEF PatchEntity, GraphInv, GraphTypeOK
  <2> QED BY <1>0, <1>2, <2>1 DEF GraphInv, GraphTypeOK
<1>6. GraphCallInv(c)'
  BY <1>0, <1>1 DEF GraphInv, GraphCallInv, LinkInv, GoesOn, At
<1>7. VectorsAreSound'
  BY <1>0, <1>2, <1>3, <1>4 DEF GraphInv, VectorsAreSound
<1>8. EntitiesStay /\ DeletionsAreSeen
  BY <1>2, <1>3, <1>4 DEF EntitiesStay, DeletionsAreSeen
<1>9. HistoriesGrow /\ NewEdgesAreSound
  BY <1>0 DEF HistoriesGrow, NewEdgesAreSound
<1> QED BY <1>1, <1>5, <1>6, <1>7, <1>8, <1>9, GraphStepKeeps DEF GoesOn, StoresOnce, At

(* The deletions: of one entity, and of those of a content *)
LEMMA PurgingEntities ==
  ASSUME GraphInv, NEW c \in Calls, NEW ids, ids \subseteq EntityIds, Purge(ids),
         shed \subseteq shed', shed' \subseteq EntityIds,
         \A i \in ids : Stored(i) /\ Patching(i) => i \in shed',
         \A i \in EntityIds : \/ vector'[i] = vector[i] /\ (i \in ids => i \in shed')
                              \/ vector'[i] = Nothing /\ (i \in ids \/ ~Stored(i)),
         vector' \in [EntityIds -> EntityIds \cup {Nothing}],
         Moves(c), StoresOnce(c), GraphCallInv(c)'
  PROVE  GraphInv'
<1>1. \A i \in EntityIds : entity'[i] = IF i \in ids THEN Nothing ELSE entity[i]
  BY DEF Purge
<1>2. /\ \A e \in edge' : e \in edge /\ e.from \notin ids /\ e.to \notin ids
      /\ \A i \in ids : \A d \in Calls : HasLookedUp(d, i) => d \in robbed'
      /\ robbed \subseteq robbed'
  BY DEF Purge
<1>3. GraphTypeOK'
  BY DEF GraphInv, GraphTypeOK, Purge
<1>4. VectorsAreSound'
  <2>1. SUFFICES ASSUME NEW i \in EntityIds
                 PROVE  /\ entity'[i] # Nothing => vector'[i] = entity'[i].text
                        /\ vector'[i] # Nothing => entity'[i] # Nothing \/ i \in shed'
    BY DEF VectorsAreSound, Stored
  <2>2. /\ entity[i] # Nothing => vector[i] = entity[i].text
        /\ vector[i] # Nothing => entity[i] # Nothing \/ i \in shed
    BY DEF GraphInv, VectorsAreSound, Stored
  <2> QED BY <1>1, <2>2 DEF Stored
<1>5. EntitiesStay /\ HistoriesGrow /\ NewEdgesAreSound
  BY <1>1, <1>2 DEF EntitiesStay, HistoriesGrow, NewEdgesAreSound, Stored
<1>6. DeletionsAreSeen
  BY <1>1, <1>2 DEF DeletionsAreSeen, Stored
<1> QED BY <1>3, <1>4, <1>5, <1>6, GraphStepKeeps

LEMMA DeletingEntity ==
  ASSUME GraphInv, NEW c \in Calls, DeleteEntity(c) PROVE GraphInv'
<1>0. /\ call[c].op = "delete entity" /\ call[c].at = "delete" /\ vector' = vector
      /\ call[c].key \in EntityIds /\ shed' = shed \cup {call[c].key}
      /\ Purge({call[c].key})
  BY DEF DeleteEntity, At, GraphInv, GraphCallInv
<1>1. GoesOn(c) /\ call'[c].at = "entities" /\ call'[c].page = call[c].page
  BY GotoFields DEF DeleteEntity, GraphInv
<1>2. GraphCallInv(c)'
  BY <1>0, <1>1 DEF GraphInv, GraphCallInv, LinkInv, GoesOn, At
<1> QED BY <1>0, <1>1, <1>2, PurgingEntities
   DEF GraphInv, GraphTypeOK, GoesOn, StoresOnce, At

LEMMA ClearingEntities ==
  ASSUME GraphInv, NEW c \in Calls, ClearEntities(c) PROVE GraphInv'
<1> DEFINE ids == {i \in EntityIds : Stored(i) /\ entity[i].source = call[c].key}
           left == {i \in SeedEntities : ~Stored(i) /\ Source[i] = call[c].key}
<1>0. /\ call[c].op = "clear" /\ call[c].at = "delete"
      /\ Purge(ids) /\ shed' = shed \cup {i \in ids : Patching(i)}
      /\ vector' = [i \in EntityIds |-> IF i \in ids \cup left THEN Nothing ELSE vector[i]]
  BY DEF ClearEntities, At
<1>1. GoesOn(c) /\ call'[c].at = "answered" /\ call'[c].page = {}
  BY AnswersFields DEF ClearEntities, GraphInv
<1>2. GraphCallInv(c)'
  BY <1>0, <1>1, GraphEndInv DEF Ends
<1>3. /\ vector' \in [EntityIds -> EntityIds \cup {Nothing}]
      /\ \A i \in EntityIds : \/ vector'[i] = vector[i] /\ (i \in ids => i \in shed')
                              \/ vector'[i] = Nothing /\ (i \in ids \/ ~Stored(i))
      /\ shed \subseteq shed' /\ shed' \subseteq EntityIds
  BY <1>0 DEF GraphInv, GraphTypeOK
<1> HIDE DEF ids
<1>4. ids \subseteq EntityIds
  BY DEF ids
<1> QED BY <1>0, <1>1, <1>2, <1>3, <1>4, PurgingEntities DEF GoesOn, StoresOnce, At

(* Storing an edge: its ends are looked up one after the other *)
LEMMA ReadingEnds ==
  ASSUME GraphInv, NEW c \in Calls, ReadFrom(c) \/ ReadTo(c) PROVE GraphInv'
<1>0. /\ UNCHANGED graphVars /\ call[c].op \in {"link", "create entity"}
      /\ call[c].at \in {"in", "out"} /\ LinkInv(c)
  BY DEF ReadFrom, ReadTo, GraphInv, GraphCallInv
<1>1. CASE Refuses(c)
  BY <1>0, <1>1, GraphEnds
<1>2. ASSUME ~Foreign(c, From(c)), Goto(c, "out"), call[c].at = "in" PROVE GraphInv'
  <2>1. /\ GoesOn(c) /\ call'[c].at = "out" /\ call'[c].page = call[c].page
        /\ call'[c].got = call[c].got
    BY <1>2, GotoFields DEF GraphInv
  <2>2. PICK i \in EntityIds : i = From(c)
    BY <1>0 DEF LinkInv, From, EntityIds
  <2>3. Stored(i) /\ entity[i].owner = call[c].user /\ Settled(i)
    BY <1>2, <2>2 DEF Foreign, GraphInv
  <2>4. From(c)' = i /\ EndIsOwn(c, i)'
    BY <1>0, <1>2, <2>1, <2>2, <2>3, SettledStays
       DEF From, EndIsOwn, GoesOn, Stored, graphVars, At
  <2>5. EndIsOwn(c, From(c))'
    BY <2>4 DEF EndIsOwn, Settled, Stored
  <2>6. LinkInv(c)'
    BY <1>0, <1>2, <2>1, <2>5 DEF LinkInv, GoesOn
  <2>7. GraphCallInv(c)'
    BY <1>0, <2>1, <2>6 DEF GraphInv, GraphCallInv, GoesOn, At
  <2> QED BY <1>0, <2>1, <2>7, GraphMoves DEF GoesOn, StoresOnce, At
<1>3. ASSUME ~Foreign(c, To(c)), Goto(c, "relate"), call[c].at = "out" PROVE GraphInv'
  <2>1. /\ GoesOn(c) /\ call'[c].at = "relate" /\ call'[c].page = call[c].page
        /\ call'[c].got = call[c].got
    BY <1>3, GotoFields DEF GraphInv
  <2>2. PICK i \in EntityIds : i = To(c)
    BY <1>0, <1>3 DEF LinkInv, To
  <2>3. Stored(i) /\ entity[i].owner = call[c].user /\ Settled(i)
    BY <1>3, <2>2 DEF Foreign, GraphInv
  <2>4. PICK j : j = From(c) /\ EndIsOwn(c, j)
    BY <1>0, <1>3 DEF LinkInv
  <2>5. From(c)' = j /\ To(c)' = i /\ EndIsOwn(c, i)' /\ EndIsOwn(c, j)'
    BY <1>0, <1>3, <2>1, <2>2, <2>3, <2>4, SettledStays
       DEF From, To, EndIsOwn, GoesOn, Stored, graphVars, At
  <2>6. EndIsOwn(c, From(c))' /\ EndIsOwn(c, To(c))'
    BY <2>5 DEF EndIsOwn, Settled, Stored
  <2>7. LinkInv(c)'
    BY <1>0, <1>3, <2>1, <2>6 DEF LinkInv, GoesOn
  <2>8. GraphCallInv(c)'
    BY <1>0, <2>1, <2>7 DEF GraphInv, GraphCallInv, GoesOn, At
  <2> QED BY <1>0, <2>1, <2>8, GraphMoves DEF GoesOn, StoresOnce, At
<1> QED BY <1>1, <1>2, <1>3 DEF ReadFrom, ReadTo

LEMMA StoringEdge ==
  ASSUME GraphInv, NEW c \in Calls, StoreEdge(c) PROVE GraphInv'
<1>0. /\ UNCHANGED <<entity, vector, robbed, shed>>
      /\ call[c].op \in {"link", "create entity"} /\ call[c].at = "relate"
      /\ edge' = edge \cup {[by |-> c, from |-> From(c), to |-> To(c),
                              owner |-> call[c].user]}
      /\ EndIsOwn(c, From(c)) /\ EndIsOwn(c, To(c)) /\ call[c].user \in Users
  BY DEF StoreEdge, GraphInv, GraphCallInv, LinkInv
<1>1. PICK s \in {"entities", "next"} :
        s = (IF call[c].op = "link" THEN "entities" ELSE "next") /\ Goto(c, s)
  BY DEF StoreEdge
<1>2. /\ GoesOn(c) /\ call'[c].at = s /\ call'[c].page = call[c].page
      /\ call'[c].got = call[c].got
  BY <1>1, GotoFields DEF GraphInv
<1>3. GraphCallInv(c)'
  BY <1>0, <1>1, <1>2 DEF GraphInv, GraphCallInv, LinkInv, GoesOn, At
<1>4. GraphTypeOK' /\ VectorsAreSound' /\ HistoriesGrow
  <2>1. From(c) \in EntityIds /\ To(c) \in EntityIds
    BY <1>0 DEF EndIsOwn
  <2>2. PICK e \in [by : Calls, from : EntityIds, to : EntityIds, owner : Users] :
          edge' = edge \cup {e}
    BY <1>0, <2>1
  <2>3. GraphTypeOK'
    BY <1>0, <2>2 DEF GraphInv, GraphTypeOK
  <2> QED BY <1>0, <2>3 DEF GraphInv, VectorsAreSound, HistoriesGrow, Stored
<1>5. EntitiesStay /\ DeletionsAreSeen
  BY <1>0 DEF EntitiesStay, DeletionsAreSeen, Stored
<1>6. NewEdgesAreSound
  <2>1. SUFFICES ASSUME NEW i, NEW j, i = From(c), j = To(c),
                        NEW e, e = [by |-> c, from |-> i, to |-> j, owner |-> call[c].user]
                 PROVE  EdgeInv(e)'
    BY <1>0 DEF NewEdgesAreSound
  <2>2. Settled(i)' /\ Settled(j)'
    BY <1>0, <1>1, <1>2, <2>1, SettledStays DEF EndIsOwn, GoesOn, At
  <2> QED BY <1>0, <2>1, <2>2 DEF EdgeInv, EndIsOwn, Stored
<1> QED
  BY <1>1, <1>2, <1>3, <1>4, <1>5, <1>6, GraphStepKeeps DEF GoesOn, StoresOnce, At

LEMMA DeletingEdge ==
  ASSUME GraphInv, NEW c \in Calls, DeleteEdge(c) PROVE GraphInv'
<1>0. /\ UNCHANGED <<entity, vector, robbed, shed>>
      /\ call[c].op = "unlink" /\ call[c].at = "delete"
      /\ \/ Refuses(c) /\ UNCHANGED edge
         \/ edge' \subseteq edge /\ Goto(c, "entities")
  BY DEF DeleteEdge, At
<1>1. CASE Refuses(c) /\ UNCHANGED edge
  BY <1>0, <1>1, GraphEnds DEF graphVars
<1>2. CASE edge' \subseteq edge /\ Goto(c, "entities")
  <2>1. GoesOn(c) /\ call'[c].at = "entities" /\ call'[c].page = call[c].page
    BY <1>2, GotoFields DEF GraphInv
  <2>2. GraphCallInv(c)'
    BY <1>0, <2>1 DEF GraphInv, GraphCallInv, LinkInv, GoesOn, At
  <2>3. GraphTypeOK' /\ VectorsAreSound' /\ HistoriesGrow /\ NewEdgesAreSound
    BY <1>0, <1>2
       DEF GraphInv, GraphTypeOK, VectorsAreSound, HistoriesGrow, NewEdgesAreSound, Stored
  <2>4. EntitiesStay /\ DeletionsAreSeen
    BY <1>0 DEF EntitiesStay, DeletionsAreSeen, Stored
  <2> QED BY <2>1, <2>2, <2>3, <2>4, GraphStepKeeps DEF GoesOn, StoresOnce, At
<1> QED BY <1>0, <1>1, <1>2

-----------------------------------------------------------------------------
(* The new entity *)
LEMMA StoringEntity ==
  ASSUME GraphInv, NEW c \in Calls, StoreEntity(c) PROVE GraphInv'
<1> DEFINE row == [owner |-> call[c].user, source |-> "manual", text |-> c]
<1>0. /\ UNCHANGED <<edge, robbed, shed>>
      /\ call[c].op = "create entity" /\ call[c].at = "store"
      /\ c \in EntityIds /\ call[c].user \in Users
      /\ entity' = [entity EXCEPT ![c] = row] /\ vector' = [vector EXCEPT ![c] = c]
  BY DEF StoreEntity, At, EntityIds, GraphInv, GraphCallInv
<1>1. PICK s \in {"entities", "valid"} : Goto(c, s)
  BY DEF StoreEntity
<1>2. GoesOn(c) /\ call'[c].at = s /\ call'[c].page = call[c].page
  BY <1>1, GotoFields DEF GraphInv
<1>3. ~Settled(c) /\ \A i : Settled(i) => i # c /\ Settled(i)'
  <2>1. ~Settled(c)
    BY <1>0 DEF Settled, At
  <2> QED BY <1>1, <1>2, <2>1, SettledStays DEF GoesOn, At
<1>4. row \in EntityRows
  BY <1>0 DEF EntityRows
<1> HIDE DEF row
<1>5. /\ entity'[c] = row /\ vector'[c] = c
      /\ \A i \in EntityIds \ {c} : entity'[i] = entity[i] /\ vector'[i] = vector[i]
  BY <1>0 DEF GraphInv, GraphTypeOK
<1>6. row # Nothing /\ row.text = c
  BY <1>4, GraphAssumption DEF row
<1>7. GraphTypeOK' /\ CallShape'
  BY <1>0, <1>2, <1>4, ShapeStays DEF GraphInv, GraphTypeOK, GoesOn
<1>8. VectorsAreSound'
  BY <1>0, <1>5, <1>6 DEF GraphInv, VectorsAreSound, Stored
<1>9. ASSUME NEW i \in EntityIds, Stored(i)' PROVE Settled(i)'
  <2>1. CASE i = c
    BY <1>1, <1>2, <2>1 DEF Settled, At
  <2>2. CASE i # c
    BY <1>3, <1>5, <1>9, <2>2 DEF GraphInv, Stored
  <2> QED BY <2>1, <2>2
<1>10. ASSUME NEW e \in edge PROVE EdgeInv(e)'
  <2>1. EdgeInv(e) /\ e.from \in EntityIds \ {c} /\ e.to \in EntityIds \ {c}
    BY <1>3, <1>10 DEF GraphInv, GraphTypeOK, EdgeInv
  <2> QED BY <1>0, <1>3, <1>5, <2>1 DEF EdgeInv, Stored
<1>11. GraphCallInv(c)'
  BY <1>0, <1>1, <1>2 DEF GraphInv, GraphCallInv, LinkInv, GoesOn, At
<1>12. ASSUME NEW d \in Calls, d # c PROVE GraphCallInv(d)'
  <2>1. call'[d] = call[d] /\ GraphCallInv(d)
    BY <1>2, <1>12 DEF GoesOn, Moves, GraphInv
  <2>2. ASSUME NEW i, EndIsOwn(d, i) PROVE EndIsOwn(d, i)'
    BY <1>0, <1>3, <1>5, <2>1, <2>2 DEF EndIsOwn, Stored
  <2>3. ASSUME NEW i, i = From(d), EndIsOwn(d, i) PROVE EndIsOwn(d, From(d))'
    <3>1. From(d)' = i
      BY <2>1, <2>3 DEF From
    <3> QED BY <2>2, <2>3, <3>1 DEF EndIsOwn, Settled, Stored
  <2>4. ASSUME NEW i, i = To(d), EndIsOwn(d, i) PROVE EndIsOwn(d, To(d))'
    <3>1. To(d)' = i
      BY <2>1, <2>4 DEF To
    <3> QED BY <2>2, <2>4, <3>1 DEF EndIsOwn, Settled, Stored
  <2>5. LinkInv(d)'
    BY <2>1, <2>3, <2>4 DEF GraphCallInv, LinkInv
  <2>6. At(d, "patch entity", "patch") =>
          Stored(call[d].key)' \/ call[d].key \in shed'
    BY <1>0, <1>5, <1>6, <2>1 DEF GraphCallInv, At, Stored
  <2> QED BY <2>1, <2>5, <2>6 DEF GraphCallInv, At
<1> QED BY <1>0, <1>7, <1>8, <1>9, <1>10, <1>11, <1>12 DEF GraphInv

(* ... and the ids of the entities to which it is to be linked *)
LEMMA ChoosingTargets ==
  ASSUME GraphInv, NEW c \in Calls, ReadValidIds(c) \/ NextTarget(c) PROVE GraphInv'
<1>0. /\ UNCHANGED graphVars /\ call[c].op = "create entity"
      /\ call[c].at \in {"valid", "next"}
      /\ call[c].at = "next" => call[c].got.left \subseteq EntityIds
  BY DEF ReadValidIds, NextTarget, At, GraphInv, GraphCallInv, LinkInv
<1>1. ASSUME NEW s \in {"next", "in", "entities"}, NEW r, Reads(c, r, s),
             s \in {"next", "in"} => r.left \subseteq EntityIds,
             s = "in" => r.end \in EntityIds
      PROVE  GraphInv'
  <2>1. /\ GoesOn(c) /\ call'[c].at = s /\ call'[c].page = call[c].page
        /\ call'[c].got = r
    BY <1>1, ReadsFields DEF GraphInv
  <2>2. GraphCallInv(c)'
    BY <1>0, <1>1, <2>1 DEF GraphInv, GraphCallInv, LinkInv, GoesOn, At
  <2> QED BY <1>0, <2>1, <2>2, GraphMoves DEF GoesOn, StoresOnce, At
<1>2. CASE ReadValidIds(c)
  <2>1. (call[c].key \cap OwnEntities(call[c].user)) \ {c} \subseteq EntityIds
    BY DEF OwnEntities
  <2> QED BY <1>1, <1>2, <2>1 DEF ReadValidIds
<1>3. CASE NextTarget(c)
  <2>1. CASE Reads(c, Nothing, "entities")
    BY <1>1, <2>1
  <2>2. ASSUME NEW i \in call[c].got.left, call[c].at = "next",
               Reads(c, [left |-> call[c].got.left \ {i}, end |-> i], "in")
        PROVE  GraphInv'
    BY <1>0, <1>1, <2>2
  <2> QED BY <1>3, <2>1, <2>2 DEF NextTarget, At
<1> QED BY <1>2, <1>3

-----------------------------------------------------------------------------
(* What is shown *)
LEMMA ShowingGraph ==
  ASSUME GraphInv, NEW c \in Calls,
         ReadLookup(c) \/ Suggest(c) \/ ListEntities(c) \/ ListEdges(c)
  PROVE  GraphInv'
<1>0. /\ UNCHANGED graphVars /\ call[c].at \in {"lookup", "search", "entities", "edges"}
      /\ call[c].page \subseteq {call[c].user}
  BY DEF ReadLookup, Suggest, ListEntities, ListEdges, At, GraphInv, GraphCallInv
<1>1. ASSUME NEW r, NEW s \in {"search", "edges"}, Reads(c, r, s) PROVE GraphInv'
  <2>1. GoesOn(c) /\ call'[c].at = s /\ call'[c].page = call[c].page
    BY <1>1, ReadsFields DEF GraphInv
  <2>2. GraphCallInv(c)'
    BY <1>0, <1>1, <2>1 DEF GraphInv, GraphCallInv, LinkInv, GoesOn, At
  <2> QED BY <1>0, <1>1, <2>1, <2>2, GraphMoves DEF GoesOn, StoresOnce, At
<1>2. ASSUME NEW nodes, nodes \subseteq OwnEntities(call[c].user)
      PROVE  OwnersOf(nodes) \subseteq {call[c].user}
  BY <1>2 DEF OwnEntities, OwnersOf
<1>3. CASE Suggest(c)
  <2>1. PICK found \in SUBSET OwnEntities(call[c].user) :
          Answers(c, {call[c].user : i \in call[c].got} \cup OwnersOf(found \cap call[c].got))
    BY <1>3 DEF Suggest
  <2>2. OwnersOf(found \cap call[c].got) \subseteq {call[c].user}
    BY <1>2, <2>1
  <2> QED BY <1>0, <2>1, <2>2, GraphEnds
<1>4. CASE ListEntities(c)
  <2>1. PICK nodes \in SUBSET OwnEntities(call[c].user) :
          IF call[c].op \in {"patch entity", "delete entity"} THEN Answers(c, OwnersOf(nodes))
          ELSE Reads(c, nodes, "edges")
    BY <1>4 DEF ListEntities
  <2>2. OwnersOf(nodes) \subseteq {call[c].user}
    BY <1>2, <2>1
  <2> QED BY <1>0, <1>1, <2>1, <2>2, GraphEnds
<1>5. CASE ListEdges(c)
  <2> DEFINE all == OwnEdges(call[c].user)
             links == IF call[c].op \in {"link", "unlink", "new entity"} THEN all
                      ELSE {e \in all : e.from \in call[c].got /\ e.to \in call[c].got}
  <2>1. Answers(c, {e.owner : e \in links} \cup {call[c].user : i \in call[c].got})
    BY <1>5 DEF ListEdges
  <2>2. {e.owner : e \in links} \subseteq {call[c].user}
    BY DEF OwnEdges
  <2> HIDE DEF links
  <2> QED BY <1>0, <2>1, <2>2, GraphEnds
<1> QED BY <1>1, <1>3, <1>4, <1>5 DEF ReadLookup

-----------------------------------------------------------------------------
LEMMA GraphStart == ASSUME GraphInit, CallsInit PROVE GraphInv
<1>1. /\ CallShape
      /\ \A c \in Calls : call[c].op = "none" /\ call[c].at = "unused" /\ call[c].page = {}
  BY DEF CallsInit, CallShape, CallFields, Unused
<1>2. \A c \in Calls : GraphCallInv(c)
  BY <1>1 DEF GraphCallInv, LinkInv, At
<1>3. \A i \in SeedEntities :
        [owner |-> EntityOwner[i], source |-> Source[i], text |-> i] \in EntityRows
  BY GraphAssumption DEF EntityRows, EntityIds
<1>4. /\ GraphTypeOK
      /\ \A i \in EntityIds : Stored(i) => i \in SeedEntities
      /\ VectorsAreSound
  BY <1>3, GraphAssumption DEF GraphInit, GraphTypeOK, EntityIds, VectorsAreSound, Stored
<1>5. \A i \in EntityIds : Stored(i) => Settled(i)
  BY <1>4, GraphAssumption DEF Settled
<1> QED BY <1>1, <1>2, <1>4, <1>5 DEF GraphInv, GraphInit

LEMMA GraphStepKeepsInv ==
  ASSUME GraphInv, [GraphNext]_<<graphVars, callVars>> PROVE GraphInv'
<1>1. CASE UNCHANGED <<graphVars, callVars>>
  <2>1. ASSUME NEW c \in Calls PROVE GraphCallInv(c)'
    <3>1. From(c)' = From(c) /\ To(c)' = To(c)
      BY <1>1 DEF From, To, callVars
    <3>2. GraphCallInv(c)
      BY DEF GraphInv
    <3>3. LinkInv(c)'
      BY <1>1, <3>1, <3>2 DEF graphVars, callVars, GraphCallInv, LinkInv, EndIsOwn,
         Settled, Stored, At
    <3> QED BY <1>1, <3>2, <3>3 DEF graphVars, callVars, GraphCallInv, Stored, At
  <2>2. \A e \in edge : EdgeInv(e)'
    BY <1>1 DEF graphVars, callVars, GraphInv, EdgeInv, Settled, Stored, At
  <2> QED BY <1>1, <2>1, <2>2 DEF graphVars, callVars, GraphInv, GraphTypeOK, CallShape,
     Settled, Stored, At, VectorsAreSound
<1>2. ASSUME NEW c \in Calls, GraphStep(c) PROVE GraphInv'
  BY <1>2, ReadingOwnEntity, ReadingEntityAgain, PatchingEntity, DeletingEntity,
     ClearingEntities, ReadingEnds, StoringEdge, StoringEntity, ChoosingTargets,
     DeletingEdge, ShowingGraph DEF GraphStep
<1>3. ASSUME NEW c \in Calls, AbandonCall(c), UNCHANGED graphVars PROVE GraphInv'
  BY <1>3, GraphEnds DEF AbandonCall, Running
<1> QED BY <1>1, <1>2, <1>3, RequestingGraph DEF GraphNext

LEMMA GraphInvIsEnough == ASSUME GraphInv PROVE GraphsAreSound /\ EdgesAreOwn
<1>1. LeftoversHaveReasons /\ VectorsFollowTexts
  BY DEF GraphInv, EdgeInv, VectorsAreSound, LeftoversHaveReasons, VectorsFollowTexts
<1>2. EdgesAreOwn
  BY DEF GraphInv, EdgeInv, EdgesAreOwn
<1> QED BY <1>1, <1>2 DEF GraphsAreSound

LEMMA GraphInvHolds == GraphSpec => []GraphInv
<1>1. GraphInit /\ CallsInit => GraphInv BY GraphStart
<1>2. GraphInv /\ [GraphNext]_<<graphVars, callVars>> => GraphInv' BY GraphStepKeepsInv
<1> QED BY <1>1, <1>2, PTL DEF GraphSpec

(* Whatever entities, edges and contents are stored and deleted at once: an  *)
(* edge without an end, or a vector without its entity, has the reason that *)
(* LeftoversHaveReasons gives; no graph has a link to a node it does not    *)
(* show, and an entity has the vector of its text                           *)
(* (knowledge_relationship.rs:46, knowledge/handlers.rs:919,                *)
(* knowledge_entity.rs:315).                                                *)
THEOREM GraphsStaySound == GraphSpec => []GraphsAreSound
BY GraphInvHolds, GraphInvIsEnough, PTL

-----------------------------------------------------------------------------
(* Library *)

Uploads == Calls \X Parts

(* The row of f has been created *)
Made(f) == f = SeedFile \/ (f \in Uploads /\ part[f].file = f)

(* The file of an answer, an object of an undone upload and the like: what *)
(* there is of a file                                                      *)
FileInv(f) ==
  /\ file[f] # Nothing => Made(f)
  /\ f \in object /\ Made(f) => file[f] # Nothing
  /\ faults = 0 /\ f \in object /\ ~Made(f) => part[f].at \in {"create", "undo"}
  /\ faults = 0 /\ f \notin object /\ file[f] # Nothing =>
       \E c \in Calls : At(c, "delete", "row") /\ call[c].got = f

PartInv(p) ==
  /\ call[p[1]].at = "unused" => part[p] = NoPart
  /\ part[p].at \in {"none", "find", "put"} => p \notin object
  /\ part[p].at \in {"create", "undo"} => p \in object
  /\ part[p].at # "none" => part[p].digest \in Digests
  /\ part[p].at = "ok" <=> part[p].file # Nothing
  /\ part[p].file # Nothing => Made(part[p].file)

JobInv(k) ==
  /\ k \in FormJobs /\ call[k[1]].at = "unused" => job[k].row = "none"
  /\ job[k].row # "none" => job[k].owner \in Users
  /\ job[k].row \in {"none", "owed"} => job[k].work = "none"
  /\ k \in Uploads /\ job[k].row # "none" => part[k].at # "none"
  /\ k \in Uploads /\ job[k].row \notin {"none", "owed"} => job[k].file # Nothing
  /\ job[k].file # Nothing => Made(job[k].file)
  /\ job[k].work = "read" /\ job[k].file # Nothing => job[k].file \in object \cup raced

(* A request that has the content k to delete, or had it until it failed *)
Deletes(c, k) == /\ call[c].op = "delete" /\ call[c].key = k
                 /\ call[c].at \in {"row", "clear", "content", "failed"}

ContentInv(k) ==
  content[k] # Nothing =>
    /\ job[k].work = "over" /\ content[k].file = job[k].file
    /\ content[k].file # Nothing =>
         content[k].file \in object \cup raced \/ \E c \in Calls : Deletes(c, k)

(* The contents that a request takes no notice of when it deletes a file *)
OthersAreRaced(c) ==
  \A k \in Jobs : content[k] # Nothing /\ content[k].file = call[c].got /\ k # call[c].key =>
    call[c].got \in raced

DeleteInv(c) ==
  /\ call[c].key \in Jobs
  /\ call[c].at \in {"check", "file", "object", "row"} =>
       /\ call[c].got \in Files /\ Made(call[c].got)
       /\ job[call[c].key].work = "over" /\ call[c].got = job[call[c].key].file
  /\ call[c].at \in {"file", "object", "row"} => OthersAreRaced(c)
  /\ call[c].at = "row" => call[c].got \notin object

WatchInv(c) ==
  /\ call[c].key \in Jobs
  /\ job[call[c].key].row \notin {"none", "owed"}
  /\ call[c].at = "poll" => job[call[c].key].owner = call[c].user

UploadInv(c) ==
  /\ call[c].user \in Users
  /\ call[c].at \in {"payloads", "answered"} => \A i \in Parts : part[<<c, i>>].at \in {"none", "ok"}
  /\ call[c].at = "answered" => \A i \in Parts \cup {0} : job[<<c, i>>].row # "owed"

LibraryCallInv(c) ==
  /\ call[c].op = "delete" => DeleteInv(c)
  /\ call[c].op = "patch" => call[c].key \in Jobs
  /\ call[c].op = "serve" => /\ call[c].key \in Files
                             /\ call[c].at = "stream" => call[c].got = call[c].user
  /\ call[c].op \in {"deljob", "watch"} => WatchInv(c)
  /\ call[c].op \in {"form", "api"} => UploadInv(c)
  /\ call[c].page \subseteq {call[c].user}

RacesAreSeen == \A f \in Files : Held(f) /\ Doomed(f) => f \in raced

LibraryInv ==
  /\ LibraryTypeOK /\ CallShape /\ faults \in Nat
  /\ \A f \in Files : FileInv(f)
  /\ \A p \in Uploads : PartInv(p)
  /\ \A k \in Jobs : JobInv(k) /\ ContentInv(k)
  /\ \A c \in Calls : LibraryCallInv(c)
  /\ RacesAreSeen

-----------------------------------------------------------------------------
(* What a step does *)

MadeStays == \A f \in Files : Made(f) => Made(f)'

(* No file gets its object after its row *)
ObjectsMade == \A f \in Files : Made(f) /\ f \in object' => f \in object

(* A task that there is stays its owner's; one that is over keeps its file *)
JobsStay ==
  \A k \in Jobs :
    /\ job[k].row \notin {"none", "owed"} =>
         job'[k].row \notin {"none", "owed"} /\ job'[k].owner = job[k].owner
    /\ job[k].work = "over" => job'[k].work = "over" /\ job'[k].file = job[k].file

NewContents ==
  \A k \in Jobs : content'[k] # Nothing =>
    \/ content[k] # Nothing /\ content'[k].file = content[k].file
    \/ job[k].work = "read" /\ content'[k].file = job[k].file

(* Only the requests of M move, and no upload or task but theirs *)
OthersWait(M) ==
  \A d \in Calls \ M :
    /\ call'[d] = call[d]
    /\ \A i \in Parts : part'[<<d, i>>] = part[<<d, i>>]
    /\ \A i \in Parts \cup {0} : job[<<d, i>>].row # "owed" => job'[<<d, i>>].row # "owed"

FaultsCount == faults' \in Nat /\ (faults' = 0 => faults = 0)

RacesStay == raced \subseteq raced'

LEMMA RacesAreRecorded == SeeRaces => RacesStay /\ RacesAreSeen'
<1> SUFFICES ASSUME SeeRaces PROVE RacesStay /\ RacesAreSeen'
  OBVIOUS
<1>1. RacesStay
  BY DEF SeeRaces, RacesStay
<1>2. RacesAreSeen'
  BY DEF SeeRaces, RacesAreSeen, Files
<1> QED BY <1>1, <1>2

LEMMA OthersInv ==
  ASSUME LibraryInv, NEW M, OthersWait(M), MadeStays, ObjectsMade, JobsStay, NewContents,
         RacesStay, NEW d \in Calls \ M
  PROVE  LibraryCallInv(d)'
<1>1. call'[d] = call[d] /\ LibraryCallInv(d) /\ d \in Calls
  BY DEF OthersWait, LibraryInv
<1>2. ASSUME call[d].op = "delete" PROVE DeleteInv(d)'
  <2>1. DeleteInv(d)
    BY <1>1, <1>2 DEF LibraryCallInv
  <2>2. ASSUME call[d].at \in {"file", "object", "row"} PROVE OthersAreRaced(d)'
    <3>1. call[d].got \in Files /\ OthersAreRaced(d)
      BY <2>1, <2>2 DEF DeleteInv
    <3>2. SUFFICES ASSUME NEW k \in Jobs, content'[k] # Nothing,
                          content'[k].file = call[d].got, k # call[d].key
                   PROVE  call[d].got \in raced
      BY <1>1, <3>1 DEF OthersAreRaced, RacesStay
    <3>3. CASE content[k] # Nothing /\ content'[k].file = content[k].file
      BY <3>1, <3>2, <3>3 DEF OthersAreRaced
    <3>4. CASE job[k].work = "read" /\ content'[k].file = job[k].file
      <4>1. Held(call[d].got)
        BY <3>2, <3>4 DEF Held
      <4>2. Doomed(call[d].got)
        BY <1>1, <1>2, <2>2 DEF Doomed
      <4> QED BY <3>1, <4>1, <4>2 DEF LibraryInv, RacesAreSeen
    <3> QED BY <3>2, <3>3, <3>4 DEF NewContents
  <2>3. ASSUME call[d].at \in {"check", "file", "object", "row"}
        PROVE  /\ call'[d].got \in Files /\ Made(call[d].got)'
               /\ job'[call[d].key].work = "over" /\ call[d].got = job'[call[d].key].file
    <3>1. PICK g \in Files : g = call[d].got /\ Made(g)
      BY <2>1, <2>3 DEF DeleteInv
    <3>2. Made(g)' /\ call'[d].got = g
      BY <1>1, <3>1 DEF MadeStays
    <3>3. Made(call[d].got)'
      BY <3>2 DEF Made
    <3> QED BY <1>1, <2>1, <2>3, <3>1, <3>2, <3>3 DEF DeleteInv, JobsStay
  <2>4. call[d].at = "row" => call[d].got \notin object'
    BY <2>1 DEF DeleteInv, ObjectsMade
  <2> QED BY <1>1, <2>1, <2>2, <2>3, <2>4 DEF DeleteInv
<1>3. ASSUME call[d].op \in {"deljob", "watch"} PROVE WatchInv(d)'
  BY <1>1, <1>3 DEF LibraryCallInv, WatchInv, JobsStay
<1>4. ASSUME call[d].op \in {"form", "api"} PROVE UploadInv(d)'
  BY <1>1, <1>4 DEF LibraryCallInv, UploadInv, OthersWait
<1> QED BY <1>1, <1>2, <1>3, <1>4 DEF LibraryCallInv

LEMMA LibraryStepKeeps ==
  ASSUME LibraryInv, NEW M, OthersWait(M), MadeStays, ObjectsMade, JobsStay, NewContents,
         SeeRaces, FaultsCount, LibraryTypeOK', CallShape',
         \A c \in Calls \cap M : LibraryCallInv(c)',
         \A f \in Files : FileInv(f)', \A p \in Uploads : PartInv(p)',
         \A k \in Jobs : JobInv(k)' /\ ContentInv(k)'
  PROVE  LibraryInv'
<1>1. RacesStay /\ RacesAreSeen'
  BY RacesAreRecorded
<1>2. \A c \in Calls : LibraryCallInv(c)'
  BY <1>1, OthersInv
<1>3. /\ LibraryTypeOK' /\ CallShape' /\ faults' \in Nat
  BY DEF FaultsCount
<1> QED BY <1>1, <1>2, <1>3 DEF LibraryInv, Files, Uploads, Jobs, FormJobs

(* No request goes back, and one that deletes goes on until the content has gone *)
CallsGoOn ==
  \A d \in Calls :
    /\ call'[d].at = "unused" => call[d].at = "unused"
    /\ \A k \in Jobs : Deletes(d, k) => Deletes(d, k)' \/ content'[k] = Nothing

(* A row whose object has been deleted is not forgotten without a fault *)
RowsAreRemembered ==
  \A d \in Calls : At(d, "delete", "row") =>
    faults' # 0 \/ (At(d, "delete", "row")' /\ call'[d].got = call[d].got)

ObjectsStay == \A f \in Files : Made(f) /\ f \in object => f \in object'

UploadsGoOn == \A p \in Uploads : part[p].at # "none" => part'[p].at # "none"

LEMMA UploadKept ==
  ASSUME LibraryInv, CallsGoOn, NEW p \in Uploads, UNCHANGED part, p \in object' <=> p \in object
  PROVE  PartInv(p)'
<1>1. PartInv(p) /\ p[1] \in Calls
  BY DEF LibraryInv, Uploads
<1>2. Made(part[p].file)' <=> Made(part[p].file)
  BY DEF Made
<1> QED BY <1>1, <1>2 DEF PartInv, CallsGoOn

LEMMA FilesKept ==
  ASSUME LibraryInv, FaultsCount, CallsGoOn, RowsAreRemembered,
         UNCHANGED <<file, object, part>>
  PROVE  /\ MadeStays /\ ObjectsMade /\ ObjectsStay /\ UploadsGoOn
         /\ \A f \in Files : FileInv(f)'
         /\ \A p \in Uploads : PartInv(p)'
<1>1. \A f : Made(f)' <=> Made(f)
  BY DEF Made
<1>2. MadeStays /\ ObjectsMade /\ ObjectsStay /\ UploadsGoOn
  BY <1>1 DEF MadeStays, ObjectsMade, ObjectsStay, UploadsGoOn
<1>3. ASSUME NEW f \in Files PROVE FileInv(f)'
  <2>1. FileInv(f)
    BY DEF LibraryInv
  <2> QED BY <1>1, <2>1 DEF FileInv, FaultsCount, RowsAreRemembered
<1>4. \A p \in Uploads : PartInv(p)'
  BY UploadKept
<1> QED BY <1>2, <1>3, <1>4

(* What a task knows does not depend on the step *)
LEMMA JobKept ==
  ASSUME LibraryInv, CallsGoOn, MadeStays, RacesStay, UploadsGoOn, NEW k \in Jobs,
         job'[k] = job[k],
         job[k].work = "read" /\ job[k].file \in object => job[k].file \in object' \cup raced'
  PROVE  JobInv(k)'
<1>1. JobInv(k) /\ (k \in FormJobs => k[1] \in Calls)
  BY DEF LibraryInv, FormJobs
<1>2. job[k].file # Nothing => Made(job[k].file)'
  <2>1. PICK f : f = job[k].file
    OBVIOUS
  <2>2. f # Nothing => f \in Files /\ Made(f)
    BY <1>1, <2>1 DEF JobInv, Made, Files, Uploads
  <2>3. f # Nothing => Made(f)'
    BY <2>2 DEF MadeStays
  <2>4. job'[k].file = f
    BY <2>1
  <2> QED BY <2>1, <2>3, <2>4 DEF Made
<1> QED BY <1>1, <1>2 DEF JobInv, CallsGoOn, UploadsGoOn, RacesStay

LEMMA JobsKept ==
  ASSUME LibraryInv, CallsGoOn, MadeStays, RacesStay, UploadsGoOn, ObjectsStay, UNCHANGED job
  PROVE  JobsStay /\ \A k \in Jobs : JobInv(k)'
<1>1. JobsStay
  BY DEF JobsStay
<1>2. ASSUME NEW k \in Jobs PROVE JobInv(k)'
  <2>1. JobInv(k)
    BY DEF LibraryInv
  <2>2. job[k].file \in Files \/ job[k].file = Nothing
    BY DEF LibraryInv, LibraryTypeOK, JobStates
  <2>3. Nothing \notin object
    BY LibraryAssumption DEF LibraryInv, LibraryTypeOK
  <2>4. job[k].file \in object => job[k].file \in object'
    BY <2>1, <2>2, <2>3 DEF JobInv, ObjectsStay
  <2> QED BY <2>4, JobKept
<1> QED BY <1>1, <1>2

LEMMA ContentKept ==
  ASSUME LibraryInv, CallsGoOn, JobsStay, RacesStay, ObjectsStay, NEW k \in Jobs,
         content'[k] # Nothing => content[k] # Nothing /\ content'[k].file = content[k].file
  PROVE  ContentInv(k)'
<1>1. SUFFICES ASSUME content'[k] # Nothing PROVE ContentInv(k)'
  BY DEF ContentInv
<1>2. PICK f : /\ content'[k].file = f /\ content[k].file = f /\ content[k] # Nothing
               /\ ContentInv(k) /\ JobInv(k)
  BY <1>1 DEF LibraryInv
<1>3. job[k].work = "over" /\ job'[k].work = "over" /\ job'[k].file = f /\ job[k].file = f
  BY <1>2 DEF ContentInv, JobsStay
<1>4. f # Nothing => Made(f) /\ f \in Files
  BY <1>2, <1>3 DEF JobInv, Made, Files, Uploads
<1>5. f # Nothing => f \in object' \cup raced' \/ \E c \in Calls : Deletes(c, k)'
  BY <1>1, <1>2, <1>4 DEF ContentInv, ObjectsStay, RacesStay, CallsGoOn
<1> QED BY <1>1, <1>2, <1>3, <1>5 DEF ContentInv

LEMMA ContentsKept ==
  ASSUME LibraryInv, CallsGoOn, JobsStay, RacesStay, ObjectsStay, UNCHANGED content
  PROVE  NewContents /\ \A k \in Jobs : ContentInv(k)'
<1>1. NewContents
  BY DEF NewContents
<1>2. \A k \in Jobs : ContentInv(k)'
  BY ContentKept
<1> QED BY <1>1, <1>2

(* A step of one request that reads, or deletes chunks *)
LEMMA LibraryMoves ==
  ASSUME LibraryInv, NEW c \in Calls, Moves(c), SeeRaces, FaultsCount, CallsGoOn,
         RowsAreRemembered, UNCHANGED <<file, object, content, job, part>>, children' \subseteq Jobs,
         LibraryCallInv(c)'
  PROVE  LibraryInv'
<1>1. /\ MadeStays /\ ObjectsMade /\ ObjectsStay /\ UploadsGoOn
      /\ \A f \in Files : FileInv(f)'
      /\ \A p \in Uploads : PartInv(p)'
  BY FilesKept
<1>2. RacesStay
  BY RacesAreRecorded
<1>3. JobsStay /\ \A k \in Jobs : JobInv(k)'
  BY <1>1, <1>2, JobsKept
<1>4. NewContents /\ \A k \in Jobs : ContentInv(k)'
  BY <1>1, <1>2, <1>3, ContentsKept
<1>5. OthersWait({c})
  BY DEF OthersWait, Moves
<1>6. LibraryTypeOK' /\ CallShape'
  BY ShapeStays DEF LibraryInv, LibraryTypeOK
<1> QED BY <1>1, <1>3, <1>4, <1>5, <1>6, LibraryStepKeeps

(* How c may go on without a fault: to the next statement, with what it has *)
LEMMA CallGoesOn ==
  ASSUME LibraryInv, NEW c \in Calls, GoesOn(c), call[c].at # "unused", call'[c].at # "unused",
         call[c].op = "delete" => call[c].at # "row",
         call[c].op = "delete" /\ call[c].at \in {"clear", "content", "failed"} =>
           call'[c].at \in {"row", "clear", "content", "failed"}
  PROVE  CallsGoOn /\ RowsAreRemembered
BY DEF CallsGoOn, RowsAreRemembered, Deletes, At, GoesOn, Moves

LEMMA LibraryGoesOn ==
  ASSUME LibraryInv, NEW c \in Calls, GoesOn(c), SeeRaces, FaultsCount,
         UNCHANGED <<file, object, content, job, part>>, children' \subseteq Jobs,
         call[c].at # "unused", call'[c].at # "unused",
         call[c].op = "delete" => call[c].at # "row",
         call[c].op = "delete" /\ call[c].at \in {"clear", "content", "failed"} =>
           call'[c].at \in {"row", "clear", "content", "failed"},
         LibraryCallInv(c)'
  PROVE  LibraryInv'
BY CallGoesOn, LibraryMoves DEF GoesOn

LEMMA LibraryEnds ==
  ASSUME LibraryInv, NEW c \in Calls, SeeRaces, FaultsCount, call[c].at # "unused",
         call[c].op = "delete" => call[c].at \in {"read", "list"},
         UNCHANGED <<file, object, content, children, job, part>>,
         \/ Refuses(c) \/ Fails(c)
         \/ call[c].op \notin {"form", "api"} /\ \E o \in SUBSET {call[c].user} : Answers(c, o)
  PROVE  LibraryInv'
<1>1. CallShape /\ LibraryCallInv(c) /\ LibraryTypeOK
  BY DEF LibraryInv
<1>2. /\ GoesOn(c) /\ call'[c].at \in Ends /\ call'[c].page \subseteq {call[c].user}
      /\ call'[c].at = "answered" => call[c].op \notin {"form", "api"}
  <2>1. CASE Refuses(c) \/ Fails(c)
    BY <1>1, <2>1, ReadsFields DEF Refuses, Fails, LibraryCallInv, Ends
  <2>2. ASSUME NEW o \in SUBSET {call[c].user}, call[c].op \notin {"form", "api"}, Answers(c, o)
        PROVE  /\ GoesOn(c) /\ call'[c].at = "answered" /\ call'[c].page = o
    BY <1>1, <2>2, AnswersFields
  <2> QED BY <2>1, <2>2 DEF Ends
<1>3. CallsGoOn /\ RowsAreRemembered
  BY <1>2, CallGoesOn DEF Ends
<1>4. LibraryCallInv(c)'
  BY <1>1, <1>2 DEF LibraryCallInv, DeleteInv, WatchInv, UploadInv, GoesOn, Ends
<1> QED BY <1>1, <1>2, <1>3, <1>4, LibraryMoves DEF GoesOn, LibraryTypeOK

LEMMA AbandoningLibraryCall ==
  ASSUME LibraryInv, NEW c \in Calls, SeeRaces, AbandonLibraryCall(c) PROVE LibraryInv'
<1>1. /\ CallShape /\ LibraryCallInv(c) /\ LibraryTypeOK /\ faults \in Nat
      /\ UNCHANGED <<file, object, content, children, job, part>>
      /\ Running(c) /\ Fault /\ Fails(c)
  BY DEF LibraryInv, AbandonLibraryCall, AbandonCall
<1>2. FaultsCount /\ faults' # 0
  BY <1>1 DEF Fault, FaultsCount
<1>3. /\ GoesOn(c) /\ call'[c].at = "failed" /\ call'[c].page = call[c].page
      /\ call[c].at # "unused"
  BY <1>1, ReadsFields DEF Fails, Running
<1>4. CallsGoOn /\ RowsAreRemembered
  BY <1>2, <1>3 DEF CallsGoOn, RowsAreRemembered, Deletes, At, GoesOn, Moves
<1>5. LibraryCallInv(c)'
  BY <1>1, <1>3 DEF LibraryCallInv, DeleteInv, WatchInv, UploadInv, GoesOn
<1> QED BY <1>1, <1>2, <1>3, <1>4, <1>5, LibraryMoves DEF GoesOn, LibraryTypeOK

LEMMA RequestingLibrary ==
  ASSUME LibraryInv, NEW c \in Calls, NEW u \in Users, SeeRaces, Request(c, u)
  PROVE  LibraryInv'
<1>1. CallShape /\ LibraryTypeOK /\ FaultsCount
      /\ UNCHANGED <<file, object, content, children, job, part>>
  BY DEF LibraryInv, FaultsCount, Request
<1>2. ASSUME NEW o, NEW k, NEW s, Starts(c, o, u, k, s),
             s \in {"read", "open", "list"}, o \notin {"form", "api"},
             o \in {"delete", "patch"} => k \in Jobs,
             o = "serve" => k \in Files,
             o \in {"deljob", "watch"} => k \in Jobs /\ job[k].row = "queued"
      PROVE  LibraryInv'
  <2>1. /\ Moves(c) /\ call[c].at = "unused"
        /\ call'[c].op = o /\ call'[c].at = s /\ call'[c].user = u
        /\ call'[c].key = k /\ call'[c].page = {}
    BY <1>1, <1>2, StartsFields
  <2>2. CallsGoOn /\ RowsAreRemembered
    BY <1>2, <2>1 DEF CallsGoOn, RowsAreRemembered, Deletes, At, Moves
  <2>3. LibraryCallInv(c)'
    BY <1>1, <1>2, <2>1 DEF LibraryCallInv, DeleteInv, WatchInv
  <2> QED BY <1>1, <2>1, <2>2, <2>3, LibraryMoves DEF LibraryTypeOK
<1> QED BY <1>2 DEF Request

(* The statements that only read *)
LEMMA UploadsEnding ==
  ASSUME LibraryInv, NEW c \in Calls, SeeRaces, UploadsDone(c) \/ NothingToIngest(c)
  PROVE  LibraryInv'
<1>1. CallShape /\ LibraryCallInv(c) /\ LibraryTypeOK /\ FaultsCount
      /\ UNCHANGED <<file, object, content, children, job, part>>
      /\ call[c].op \in {"form", "api"} /\ call[c].at # "unused"
  BY DEF LibraryInv, FaultsCount, UploadsDone, NothingToIngest
<1>2. CASE NothingToIngest(c)
  BY <1>1, <1>2, LibraryEnds DEF NothingToIngest
<1>3. CASE UploadsDone(c)
  <2>1. GoesOn(c) /\ call'[c].at = "payloads" /\ call'[c].page = call[c].page
    BY <1>1, <1>3, GotoFields DEF UploadsDone
  <2>2. LibraryCallInv(c)'
    BY <1>1, <1>3, <2>1 DEF LibraryCallInv, UploadInv, GoesOn, UploadsDone
  <2> QED BY <1>1, <2>1, <2>2, LibraryGoesOn DEF LibraryTypeOK
<1> QED BY <1>2, <1>3

LEMMA ReadingDoomedContent ==
  ASSUME LibraryInv, NEW c \in Calls, SeeRaces, ReadDoomedContent(c) PROVE LibraryInv'
<1>1. CallShape /\ LibraryCallInv(c) /\ LibraryTypeOK /\ FaultsCount
      /\ UNCHANGED <<file, object, content, children, job, part>>
      /\ call[c].op = "delete" /\ call[c].at = "read"
  BY DEF LibraryInv, FaultsCount, ReadDoomedContent, At
<1>2. CASE Refuses(c)
  BY <1>1, <1>2, LibraryEnds
<1>3. ASSUME NEW f, NEW s, content[call[c].key] # Nothing, f = content[call[c].key].file,
             s = IF f = Nothing THEN "clear" ELSE "check", Reads(c, f, s)
      PROVE  LibraryInv'
  <2>1. /\ GoesOn(c) /\ call'[c].at = s /\ call'[c].got = f /\ call'[c].page = call[c].page
    BY <1>1, <1>3, ReadsFields
  <2>2. PICK k \in Jobs : call[c].key = k /\ ContentInv(k) /\ JobInv(k)
    BY <1>1 DEF LibraryCallInv, DeleteInv, LibraryInv
  <2>3. f # Nothing => f \in Files /\ Made(f) /\ job[k].work = "over" /\ f = job[k].file
    BY <1>3, <2>2 DEF ContentInv, JobInv, Made, Files, Uploads
  <2>4. f # Nothing => Made(f)'
    BY <1>1, <2>3 DEF Made
  <2>5. DeleteInv(c)'
    BY <1>1, <1>3, <2>1, <2>2, <2>3, <2>4 DEF DeleteInv, GoesOn, Made
  <2>6. LibraryCallInv(c)'
    BY <1>1, <2>1, <2>5 DEF LibraryCallInv, GoesOn
  <2> QED BY <1>1, <1>3, <2>1, <2>6, LibraryGoesOn DEF LibraryTypeOK
<1> QED BY <1>1, <1>2, <1>3 DEF ReadDoomedContent

LEMMA CheckingFileInUse ==
  ASSUME LibraryInv, NEW c \in Calls, SeeRaces, CheckFileInUse(c) PROVE LibraryInv'
<1>1. CallShape /\ LibraryCallInv(c) /\ LibraryTypeOK /\ FaultsCount
      /\ UNCHANGED <<file, object, content, children, job, part>>
      /\ call[c].op = "delete" /\ call[c].at = "check"
  BY DEF LibraryInv, FaultsCount, CheckFileInUse, At
<1>2. PICK s \in {"clear", "file"} :
        /\ Goto(c, s) /\ (s = "file" => ~HasOtherWithFile(call[c].got, call[c].key))
  BY DEF CheckFileInUse
<1>3. GoesOn(c) /\ call'[c].at = s /\ call'[c].got = call[c].got /\ call'[c].page = call[c].page
  BY <1>1, <1>2, GotoFields
<1>4. s = "file" => OthersAreRaced(c)'
  BY <1>1, <1>2, <1>3 DEF OthersAreRaced, HasOtherWithFile, GoesOn
<1>5. DeleteInv(c)'
  BY <1>1, <1>3, <1>4 DEF LibraryCallInv, DeleteInv, GoesOn, Made
<1>6. LibraryCallInv(c)'
  BY <1>1, <1>3, <1>5 DEF LibraryCallInv, GoesOn
<1> QED BY <1>1, <1>3, <1>6, LibraryGoesOn DEF LibraryTypeOK

LEMMA ReadingDoomedFile ==
  ASSUME LibraryInv, NEW c \in Calls, SeeRaces, ReadDoomedFile(c) PROVE LibraryInv'
<1>1. CallShape /\ LibraryCallInv(c) /\ LibraryTypeOK /\ FaultsCount
      /\ UNCHANGED <<file, object, content, children, job, part>>
      /\ call[c].op = "delete" /\ call[c].at = "file"
  BY DEF LibraryInv, FaultsCount, ReadDoomedFile, At
<1>2. PICK s \in {"clear", "object"} : Goto(c, s)
  BY DEF ReadDoomedFile
<1>3. GoesOn(c) /\ call'[c].at = s /\ call'[c].got = call[c].got /\ call'[c].page = call[c].page
  BY <1>1, <1>2, GotoFields
<1>4. RacesStay
  BY RacesAreRecorded
<1>5. OthersAreRaced(c)'
  BY <1>1, <1>3, <1>4 DEF LibraryCallInv, DeleteInv, OthersAreRaced, GoesOn, RacesStay
<1>6. DeleteInv(c)'
  BY <1>1, <1>3, <1>5 DEF LibraryCallInv, DeleteInv, GoesOn, Made
<1>7. LibraryCallInv(c)'
  BY <1>1, <1>3, <1>6 DEF LibraryCallInv, GoesOn
<1> QED BY <1>1, <1>3, <1>7, LibraryGoesOn DEF LibraryTypeOK

LEMMA ClearingChildren ==
  ASSUME LibraryInv, NEW c \in Calls, SeeRaces, ClearChildren(c) PROVE LibraryInv'
<1>1. CallShape /\ LibraryCallInv(c) /\ LibraryTypeOK /\ FaultsCount
      /\ UNCHANGED <<file, object, content, job, part>>
      /\ call[c].op = "delete" /\ call[c].at = "clear" /\ children' \subseteq children
  BY DEF LibraryInv, FaultsCount, ClearChildren, At
<1>2. GoesOn(c) /\ call'[c].at = "content" /\ call'[c].page = call[c].page
  BY <1>1, GotoFields DEF ClearChildren
<1>3. LibraryCallInv(c)'
  BY <1>1, <1>2 DEF LibraryCallInv, DeleteInv, GoesOn
<1> QED BY <1>1, <1>2, <1>3, LibraryGoesOn DEF LibraryTypeOK

LEMMA ReadingPatchedContent ==
  ASSUME LibraryInv, NEW c \in Calls, SeeRaces, ReadPatchedContent(c) PROVE LibraryInv'
<1>1. CallShape /\ LibraryCallInv(c) /\ LibraryTypeOK /\ FaultsCount
      /\ UNCHANGED <<file, object, content, children, job, part>>
      /\ call[c].op = "patch" /\ call[c].at = "read"
  BY DEF LibraryInv, FaultsCount, ReadPatchedContent, At
<1>2. CASE Refuses(c)
  BY <1>1, <1>2, LibraryEnds
<1>3. CASE Goto(c, "patch")
  <2>1. GoesOn(c) /\ call'[c].at = "patch" /\ call'[c].page = call[c].page
    BY <1>1, <1>3, GotoFields
  <2>2. LibraryCallInv(c)'
    BY <1>1, <2>1 DEF LibraryCallInv, GoesOn
  <2> QED BY <1>1, <2>1, <2>2, LibraryGoesOn DEF LibraryTypeOK
<1> QED BY <1>2, <1>3 DEF ReadPatchedContent

LEMMA ListingContents ==
  ASSUME LibraryInv, NEW c \in Calls, SeeRaces, ListContents(c) PROVE LibraryInv'
<1>1. OwnersListed(call[c].user) \in SUBSET {call[c].user}
  BY DEF OwnersListed
<1> QED BY <1>1, LibraryEnds DEF ListContents, FaultsCount, LibraryInv

LEMMA ServingFile ==
  ASSUME LibraryInv, NEW c \in Calls, SeeRaces, ReadServedFile(c) \/ StreamFile(c)
  PROVE  LibraryInv'
<1>1. CallShape /\ LibraryCallInv(c) /\ LibraryTypeOK /\ FaultsCount
      /\ UNCHANGED <<file, object, content, children, job, part>>
      /\ call[c].op = "serve" /\ call[c].at \in {"read", "stream"}
  BY DEF LibraryInv, FaultsCount, ReadServedFile, StreamFile, At
<1>2. CASE Refuses(c)
  BY <1>1, <1>2, LibraryEnds
<1>3. CASE Reads(c, call[c].user, "stream")
  <2>1. /\ GoesOn(c) /\ call'[c].at = "stream" /\ call'[c].got = call[c].user
        /\ call'[c].page = call[c].page
    BY <1>1, <1>3, ReadsFields
  <2>2. LibraryCallInv(c)'
    BY <1>1, <2>1 DEF LibraryCallInv, GoesOn
  <2> QED BY <1>1, <2>1, <2>2, LibraryGoesOn DEF LibraryTypeOK
<1>4. CASE call[c].at = "stream" /\ Answers(c, {call[c].got})
  <2>1. {call[c].got} \in SUBSET {call[c].user}
    BY <1>1, <1>4 DEF LibraryCallInv
  <2> QED BY <1>1, <1>4, <2>1, LibraryEnds
<1> QED BY <1>2, <1>3, <1>4 DEF ReadServedFile, StreamFile, At

LEMMA WatchingTask ==
  ASSUME LibraryInv, NEW c \in Calls, SeeRaces,
         ReadDoomedJob(c) \/ OpenTaskStream(c) \/ PollTask(c) \/ PollFails(c)
  PROVE  LibraryInv'
<1>1. CallShape /\ LibraryCallInv(c) /\ LibraryTypeOK
      /\ UNCHANGED <<file, object, content, children, job, part>>
      /\ call[c].op \in {"deljob", "watch"} /\ call[c].at \in {"read", "open", "poll"}
  BY DEF LibraryInv, ReadDoomedJob, OpenTaskStream, PollTask, PollFails, At
<1>2. FaultsCount
  BY DEF FaultsCount, LibraryInv, ReadDoomedJob, OpenTaskStream, PollTask, PollFails, Fault
<1>3. CASE Refuses(c) \/ Fails(c)
  BY <1>1, <1>2, <1>3, LibraryEnds
<1>4. ASSUME NEW r, NEW s \in {"delete", "poll"}, Goto(c, s) \/ Reads(c, r, s),
             s = "poll" => job[call[c].key].owner = call[c].user
      PROVE  LibraryInv'
  <2>1. GoesOn(c) /\ call'[c].at = s /\ call'[c].page = call[c].page
    BY <1>1, <1>4, GotoFields, ReadsFields
  <2>2. LibraryCallInv(c)'
    BY <1>1, <1>4, <2>1 DEF LibraryCallInv, WatchInv, GoesOn
  <2> QED BY <1>1, <1>2, <2>1, <2>2, LibraryGoesOn DEF LibraryTypeOK
<1>5. CASE call[c].op = "watch" /\ call[c].at = "poll"
           /\ Answers(c, {job[call[c].key].owner})
  <2>1. {job[call[c].key].owner} \in SUBSET {call[c].user}
    BY <1>1, <1>5 DEF LibraryCallInv, WatchInv
  <2> QED BY <1>1, <1>2, <1>5, <2>1, LibraryEnds
<1>6. call[c].at = "poll" => job[call[c].key].owner = call[c].user
  BY <1>1 DEF LibraryCallInv, WatchInv
<1>7. CASE ReadDoomedJob(c)
  BY <1>3, <1>4, <1>7 DEF ReadDoomedJob
<1>8. CASE OpenTaskStream(c)
  BY <1>3, <1>4, <1>8 DEF OpenTaskStream
<1>9. CASE PollTask(c)
  BY <1>3, <1>4, <1>5, <1>6, <1>9 DEF PollTask, At
<1>10. CASE PollFails(c)
  BY <1>3, <1>4, <1>6, <1>10 DEF PollFails, At
<1> QED BY <1>7, <1>8, <1>9, <1>10

-----------------------------------------------------------------------------
(* The statements that change contents and files *)
LEMMA ContentChanges ==
  ASSUME LibraryInv, NEW c \in Calls, SeeRaces, UNCHANGED <<file, object, children, job, part, faults>>,
         call[c].op \in {"patch", "delete"}, GoesOn(c), call'[c].at = "list",
         call'[c].page = call[c].page, call[c].at # "unused",
         content' \in [Jobs -> ContentRows \cup {Nothing}],
         \A k \in Jobs : content'[k] # Nothing =>
           content[k] # Nothing /\ content'[k].file = content[k].file,
         call[c].op = "delete" => call[c].at = "content" /\ content'[call[c].key] = Nothing
  PROVE  LibraryInv'
<1>1. FaultsCount /\ CallsGoOn /\ RowsAreRemembered
  BY DEF LibraryInv, FaultsCount, CallsGoOn, RowsAreRemembered, Deletes, At, GoesOn, Moves
<1>2. RacesStay
  BY RacesAreRecorded
<1>3. /\ MadeStays /\ ObjectsMade /\ ObjectsStay /\ UploadsGoOn
      /\ \A f \in Files : FileInv(f)'
      /\ \A p \in Uploads : PartInv(p)'
  BY <1>1, FilesKept
<1>4. JobsStay /\ \A k \in Jobs : JobInv(k)'
  BY <1>1, <1>2, <1>3, JobsKept
<1>5. NewContents /\ \A k \in Jobs : ContentInv(k)'
  BY <1>1, <1>2, <1>3, <1>4, ContentKept DEF NewContents
<1>6. LibraryCallInv(c)'
  BY DEF LibraryInv, LibraryCallInv, DeleteInv, GoesOn
<1>7. OthersWait({c})
  BY DEF OthersWait, GoesOn, Moves
<1>8. LibraryTypeOK' /\ CallShape'
  BY ShapeStays DEF LibraryInv, LibraryTypeOK, GoesOn
<1> QED BY <1>1, <1>3, <1>4, <1>5, <1>6, <1>7, <1>8, LibraryStepKeeps

LEMMA PatchingContent ==
  ASSUME LibraryInv, NEW c \in Calls, SeeRaces, PatchContent(c) PROVE LibraryInv'
<1>1. CallShape /\ LibraryCallInv(c) /\ LibraryTypeOK /\ FaultsCount
      /\ UNCHANGED <<file, object, children, job, part, faults>>
      /\ call[c].op = "patch" /\ call[c].at = "patch"
  BY DEF LibraryInv, FaultsCount, PatchContent, At
<1>2. CASE UNCHANGED content /\ Refuses(c)
  BY <1>1, <1>2, LibraryEnds
<1>3. ASSUME NEW k \in Jobs, k = call[c].key, content[k] # Nothing, Goto(c, "list"),
             content' = [content EXCEPT ![k].edited = TRUE]
      PROVE  LibraryInv'
  <2>1. content[k] \in ContentRows
    BY <1>1, <1>3 DEF LibraryTypeOK
  <2>2. /\ content'[k] = [content[k] EXCEPT !.edited = TRUE]
        /\ \A j \in Jobs \ {k} : content'[j] = content[j]
    BY <1>1, <1>3 DEF LibraryTypeOK
  <2>3. content'[k] \in ContentRows /\ content'[k].file = content[k].file
    BY <2>1, <2>2 DEF ContentRows
  <2>4. content' \in [Jobs -> ContentRows \cup {Nothing}]
    BY <1>1, <1>3, <2>2, <2>3 DEF LibraryTypeOK
  <2>5. GoesOn(c) /\ call'[c].at = "list" /\ call'[c].page = call[c].page
    BY <1>1, <1>3, GotoFields
  <2> QED BY <1>1, <1>3, <2>2, <2>3, <2>4, <2>5, ContentChanges
<1>4. call[c].key \in Jobs
  BY <1>1 DEF LibraryCallInv
<1> QED BY <1>2, <1>3, <1>4 DEF PatchContent

LEMMA DeletingContentRow ==
  ASSUME LibraryInv, NEW c \in Calls, SeeRaces, DeleteContentRow(c) PROVE LibraryInv'
<1>1. CallShape /\ LibraryCallInv(c) /\ LibraryTypeOK
      /\ UNCHANGED <<file, object, children, job, part, faults>>
      /\ call[c].op = "delete" /\ call[c].at = "content" /\ call[c].key \in Jobs
      /\ content' = [content EXCEPT ![call[c].key] = Nothing]
  BY DEF LibraryInv, LibraryCallInv, DeleteInv, DeleteContentRow, At
<1>2. /\ content' \in [Jobs -> ContentRows \cup {Nothing}]
      /\ content'[call[c].key] = Nothing
      /\ \A k \in Jobs \ {call[c].key} : content'[k] = content[k]
  BY <1>1 DEF LibraryTypeOK
<1>3. GoesOn(c) /\ call'[c].at = "list" /\ call'[c].page = call[c].page
  BY <1>1, GotoFields DEF DeleteContentRow
<1> QED BY <1>1, <1>2, <1>3, ContentChanges

LEMMA DeletingObject ==
  ASSUME LibraryInv, NEW c \in Calls, SeeRaces, DeleteObject(c) PROVE LibraryInv'
<1>1. PICK f \in Files :
        /\ f = call[c].got /\ Made(f) /\ object' = object \ {f} /\ Goto(c, "row")
        /\ CallShape /\ LibraryTypeOK /\ LibraryCallInv(c) /\ DeleteInv(c)
        /\ UNCHANGED <<file, content, children, job, part, faults>>
        /\ call[c].op = "delete" /\ call[c].at = "object"
  BY DEF LibraryInv, LibraryCallInv, DeleteInv, DeleteObject, At
<1>2. /\ GoesOn(c) /\ call'[c].at = "row" /\ call'[c].got = f
      /\ call'[c].page = call[c].page
  BY <1>1, GotoFields
<1>3. FaultsCount /\ CallsGoOn /\ RowsAreRemembered
  BY <1>1, <1>2
     DEF LibraryInv, FaultsCount, CallsGoOn, RowsAreRemembered, Deletes, At, GoesOn, Moves
<1>4. RacesStay
  BY RacesAreRecorded
<1>5. \A g : Made(g)' <=> Made(g)
  BY <1>1 DEF Made
<1>6. MadeStays /\ ObjectsMade /\ UploadsGoOn /\ JobsStay /\ NewContents
  BY <1>1, <1>5 DEF MadeStays, ObjectsMade, UploadsGoOn, JobsStay, NewContents
<1>7. ASSUME NEW g \in Files PROVE FileInv(g)'
  <2>1. FileInv(g)
    BY DEF LibraryInv
  <2>2. (At(c, "delete", "row") /\ call[c].got = f)'
    BY <1>1, <1>2 DEF At, GoesOn
  <2>3. g # f => (g \in object' <=> g \in object)
    BY <1>1
  <2>4. CASE g = f
    BY <1>1, <1>5, <2>1, <2>2, <2>4 DEF FileInv
  <2>5. CASE g # f
    BY <1>1, <1>3, <1>5, <2>1, <2>3, <2>5 DEF FileInv, FaultsCount, RowsAreRemembered
  <2> QED BY <2>4, <2>5
<1>8. ASSUME NEW p \in Uploads PROVE PartInv(p)'
  <2>1. PartInv(p) /\ p[1] \in Calls
    BY DEF LibraryInv, Uploads
  <2>2. Made(part[p].file)' <=> Made(part[p].file)
    BY <1>1 DEF Made
  <2>3. Nothing # p
    BY LibraryAssumption DEF Files, Uploads
  <2>4. p = f => part[p].at = "ok"
    BY <1>1, <2>1, <2>3, LibraryAssumption DEF PartInv, Made, Uploads
  <2> QED BY <1>1, <1>3, <2>1, <2>2, <2>4 DEF PartInv, CallsGoOn
<1>9. ASSUME NEW k \in Jobs PROVE JobInv(k)'
  <2>1. job[k].work = "read" /\ job[k].file = f => f \in raced
    BY <1>1 DEF LibraryInv, RacesAreSeen, Held, Doomed
  <2> QED BY <1>1, <1>3, <1>4, <1>6, <2>1, JobKept DEF RacesStay
<1>10. ASSUME NEW k \in Jobs PROVE ContentInv(k)'
  <2>1. SUFFICES ASSUME content[k] # Nothing PROVE ContentInv(k)'
    BY <1>1 DEF ContentInv
  <2>2. PICK g : g = content[k].file /\ ContentInv(k)
    BY DEF LibraryInv
  <2>3. CASE g = f /\ k = call[c].key
    <3>1. Deletes(c, k)'
      BY <1>1, <1>2, <2>3 DEF Deletes, GoesOn
    <3> QED BY <1>1, <2>1, <2>2, <3>1 DEF ContentInv
  <2>4. CASE g = f /\ k # call[c].key
    <3>1. f \in raced'
      BY <1>1, <1>4, <2>1, <2>2, <2>4 DEF DeleteInv, OthersAreRaced, RacesStay
    <3> QED BY <1>1, <2>1, <2>2, <2>4, <3>1 DEF ContentInv
  <2>5. CASE g # f
    <3>1. g # Nothing => g \in object' \cup raced' \/ \E d \in Calls : Deletes(d, k)'
      BY <1>1, <1>3, <1>4, <2>1, <2>2, <2>5 DEF ContentInv, CallsGoOn, RacesStay
    <3> QED BY <1>1, <2>1, <2>2, <3>1 DEF ContentInv
  <2> QED BY <2>3, <2>4, <2>5
<1>11. LibraryCallInv(c)'
  <2>1. OthersAreRaced(c)'
    BY <1>1, <1>2, <1>4 DEF DeleteInv, OthersAreRaced, GoesOn, RacesStay
  <2>2. Made(call[c].got)'
    BY <1>1, <1>2 DEF Made
  <2>3. DeleteInv(c)'
    BY <1>1, <1>2, <2>1, <2>2 DEF DeleteInv, GoesOn
  <2> QED BY <1>1, <1>2, <2>3 DEF LibraryCallInv, GoesOn
<1>12. OthersWait({c})
  BY <1>1, <1>2 DEF OthersWait, GoesOn, Moves
<1>13. LibraryTypeOK' /\ CallShape'
  BY <1>1, <1>2, ShapeStays DEF LibraryTypeOK, GoesOn
<1> QED
  BY <1>3, <1>6, <1>7, <1>8, <1>9, <1>10, <1>11, <1>12, <1>13, LibraryStepKeeps

LEMMA DeletingFileRow ==
  ASSUME LibraryInv, NEW c \in Calls, SeeRaces, DeleteFileRow(c) PROVE LibraryInv'
<1>1. PICK f \in Files :
        /\ f = call[c].got /\ Made(f) /\ f \notin object /\ Goto(c, "clear")
        /\ file' = [file EXCEPT ![f] = Nothing]
        /\ CallShape /\ LibraryTypeOK /\ LibraryCallInv(c) /\ DeleteInv(c)
        /\ UNCHANGED <<object, content, children, job, part, faults>>
        /\ call[c].op = "delete" /\ call[c].at = "row"
  BY DEF LibraryInv, LibraryCallInv, DeleteInv, DeleteFileRow, At
<1>2. /\ GoesOn(c) /\ call'[c].at = "clear" /\ call'[c].got = f
      /\ call'[c].page = call[c].page
  BY <1>1, GotoFields
<1>3. FaultsCount /\ CallsGoOn
  BY <1>1, <1>2 DEF LibraryInv, FaultsCount, CallsGoOn, Deletes, GoesOn, Moves
<1>4. RacesStay
  BY RacesAreRecorded
<1>5. \A g : Made(g)' <=> Made(g)
  BY <1>1 DEF Made
<1>6. MadeStays /\ ObjectsMade /\ ObjectsStay /\ UploadsGoOn
  BY <1>1, <1>5 DEF MadeStays, ObjectsMade, ObjectsStay, UploadsGoOn
<1>7. /\ file'[f] = Nothing /\ \A g \in Files \ {f} : file'[g] = file[g]
      /\ file' \in [Files -> FileRows \cup {Nothing}]
  BY <1>1 DEF LibraryTypeOK
<1>8. ASSUME NEW g \in Files PROVE FileInv(g)'
  <2>1. FileInv(g)
    BY DEF LibraryInv
  <2>2. CASE g = f
    BY <1>1, <1>5, <1>7, <2>1, <2>2 DEF FileInv
  <2>3. CASE g # f
    <3>1. \A d \in Calls : At(d, "delete", "row") /\ call[d].got = g =>
            (At(d, "delete", "row") /\ call[d].got = g)'
      BY <1>1, <1>2, <2>3 DEF At, GoesOn, Moves
    <3> QED BY <1>1, <1>5, <1>7, <2>1, <2>3, <3>1 DEF FileInv
  <2> QED BY <2>2, <2>3
<1>9. \A p \in Uploads : PartInv(p)'
  BY <1>1, <1>3, UploadKept
<1>10. JobsStay /\ \A k \in Jobs : JobInv(k)'
  BY <1>1, <1>3, <1>4, <1>6, JobsKept
<1>11. NewContents /\ \A k \in Jobs : ContentInv(k)'
  BY <1>1, <1>3, <1>4, <1>6, <1>10, ContentsKept
<1>12. LibraryCallInv(c)'
  BY <1>1, <1>2 DEF LibraryCallInv, DeleteInv, GoesOn
<1>13. OthersWait({c})
  BY <1>1, <1>2 DEF OthersWait, GoesOn, Moves
<1>14. LibraryTypeOK' /\ CallShape'
  BY <1>1, <1>2, <1>7, ShapeStays DEF LibraryTypeOK, GoesOn
<1> QED
  BY <1>3, <1>6, <1>8, <1>9, <1>10, <1>11, <1>12, <1>13, <1>14, LibraryStepKeeps

-----------------------------------------------------------------------------
(* The statements that change one task *)
LEMMA TaskChanges ==
  ASSUME LibraryInv, NEW M, OthersWait(M), SeeRaces, FaultsCount, CallsGoOn, RowsAreRemembered,
         UNCHANGED <<file, object, part>>, NEW k \in Jobs,
         \A j \in Jobs \ {k} : job'[j] = job[j] /\ content'[j] = content[j],
         JobsStay, NewContents, LibraryTypeOK', CallShape', JobInv(k)', ContentInv(k)',
         \A c \in Calls \cap M : LibraryCallInv(c)'
  PROVE  LibraryInv'
<1>1. /\ MadeStays /\ ObjectsMade /\ ObjectsStay /\ UploadsGoOn
      /\ \A f \in Files : FileInv(f)'
      /\ \A p \in Uploads : PartInv(p)'
  BY FilesKept
<1>2. RacesStay
  BY RacesAreRecorded
<1>3. \A j \in Jobs : JobInv(j)'
  BY <1>1, <1>2, JobKept
<1>4. \A j \in Jobs : ContentInv(j)'
  BY <1>1, <1>2, ContentKept
<1> QED BY <1>1, <1>3, <1>4, LibraryStepKeeps

LEMMA DeletingJobRow ==
  ASSUME LibraryInv, NEW c \in Calls, SeeRaces, DeleteJobRow(c) PROVE LibraryInv'
<1>1. PICK k \in Jobs :
        /\ k = call[c].key /\ job[k].row \notin {"none", "owed"}
        /\ job' = [job EXCEPT ![k].row = "gone",
                     ![k].work = IF @ = "waiting" THEN "over" ELSE @]
        /\ CallShape /\ LibraryTypeOK /\ LibraryCallInv(c)
        /\ UNCHANGED <<file, object, content, children, part, faults>>
        /\ call[c].op = "deljob" /\ call[c].at = "delete" /\ Answers(c, {})
  BY DEF LibraryInv, LibraryCallInv, WatchInv, DeleteJobRow, At
<1>2. GoesOn(c) /\ call'[c].at = "answered" /\ call'[c].page = {}
  BY <1>1, AnswersFields
<1>3. FaultsCount /\ CallsGoOn /\ RowsAreRemembered
  BY <1>1, <1>2
     DEF LibraryInv, FaultsCount, CallsGoOn, RowsAreRemembered, Deletes, At, GoesOn, Moves
<1>4. PICK w \in {"none", "read", "over"} :
        /\ w = IF job[k].work = "waiting" THEN "over" ELSE job[k].work
        /\ job'[k].row = "gone" /\ job'[k].work = w
        /\ job'[k].owner = job[k].owner /\ job'[k].file = job[k].file
        /\ \A j \in Jobs \ {k} : job'[j] = job[j]
  BY <1>1 DEF LibraryTypeOK, JobStates
<1>5. LibraryTypeOK'
  <2>1. job \in [Jobs -> JobStates]
    BY <1>1 DEF LibraryTypeOK
  <2>2. job'[k] = [job[k] EXCEPT !.row = "gone", !.work = w] /\ job[k] \in JobStates
    BY <1>1, <1>4, <2>1
  <2>3. job'[k] \in JobStates
    BY <2>2 DEF JobStates
  <2>4. job' = [j \in Jobs |-> job'[j]]
    BY <1>1, <2>1
  <2>5. job' \in [Jobs -> JobStates]
    BY <1>4, <2>1, <2>3, <2>4
  <2> QED BY <1>1, <2>5 DEF LibraryTypeOK
<1>6. JobsStay
  BY <1>1, <1>4 DEF JobsStay
<1>7. NewContents
  BY <1>1 DEF NewContents
<1>8. RacesStay
  BY RacesAreRecorded
<1>9. JobInv(k)'
  <2>1. JobInv(k) /\ (k \in FormJobs => k[1] \in Calls)
    BY DEF LibraryInv, FormJobs
  <2>2. job[k].file # Nothing => Made(job[k].file)'
    BY <1>1, <1>4, <2>1 DEF JobInv, Made
  <2>3. ~(k \in FormJobs /\ call'[k[1]].at = "unused")
    BY <1>1, <1>3, <2>1 DEF JobInv, CallsGoOn
  <2>4. part'[k] = part[k] /\ (k \in Uploads => part[k].at # "none" /\ job[k].file # Nothing)
    BY <1>1, <2>1 DEF JobInv
  <2>5. job'[k].work = "read" /\ job'[k].file # Nothing => job'[k].file \in object' \cup raced'
    BY <1>1, <1>4, <1>8, <2>1 DEF JobInv, RacesStay
  <2>6. job'[k].owner \in Users
    BY <1>1, <1>4, <2>1 DEF JobInv
  <2> QED BY ONLY <1>4, <2>2, <2>3, <2>4, <2>5, <2>6 DEF JobInv
<1>10. ContentInv(k)'
  <2>1. ObjectsStay
    BY <1>1 DEF ObjectsStay
  <2> QED BY <1>1, <1>3, <1>6, <1>8, <2>1, ContentKept
<1>11. LibraryCallInv(c)'
  BY <1>1, <1>2, <1>4 DEF LibraryCallInv, WatchInv, GoesOn
<1>12. OthersWait({c})
  BY <1>1, <1>2, <1>4 DEF OthersWait, GoesOn, Moves, Jobs, FormJobs
<1>13. CallShape'
  BY <1>1, <1>2, ShapeStays DEF GoesOn
<1>14. UNCHANGED <<file, object, part, content>>
  BY <1>1
<1> QED
  BY ONLY LibraryInv, SeeRaces, k \in Jobs, <1>3, <1>4, <1>5, <1>6, <1>7, <1>9, <1>10, <1>11, <1>12,
     <1>13, <1>14, TaskChanges

LEMMA CreatingJob ==
  ASSUME LibraryInv, NEW c \in Calls, NEW i \in Parts \cup {0}, SeeRaces, CreateJob(c, i)
  PROVE  LibraryInv'
<1>1. /\ CallShape /\ LibraryTypeOK /\ LibraryCallInv(c) /\ UploadInv(c)
      /\ UNCHANGED <<file, object, content, children, part, faults>>
      /\ call[c].op \in {"form", "api"} /\ call[c].at = "payloads"
  BY DEF LibraryInv, LibraryCallInv, CreateJob
<1>2. PICK k \in FormJobs :
        k = <<c, i>> /\ k \in Jobs /\ job[k].row = "owed" /\ JobInv(k)
  BY DEF CreateJob, FormJobs, Jobs, LibraryInv
<1>3. PICK f \in Files \cup {Nothing} :
        /\ f = IF i = 0 THEN Nothing ELSE part[k].file
        /\ job' = [job EXCEPT ![k].row = "queued", ![k].work = "waiting", ![k].file = f]
        /\ f # Nothing => Made(f)
        /\ k \in Uploads => f # Nothing
  <2>1. CASE i = 0
    <3>1. k \notin Uploads
      BY <1>2, <2>1, LibraryAssumption DEF Uploads
    <3> QED BY <1>2, <2>1, <3>1 DEF CreateJob
  <2>2. CASE i # 0
    <3>1. i \in Parts /\ k \in Uploads
      BY <1>2, <2>2 DEF Uploads
    <3>2. PartInv(k) /\ part[k].file \in Files \cup {Nothing}
      BY <1>1, <3>1 DEF LibraryInv, LibraryTypeOK, Uploads, PartStates
    <3>3. part[k].at = "ok"
      BY <1>1, <1>2, <3>1 DEF JobInv, UploadInv
    <3> QED BY <1>2, <2>2, <3>2, <3>3 DEF CreateJob, PartInv
  <2> QED BY <2>1, <2>2
<1>4. /\ job'[k] = [job[k] EXCEPT !.row = "queued", !.work = "waiting", !.file = f]
      /\ \A j \in Jobs \ {k} : job'[j] = job[j]
      /\ job[k] \in JobStates
  <2>1. job[k] \in JobStates
    BY <1>1, <1>2 DEF LibraryTypeOK
  <2>2. job \in [Jobs -> JobStates]
    BY <1>1 DEF LibraryTypeOK
  <2>3. \A j \in Jobs \ {k} : job'[j] = job[j]
    BY <1>2, <1>3, <2>2
  <2>4. job'[k] = [job[k] EXCEPT !.row = "queued", !.work = "waiting", !.file = f]
    BY <1>2, <1>3, <2>1, <2>2 DEF JobStates
  <2> QED BY <2>1, <2>3, <2>4
<1>5. /\ job'[k].row = "queued" /\ job'[k].work = "waiting" /\ job'[k].file = f
      /\ job'[k].owner = job[k].owner /\ job[k].owner \in Users
  BY <1>2, <1>4 DEF JobInv, JobStates
<1>6. LibraryTypeOK'
  <2>1. job'[k] \in JobStates
    <3>1. f \in Files \cup {Nothing}
      OBVIOUS
    <3> QED BY ONLY <1>4, <3>1 DEF JobStates
  <2>2. job' \in [Jobs -> JobStates]
    <3>1. job \in [Jobs -> JobStates] /\ job' = [j \in Jobs |-> job'[j]]
      BY <1>1, <1>2, <1>3 DEF LibraryTypeOK
    <3> QED BY <1>4, <2>1, <3>1
  <2> QED BY <1>1, <2>2 DEF LibraryTypeOK
<1>7. JobsStay /\ NewContents
  <2>1. job[k].work = "none"
    BY <1>2 DEF JobInv
  <2> QED BY <1>1, <1>2, <1>4, <2>1 DEF JobsStay, NewContents
<1>8. /\ Moves(c) /\ GoesOn(c) /\ CallShape' /\ call'[c].at \in {"payloads", "answered"}
      /\ call'[c].page \subseteq {call[c].user}
      /\ call'[c].at = "answered" => \A j \in (Parts \cup {0}) \ {i} : job[<<c, j>>].row # "owed"
  <2>1. CASE UNCHANGED call
    BY <1>1, <2>1 DEF GoesOn, Moves, CallShape, LibraryCallInv
  <2>2. CASE /\ Answers(c, {})
             /\ \A j \in (Parts \cup {0}) \ {i} : job[<<c, j>>].row # "owed"
    BY <1>1, <2>2, AnswersFields, ShapeStays DEF GoesOn
  <2> QED BY <2>1, <2>2 DEF CreateJob
<1>9. FaultsCount /\ CallsGoOn /\ RowsAreRemembered
  BY <1>1, <1>8
     DEF LibraryInv, FaultsCount, CallsGoOn, RowsAreRemembered, Deletes, At, GoesOn, Moves
<1>10. JobInv(k)'
  <2>1. k[1] = c /\ (f # Nothing => Made(f)')
    BY <1>1, <1>2, <1>3 DEF Made
  <2>2. job'[k].file # Nothing => Made(job[k].file)'
    BY <1>5, <2>1 DEF Made
  <2> QED BY <1>1, <1>2, <1>3, <1>5, <1>8, <2>1, <2>2 DEF JobInv
<1>11. ContentInv(k)'
  <2>1. ContentInv(k) /\ job[k].work = "none"
    BY <1>2 DEF LibraryInv, JobInv
  <2> QED BY <1>1, <2>1 DEF ContentInv
<1>12. LibraryCallInv(c)'
  <2>1. call'[c].at = "answered" => \A j \in Parts \cup {0} : job'[<<c, j>>].row # "owed"
    <3>1. ASSUME call'[c].at = "answered", NEW j \in Parts \cup {0}
          PROVE  job'[<<c, j>>].row # "owed"
      <4>1. <<c, j>> \in Jobs
        BY DEF Jobs, FormJobs
      <4>2. CASE j = i
        BY <1>2, <1>5, <4>2
      <4>3. CASE j # i
        <5>1. <<c, j>> # k
          BY <1>2, <4>3
        <5> QED BY <1>4, <1>8, <3>1, <4>1, <4>3, <5>1
      <4> QED BY <4>2, <4>3
    <3> QED BY <3>1
  <2>2. UploadInv(c)'
    BY <1>1, <1>8, <2>1 DEF UploadInv, GoesOn
  <2> QED BY <1>1, <1>8, <2>2 DEF LibraryCallInv, GoesOn
<1>13. OthersWait({c})
  <2>1. \A d \in Calls \ {c} : \A j \in Parts \cup {0} : <<d, j>> \in Jobs \ {k}
    BY <1>2 DEF Jobs, FormJobs
  <2> QED BY <1>1, <1>4, <1>8, <2>1 DEF OthersWait, Moves
<1> QED
  BY <1>1, <1>2, <1>4, <1>6, <1>7, <1>8, <1>9, <1>10, <1>11, <1>12, <1>13, TaskChanges

(* The worker *)
LEMMA WorkerWaits ==
  ASSUME LibraryInv, UNCHANGED <<part, call, faults>>,
         \A i \in FormJobs : job[i].row # "owed" => job'[i].row # "owed"
  PROVE  /\ OthersWait({}) /\ FaultsCount /\ CallsGoOn /\ RowsAreRemembered /\ CallShape'
         /\ \A c \in Calls \cap {} : LibraryCallInv(c)'
<1>1. OthersWait({})
  BY DEF OthersWait, FormJobs
<1>2. FaultsCount /\ CallsGoOn /\ RowsAreRemembered /\ CallShape'
  BY DEF LibraryInv, FaultsCount, CallsGoOn, RowsAreRemembered, CallShape, Deletes, At
<1> QED BY <1>1, <1>2

LEMMA ExtractingText ==
  ASSUME LibraryInv, NEW k \in Jobs, SeeRaces, ExtractText(k) PROVE LibraryInv'
<1>1. /\ LibraryTypeOK /\ JobInv(k) /\ ContentInv(k)
      /\ UNCHANGED <<file, object, content, children, part, call, faults>>
      /\ job[k].row = "queued" /\ job[k].work = "waiting"
  BY DEF LibraryInv, ExtractText
<1>2. job \in [Jobs -> JobStates]
  BY <1>1 DEF LibraryTypeOK
<1>3. PICK w \in {"read", "over"}, r \in {"queued", "failed"} :
        /\ job' = [job EXCEPT ![k] = [job[k] EXCEPT !.work = w, !.row = r]]
        /\ w = "read" => job[k].file = Nothing \/ job[k].file \in object
  <2>1. CASE job[k].file = Nothing \/ job[k].file \in object
    <3>1. [job[k] EXCEPT !.work = "read", !.row = "queued"] = [job[k] EXCEPT !.work = "read"]
      BY <1>1, <1>2 DEF JobStates
    <3>2. job' = [job EXCEPT ![k] = [job[k] EXCEPT !.work = "read"]]
      BY <1>2, <2>1 DEF ExtractText
    <3> QED BY <2>1, <3>1, <3>2
  <2>2. CASE ~(job[k].file = Nothing \/ job[k].file \in object)
    <3>1. job' = [job EXCEPT ![k] = [job[k] EXCEPT !.work = "over", !.row = "failed"]]
      BY <1>2, <2>2 DEF ExtractText
    <3> QED BY <3>1
  <2> QED BY <2>1, <2>2
<1>4. job'[k] = [job[k] EXCEPT !.work = w, !.row = r] /\ \A j \in Jobs \ {k} : job'[j] = job[j]
  BY <1>2, <1>3
<1>5. /\ job'[k].work = w /\ job'[k].row = r /\ job'[k] \in JobStates
      /\ job'[k].owner = job[k].owner /\ job'[k].file = job[k].file
  <2>1. job[k] \in JobStates /\ w \in {"read", "over"} /\ r \in {"queued", "failed"}
    BY <1>2
  <2> QED BY ONLY <1>4, <2>1 DEF JobStates
<1>6. LibraryTypeOK'
  <2>1. job' = [j \in Jobs |-> job'[j]]
    BY <1>2, <1>3
  <2>2. job' \in [Jobs -> JobStates]
    BY <1>2, <1>4, <1>5, <2>1
  <2> QED BY <1>1, <2>2 DEF LibraryTypeOK
<1>7. JobsStay /\ NewContents
  BY <1>1, <1>4, <1>5 DEF JobsStay, NewContents
<1>8. JobInv(k)'
  <2>1. job'[k].file # Nothing => Made(job[k].file)'
    BY <1>1, <1>5 DEF JobInv, Made
  <2>2. job'[k].work = "read" /\ job'[k].file # Nothing => job'[k].file \in object' \cup raced'
    BY <1>1, <1>3, <1>5
  <2> QED BY <1>1, <1>5, <2>1, <2>2 DEF JobInv
<1>9. ContentInv(k)'
  BY <1>1 DEF ContentInv
<1>10. \A i \in FormJobs : job[i].row # "owed" => job'[i].row # "owed"
  BY <1>4, <1>5 DEF Jobs
<1>11. UNCHANGED <<file, object, part, content>> /\ UNCHANGED <<part, call, faults>>
  BY <1>1
<1>12. /\ OthersWait({}) /\ FaultsCount /\ CallsGoOn /\ RowsAreRemembered /\ CallShape'
       /\ \A c \in Calls \cap {} : LibraryCallInv(c)'
  BY <1>10, <1>11, WorkerWaits
<1> QED
  BY ONLY LibraryInv, SeeRaces, k \in Jobs, <1>4, <1>6, <1>7, <1>8, <1>9, <1>11, <1>12, TaskChanges

LEMMA PersistingContent ==
  ASSUME LibraryInv, NEW k \in Jobs, SeeRaces, PersistContent(k) PROVE LibraryInv'
<1>1. /\ LibraryTypeOK /\ JobInv(k)
      /\ UNCHANGED <<file, object, part, call, faults>>
      /\ job[k].work = "read" /\ children' = children \cup {k}
  BY DEF LibraryInv, PersistContent
<1>2. job \in [Jobs -> JobStates] /\ content \in [Jobs -> ContentRows \cup {Nothing}]
  BY <1>1 DEF LibraryTypeOK
<1>3. PICK r \in {"done", "gone"} :
        job' = [job EXCEPT ![k] = [job[k] EXCEPT !.work = "over", !.row = r]]
  <2>1. PICK r \in {"done", "gone"} : r = IF job[k].row = "gone" THEN job[k].row ELSE "done"
    OBVIOUS
  <2>2. job' = [job EXCEPT ![k].work = "over", ![k].row = r]
    BY <1>2, <2>1 DEF PersistContent, JobStates
  <2> QED BY <1>2, <2>2
<1>4. job'[k] = [job[k] EXCEPT !.work = "over", !.row = r] /\ \A j \in Jobs \ {k} : job'[j] = job[j]
  BY <1>2, <1>3
<1>5. /\ job'[k].work = "over" /\ job'[k].row = r /\ job'[k] \in JobStates
      /\ job'[k].owner = job[k].owner /\ job'[k].file = job[k].file
  <2>1. job[k] \in JobStates /\ r \in {"done", "gone"}
    BY <1>2
  <2> QED BY ONLY <1>4, <2>1 DEF JobStates
<1>6. /\ content'[k] = [owner |-> job[k].owner, file |-> job[k].file, edited |-> FALSE]
      /\ \A j \in Jobs \ {k} : content'[j] = content[j]
  BY <1>2 DEF PersistContent
<1>7. content'[k] \in ContentRows /\ content'[k].file = job[k].file
  <2>1. job[k] \in JobStates /\ job[k].owner \in Users
    BY <1>1, <1>2 DEF JobInv
  <2> QED BY ONLY <1>6, <2>1 DEF JobStates, ContentRows
<1>8. LibraryTypeOK'
  <2>1. job' = [j \in Jobs |-> job'[j]] /\ content' = [j \in Jobs |-> content'[j]]
    BY <1>2, <1>3 DEF PersistContent
  <2>2. job' \in [Jobs -> JobStates]
    BY <1>2, <1>4, <1>5, <2>1
  <2>3. content' \in [Jobs -> ContentRows \cup {Nothing}]
    BY <1>2, <1>6, <1>7, <2>1
  <2>4. children' \subseteq Jobs
    BY <1>1 DEF LibraryTypeOK
  <2> QED BY <1>1, <2>2, <2>3, <2>4 DEF LibraryTypeOK
<1>9. JobsStay /\ NewContents
  <2>1. JobsStay
    BY <1>1, <1>4, <1>5 DEF JobsStay
  <2>2. NewContents
    BY <1>1, <1>6, <1>7 DEF NewContents
  <2> QED BY <2>1, <2>2
<1>10. JobInv(k)' /\ ContentInv(k)'
  <2>1. job'[k].file # Nothing => Made(job[k].file)'
    BY <1>1, <1>5 DEF JobInv, Made
  <2>2. JobInv(k)'
    BY <1>1, <1>5, <2>1 DEF JobInv
  <2>3. RacesStay
    BY RacesAreRecorded
  <2>4. job[k].file # Nothing => job[k].file \in object' \cup raced'
    BY <1>1, <2>3 DEF JobInv, RacesStay
  <2>5. ContentInv(k)'
    BY <1>5, <1>7, <2>4 DEF ContentInv
  <2> QED BY <2>2, <2>5
<1>11. \A i \in FormJobs : job[i].row # "owed" => job'[i].row # "owed"
  BY <1>4, <1>5 DEF Jobs
<1>12. UNCHANGED <<file, object, part>> /\ UNCHANGED <<part, call, faults>>
  BY <1>1
<1>13. /\ OthersWait({}) /\ FaultsCount /\ CallsGoOn /\ RowsAreRemembered /\ CallShape'
       /\ \A c \in Calls \cap {} : LibraryCallInv(c)'
  BY <1>11, <1>12, WorkerWaits
<1> QED
  BY ONLY LibraryInv, SeeRaces, k \in Jobs, <1>4, <1>6, <1>8, <1>9, <1>10, <1>12, <1>13, TaskChanges

-----------------------------------------------------------------------------
(* Uploads *)
LEMMA Submitting ==
  ASSUME LibraryInv, NEW c \in Calls, NEW r \in Forms, SeeRaces, Submit(c, r) PROVE LibraryInv'
<1>1. /\ CallShape /\ LibraryTypeOK /\ r.user \in Users /\ r.op \in {"form", "api"}
      /\ r.files \in Seq(Digests) /\ DOMAIN r.files \subseteq Parts
      /\ UNCHANGED <<file, object, content, children, faults>>
  BY LibraryAssumption DEF LibraryInv, Submit
<1>2. PICK s \in {"refused", "payloads", "upload"} :
        /\ Starts(c, r.op, r.user, Nothing, s)
        /\ s = "payloads" => r.files = << >>
        /\ s = "upload" => r.files # << >>
  BY DEF Submit
<1>3. /\ Moves(c) /\ call[c].at = "unused"
      /\ call'[c].op = r.op /\ call'[c].at = s /\ call'[c].user = r.user
      /\ call'[c].page = {}
  BY <1>1, <1>2, StartsFields
<1>4. \A p \in Uploads :
        IF p[1] = c /\ p[2] \in DOMAIN r.files /\ s = "upload"
          THEN part'[p] = [NoPart EXCEPT !.digest = r.files[p[2]], !.at = "find"]
          ELSE part'[p] = part[p]
  BY <1>3 DEF Submit, Uploads
<1>5. \A k \in Jobs :
        IF s # "refused" /\ k \in {<<c, i>> : i \in Payloads(r)}
          THEN job'[k] = [NoJob EXCEPT !.owner = r.user, !.row = "owed"]
          ELSE job'[k] = job[k]
  BY <1>3 DEF Submit
<1>6. /\ \A p \in Uploads : p[1] = c => part[p] = NoPart
      /\ \A k \in Jobs : k \in FormJobs /\ k[1] = c => job[k].row = "none" /\ job[k].work = "none"
  BY <1>3 DEF LibraryInv, PartInv, JobInv
<1>7. \A p \in Uploads :
        \/ part'[p] = part[p]
        \/ /\ part[p] = NoPart /\ p[1] = c /\ s = "upload"
           /\ part'[p].at = "find" /\ part'[p].file = Nothing /\ part'[p].digest \in Digests
           /\ part'[p] \in PartStates
  <2>1. SUFFICES ASSUME NEW p \in Uploads, p[1] = c, p[2] \in DOMAIN r.files, s = "upload"
                 PROVE  /\ part'[p].at = "find" /\ part'[p].file = Nothing
                        /\ part'[p].digest \in Digests /\ part'[p] \in PartStates
    BY <1>4, <1>6
  <2>2. PICK d \in Digests : d = r.files[p[2]]
    BY <1>1, <2>1
  <2>3. part'[p] = [NoPart EXCEPT !.digest = d, !.at = "find"]
    BY <1>4, <2>1, <2>2
  <2> QED BY ONLY <2>3, d \in Digests DEF NoPart, PartStates
<1>8. \A k \in Jobs :
        \/ job'[k] = job[k]
        \/ /\ k \in FormJobs /\ k[1] = c /\ job[k].row = "none" /\ job[k].work = "none"
           /\ job'[k].row = "owed" /\ job'[k].work = "none" /\ job'[k].owner = r.user
           /\ job'[k].file = Nothing /\ job'[k] \in JobStates
           /\ k \in Uploads => part'[k].at = "find"
  <2>1. SUFFICES ASSUME NEW k \in Jobs, s # "refused", NEW i \in Payloads(r), k = <<c, i>>
                 PROVE  /\ k \in FormJobs /\ k[1] = c
                        /\ job'[k].row = "owed" /\ job'[k].work = "none"
                        /\ job'[k].owner = r.user
                        /\ job'[k].file = Nothing /\ job'[k] \in JobStates
                        /\ k \in Uploads => part'[k].at = "find"
    BY <1>5, <1>6
  <2>2. job'[k] = [NoJob EXCEPT !.owner = r.user, !.row = "owed"] /\ r.user \in Users
    BY <1>1, <1>5, <2>1
  <2>3. /\ job'[k].row = "owed" /\ job'[k].work = "none" /\ job'[k].owner = r.user
        /\ job'[k].file = Nothing /\ job'[k] \in JobStates
    BY ONLY <2>2 DEF NoJob, JobStates
  <2>4. k \in FormJobs
    BY <1>1, <2>1 DEF FormJobs, Payloads
  <2>5. k \in Uploads => part'[k].at = "find"
    <3>1. SUFFICES ASSUME k \in Uploads PROVE part'[k].at = "find"
      OBVIOUS
    <3>2. i \in Parts /\ i # 0
      BY <2>1, <3>1, LibraryAssumption DEF Uploads
    <3>3. i \in DOMAIN r.files
      BY <3>2 DEF Payloads
    <3>4. r.files # << >>
      BY <1>1, <3>3
    <3>5. s = "upload"
      BY <1>2, <2>1, <3>4
    <3>6. part'[k] = [NoPart EXCEPT !.digest = r.files[i], !.at = "find"]
      BY <1>4, <2>1, <3>1, <3>3, <3>5
    <3> QED BY ONLY <3>6 DEF NoPart
  <2> QED BY <2>1, <2>3, <2>4, <2>5
<1>9. \A f : Made(f)' <=> Made(f)
  <2>1. \A p \in Uploads : part'[p].file = part[p].file
    BY <1>7 DEF NoPart
  <2> QED BY <2>1 DEF Made
<1>10. MadeStays /\ ObjectsMade /\ ObjectsStay /\ UploadsGoOn
  BY <1>1, <1>7, <1>9 DEF MadeStays, ObjectsMade, ObjectsStay, UploadsGoOn, NoPart
<1>11. JobsStay /\ NewContents
  BY <1>1, <1>8 DEF JobsStay, NewContents
<1>12. FaultsCount /\ CallsGoOn /\ RowsAreRemembered /\ RacesStay
  BY <1>1, <1>3, RacesAreRecorded
     DEF LibraryInv, FaultsCount, CallsGoOn, RowsAreRemembered, Deletes, At, Moves
<1>13. ASSUME NEW f \in Files PROVE FileInv(f)'
  <2>1. FileInv(f) /\ (f \in Uploads => PartInv(f))
    BY DEF LibraryInv
  <2>2. f \notin Uploads => f = SeedFile
    BY DEF Files, Uploads
  <2>3. f \in object' /\ ~Made(f) => part'[f] = part[f]
    BY <1>1, <1>7, <2>1, <2>2 DEF PartInv, Made, NoPart
  <2> QED BY <1>1, <1>9, <1>12, <2>1, <2>3 DEF FileInv, RowsAreRemembered
<1>14. ASSUME NEW p \in Uploads PROVE PartInv(p)'
  <2>1. PartInv(p) /\ p[1] \in Calls
    BY DEF LibraryInv, Uploads
  <2>2. Made(part[p].file)' <=> Made(part'[p].file)
    BY <1>9 DEF Made
  <2>3. CASE part'[p] = part[p]
    <3>1. Made(part[p].file)' <=> Made(part[p].file)
      BY <1>9, <2>3 DEF Made
    <3> QED BY <1>1, <1>12, <2>1, <2>3, <3>1 DEF PartInv, CallsGoOn
  <2>4. CASE part'[p] # part[p]
    <3>1. /\ part[p] = NoPart /\ p[1] = c /\ part'[p].at = "find" /\ part'[p].file = Nothing
          /\ part'[p].digest \in Digests /\ s = "upload"
      BY <1>7, <2>4
    <3>2. p \notin object
      BY <2>1, <3>1 DEF PartInv, NoPart
    <3> QED BY <1>1, <1>3, <3>1, <3>2 DEF PartInv
  <2> QED BY <2>3, <2>4
<1>15. ASSUME NEW k \in Jobs PROVE JobInv(k)'
  <2>1. CASE job'[k] = job[k]
    <3>1. job[k].work = "read" /\ job[k].file \in object => job[k].file \in object'
      BY <1>1
    <3> QED BY <1>10, <1>12, <2>1, <3>1, JobKept
  <2>2. CASE job'[k] # job[k]
    <3>1. /\ k[1] = c /\ job'[k].row = "owed" /\ job'[k].work = "none"
          /\ job'[k].owner = r.user /\ job'[k].file = Nothing
          /\ k \in Uploads => part'[k].at = "find"
      BY <1>8, <2>2
    <3>2. call'[c].at # "unused"
      BY <1>3
    <3> QED BY <1>1, <3>1, <3>2 DEF JobInv
  <2> QED BY <2>1, <2>2
<1>16. \A k \in Jobs : ContentInv(k)'
  BY <1>1, <1>10, <1>11, <1>12, ContentKept
<1>17. LibraryCallInv(c)'
  <2>1. s = "payloads" => \A i \in Parts : part'[<<c, i>>].at = "none"
    BY <1>6, <1>7 DEF NoPart, Uploads
  <2>2. UploadInv(c)'
    BY <1>1, <1>3, <2>1 DEF UploadInv
  <2> QED BY <1>1, <1>3, <2>2 DEF LibraryCallInv
<1>18. OthersWait({c})
  <2>1. ASSUME NEW d \in Calls \ {c}
        PROVE  /\ \A i \in Parts : part'[<<d, i>>] = part[<<d, i>>]
               /\ \A i \in Parts \cup {0} : job'[<<d, i>>] = job[<<d, i>>]
    <3>1. \A i \in Parts : <<d, i>> \in Uploads /\ <<d, i>>[1] # c
      BY DEF Uploads
    <3>2. \A i \in Parts \cup {0} : <<d, i>> \in Jobs /\ <<d, i>>[1] # c
      BY DEF FormJobs, Jobs
    <3> QED BY <1>7, <1>8, <3>1, <3>2
  <2> QED BY <1>3, <2>1 DEF OthersWait, Moves
<1>19. LibraryTypeOK'
  <2>1. part \in [Uploads -> PartStates] /\ job \in [Jobs -> JobStates]
    BY <1>1 DEF LibraryTypeOK, Uploads
  <2>2. part' = [p \in Uploads |-> part'[p]] /\ job' = [k \in Jobs |-> job'[k]]
    BY DEF Submit, Uploads
  <2>3. part' \in [Uploads -> PartStates]
    BY <1>7, <2>1, <2>2
  <2>4. job' \in [Jobs -> JobStates]
    BY <1>8, <2>1, <2>2
  <2> QED BY <1>1, <2>3, <2>4 DEF LibraryTypeOK, Uploads
<1>20. CallShape'
  BY <1>1, <1>3, ShapeStays
<1> QED
  BY ONLY LibraryInv, SeeRaces, <1>10, <1>11, <1>12, <1>13, <1>14, <1>15, <1>16, <1>17, <1>18,
     <1>19, <1>20, LibraryStepKeeps

LEMMA PartGoesFields ==
  ASSUME LibraryInv, NEW c \in Calls, NEW i \in Parts, NEW p, p = <<c, i>>,
         NEW s \in {"put", "create", "undo", "again"}, PartGoes(c, i, s)
  PROVE  /\ part'[p].at = s /\ part'[p].file = part[p].file /\ part'[p].digest = part[p].digest
         /\ \A q \in Uploads \ {p} : part'[q] = part[q]
         /\ part' \in [Uploads -> PartStates]
<1>1. part \in [Uploads -> PartStates] /\ p \in Uploads
  BY DEF LibraryInv, LibraryTypeOK, Uploads
<1>2. part' = [part EXCEPT ![p] = [part[p] EXCEPT !.at = s]]
  BY <1>1 DEF PartGoes
<1>3. part'[p] = [part[p] EXCEPT !.at = s] /\ part[p] \in PartStates
  BY <1>1, <1>2
<1>4. /\ part'[p].at = s /\ part'[p].file = part[p].file /\ part'[p].digest = part[p].digest
      /\ part'[p] \in PartStates
  BY ONLY <1>3, s \in {"put", "create", "undo", "again"} DEF PartStates
<1> QED BY <1>1, <1>2, <1>4

LEMMA PartHasFields ==
  ASSUME LibraryInv, NEW c \in Calls, NEW i \in Parts, NEW p, p = <<c, i>>,
         NEW f \in Files, PartHas(c, i, f)
  PROVE  /\ part'[p].at = "ok" /\ part'[p].file = f /\ part'[p].digest = part[p].digest
         /\ \A q \in Uploads \ {p} : part'[q] = part[q]
         /\ part' \in [Uploads -> PartStates]
<1>1. part \in [Uploads -> PartStates] /\ p \in Uploads
  BY DEF LibraryInv, LibraryTypeOK, Uploads
<1>2. part' = [part EXCEPT ![p] = [part[p] EXCEPT !.at = "ok", !.file = f]]
  BY <1>1 DEF PartHas
<1>3. part'[p] = [part[p] EXCEPT !.at = "ok", !.file = f] /\ part[p] \in PartStates
  BY <1>1, <1>2
<1>4. /\ part'[p].at = "ok" /\ part'[p].file = f /\ part'[p].digest = part[p].digest
      /\ part'[p] \in PartStates
  BY ONLY <1>3, f \in Files DEF PartStates
<1> QED BY <1>1, <1>2, <1>4

(* What c knows of an upload it goes on with *)
LEMMA UploadFacts ==
  ASSUME LibraryInv, NEW c \in Calls, NEW i \in Parts, NEW s, Uploading(c, i, s),
         s \in {"find", "put", "create", "undo", "again"}, NEW p, p = <<c, i>>
  PROVE  /\ p \in Uploads /\ p \in Files /\ p # Nothing /\ p # SeedFile
         /\ part[p].at = s /\ part[p].file = Nothing /\ ~Made(p) /\ file[p] = Nothing
         /\ FileInv(p) /\ PartInv(p) /\ part[p].digest \in Digests
         /\ FileRow(call[c].user, part[p].digest) \in FileRows
         /\ call[c].op \in {"form", "api"} /\ call[c].at = "upload" /\ LibraryCallInv(c)
         /\ CallShape /\ LibraryTypeOK
<1>1. p \in Uploads /\ p \in Files /\ p # Nothing /\ p # SeedFile
  BY LibraryAssumption DEF Uploads, Files
<1>2. /\ FileInv(p) /\ PartInv(p) /\ LibraryCallInv(c) /\ CallShape /\ LibraryTypeOK
      /\ part[p].at = s /\ call[c].op \in {"form", "api"} /\ call[c].at = "upload"
  BY <1>1 DEF LibraryInv, Uploading
<1>3. part[p].file = Nothing /\ ~Made(p) /\ part[p].digest \in Digests
  BY <1>1, <1>2 DEF PartInv, Made
<1>4. file[p] = Nothing
  BY <1>2, <1>3 DEF FileInv
<1>5. FileRow(call[c].user, part[p].digest) \in FileRows
  BY <1>2, <1>3 DEF FileRow, FileRows, LibraryCallInv, UploadInv
<1> QED BY <1>1, <1>2, <1>3, <1>4, <1>5

LEMMA UploadChanges ==
  ASSUME LibraryInv, NEW c \in Calls, NEW i \in Parts, NEW s, Uploading(c, i, s),
         s \in {"find", "put", "create", "undo", "again"}, NEW p, p = <<c, i>>,
         SeeRaces, FaultsCount, UNCHANGED call \/ Fails(c),
         UNCHANGED <<content, children, job>>,
         part' \in [Uploads -> PartStates], part'[p].at # "none",
         \A q \in Uploads \ {p} : part'[q] = part[q],
         file' \in [Files -> FileRows \cup {Nothing}], object' \subseteq Files,
         \A g \in Files \ {p} : file'[g] = file[g] /\ (g \in object' <=> g \in object),
         FileInv(p)', PartInv(p)'
  PROVE  LibraryInv'
<1>1. /\ p \in Uploads /\ p # SeedFile /\ ~Made(p) /\ LibraryCallInv(c)
      /\ call[c].op \in {"form", "api"} /\ call[c].at = "upload"
      /\ CallShape /\ LibraryTypeOK
  BY UploadFacts
<1>2. GoesOn(c) /\ call'[c].at \in {"upload", "failed"} /\ call'[c].page = call[c].page
  <2>1. CASE UNCHANGED call
    BY <1>1, <2>1 DEF GoesOn, Moves, CallShape
  <2>2. CASE Fails(c)
    BY <1>1, <2>2, ReadsFields DEF Fails
  <2> QED BY <2>1, <2>2
<1>3. CallsGoOn /\ RowsAreRemembered
  BY <1>1, <1>2 DEF CallsGoOn, RowsAreRemembered, Deletes, At, GoesOn, Moves
<1>4. \A g \in Files \ {p} : Made(g)' <=> Made(g)
  BY DEF Made
<1>5. MadeStays /\ ObjectsMade /\ ObjectsStay
  BY <1>1, <1>4 DEF MadeStays, ObjectsMade, ObjectsStay
<1>6. UploadsGoOn
  BY DEF UploadsGoOn
<1>7. RacesStay
  BY RacesAreRecorded
<1>8. JobsStay /\ \A k \in Jobs : JobInv(k)'
  BY <1>3, <1>5, <1>6, <1>7, JobsKept
<1>9. NewContents /\ \A k \in Jobs : ContentInv(k)'
  BY <1>3, <1>5, <1>7, <1>8, ContentsKept
<1>10. ASSUME NEW g \in Files PROVE FileInv(g)'
  <2>1. CASE g # p
    <3>1. FileInv(g) /\ (Made(g)' <=> Made(g))
      BY <1>4, <2>1 DEF LibraryInv
    <3>2. file'[g] = file[g] /\ (g \in object' <=> g \in object)
      BY <2>1
    <3>3. g \in Uploads \/ Made(g)
      BY DEF Files, Uploads, Made
    <3>4. ~Made(g) => part'[g] = part[g]
      BY <2>1, <3>3
    <3> QED BY <1>3, <3>1, <3>2, <3>4 DEF FileInv, FaultsCount, RowsAreRemembered
  <2> QED BY <2>1
<1>11. ASSUME NEW q \in Uploads PROVE PartInv(q)'
  <2>1. CASE q # p
    <3>1. PartInv(q) /\ part'[q] = part[q] /\ q[1] \in Calls /\ q \in Files
      BY <2>1 DEF LibraryInv, Uploads, Files
    <3>2. q \in object' <=> q \in object
      BY <2>1, <3>1
    <3>3. PICK f : f = part[q].file
      OBVIOUS
    <3>4. f # Nothing => Made(f)'
      <4>1. f # Nothing => Made(f) /\ f \in Files
        BY <3>1, <3>3 DEF PartInv, Made, Files, Uploads
      <4> QED BY <1>5, <4>1 DEF MadeStays
    <3>5. part'[q].file # Nothing => Made(part[q].file)'
      BY <3>1, <3>3, <3>4 DEF Made
    <3> QED BY <1>3, <3>1, <3>2, <3>5 DEF PartInv, CallsGoOn
  <2> QED BY <2>1
<1>12. LibraryCallInv(c)'
  BY <1>1, <1>2 DEF LibraryCallInv, UploadInv, GoesOn
<1>13. OthersWait({c})
  <2>1. \A d \in Calls \ {c} : \A j \in Parts : <<d, j>> \in Uploads \ {p}
    BY DEF Uploads
  <2> QED BY <1>2, <2>1 DEF OthersWait, GoesOn, Moves
<1>14. LibraryTypeOK' /\ CallShape'
  BY <1>1, <1>2, ShapeStays DEF LibraryTypeOK, Uploads, GoesOn
<1> QED
  BY ONLY LibraryInv, SeeRaces, FaultsCount, <1>5, <1>8, <1>9, <1>10, <1>11, <1>12, <1>13, <1>14,
     LibraryStepKeeps

(* The row of another upload is the result *)
LEMMA UploadFinds ==
  ASSUME LibraryInv, NEW c \in Calls, NEW i \in Parts, NEW s \in {"find", "again"},
         Uploading(c, i, s), SeeRaces, UNCHANGED <<file, object, content, children, job, call, faults>>,
         NEW f \in KnownAs(call[c].user, part[<<c, i>>].digest), PartHas(c, i, f)
  PROVE  LibraryInv'
<1>1. PICK p : p = <<c, i>>
  OBVIOUS
<1>2. /\ p \in Uploads /\ p \in Files /\ p # Nothing /\ p # SeedFile /\ part[p].at = s
      /\ ~Made(p) /\ file[p] = Nothing /\ FileInv(p) /\ PartInv(p)
      /\ part[p].digest \in Digests
      /\ FileRow(call[c].user, part[p].digest) \in FileRows /\ LibraryTypeOK
  BY <1>1, UploadFacts
<1>3. f \in Files /\ f # Nothing /\ file[f] = FileRow(call[c].user, part[p].digest)
  BY <1>1, LibraryAssumption DEF KnownAs
<1>4. file[f] # Nothing /\ Made(f) /\ f # p
  BY <1>2, <1>3, LibraryAssumption DEF LibraryInv, FileInv
<1>5. /\ part'[p].at = "ok" /\ part'[p].file = f /\ part'[p].digest = part[p].digest
      /\ \A q \in Uploads \ {p} : part'[q] = part[q]
      /\ part' \in [Uploads -> PartStates]
  BY <1>1, <1>3, PartHasFields
<1>6. FileInv(p)'
  <2>1. ~Made(p)'
    BY <1>2, <1>4, <1>5 DEF Made
  <2>2. ~(faults = 0 /\ p \in object)
    BY <1>2 DEF FileInv, PartInv
  <2> QED BY <1>2, <2>1, <2>2 DEF FileInv
<1>7. PartInv(p)'
  <2>1. Made(f)'
    BY <1>4, <1>5 DEF Made
  <2>2. Made(part[p].file)'
    BY <1>5, <2>1 DEF Made
  <2>3. call'[p[1]].at # "unused"
    BY <1>1 DEF Uploading
  <2> QED BY <1>2, <1>3, <1>5, <2>2, <2>3 DEF PartInv
<1>8. FaultsCount
  BY DEF LibraryInv, FaultsCount
<1>9. file' \in [Files -> FileRows \cup {Nothing}] /\ object' \subseteq Files
  BY <1>2 DEF LibraryTypeOK
<1> QED BY <1>1, <1>5, <1>6, <1>7, <1>8, <1>9, UploadChanges

(* The step of an upload that changes no more than how far it is *)
LEMMA UploadGoes ==
  ASSUME LibraryInv, NEW c \in Calls, NEW i \in Parts, NEW s, Uploading(c, i, s),
         NEW t \in {"put", "create", "undo", "again"}, PartGoes(c, i, t),
         <<s, t>> \in {<<"find", "put">>, <<"put", "create">>, <<"create", "undo">>,
                       <<"undo", "again">>},
         SeeRaces, FaultsCount, UNCHANGED <<file, content, children, job, call>>,
         t = "put" => object' = object,
         t = "create" => object' = object \cup {<<c, i>>},
         t = "undo" => object' = object,
         t = "again" => object' = object \ {<<c, i>>} \/ (object' = object /\ faults' # 0)
  PROVE  LibraryInv'
<1>1. PICK p : p = <<c, i>>
  OBVIOUS
<1>2. /\ p \in Uploads /\ p \in Files /\ p # Nothing /\ p # SeedFile /\ part[p].at = s
      /\ ~Made(p) /\ file[p] = Nothing /\ FileInv(p) /\ PartInv(p) /\ part[p].file = Nothing
      /\ part[p].digest \in Digests /\ LibraryTypeOK
  BY <1>1, UploadFacts
<1>3. /\ part'[p].at = t /\ part'[p].file = Nothing /\ part'[p].digest = part[p].digest
      /\ \A q \in Uploads \ {p} : part'[q] = part[q]
      /\ part' \in [Uploads -> PartStates]
  BY <1>1, <1>2, PartGoesFields
<1>4. FileInv(p)'
  <2>1. ~Made(p)'
    BY <1>2, <1>3 DEF Made
  <2>2. t = "put" => p \notin object'
    BY <1>2 DEF PartInv
  <2>3. t = "again" => p \notin object' \/ faults' # 0
    BY <1>1
  <2> QED BY <1>2, <1>3, <2>1, <2>2, <2>3 DEF FileInv
<1>5. PartInv(p)'
  <2>1. call'[p[1]].at # "unused"
    BY <1>1 DEF Uploading
  <2>2. t = "put" => p \notin object'
    BY <1>2 DEF PartInv
  <2>3. t \in {"create", "undo"} => p \in object'
    BY <1>1, <1>2 DEF PartInv
  <2> QED BY <1>2, <1>3, <2>1, <2>2, <2>3 DEF PartInv
<1>6. /\ file' \in [Files -> FileRows \cup {Nothing}] /\ object' \subseteq Files
      /\ \A g \in Files \ {p} : file'[g] = file[g] /\ (g \in object' <=> g \in object)
  BY <1>1, <1>2 DEF LibraryTypeOK
<1>7. part'[p].at # "none" /\ s \in {"find", "put", "create", "undo", "again"}
  BY <1>3
<1>8. UNCHANGED call /\ UNCHANGED <<content, children, job>>
  OBVIOUS
<1> QED
  BY ONLY LibraryInv, SeeRaces, FaultsCount, c \in Calls, i \in Parts, Uploading(c, i, s),
     <1>1, <1>3, <1>4, <1>5, <1>6, <1>7, <1>8, UploadChanges

LEMMA FindingDigest ==
  ASSUME LibraryInv, NEW c \in Calls, NEW i \in Parts, SeeRaces, FindDigest(c, i)
  PROVE  LibraryInv'
<1>1. /\ Uploading(c, i, "find") /\ UNCHANGED <<file, object, content, children, job, call>>
      /\ object' = object
  BY DEF FindDigest
<1>2. ASSUME NEW f \in KnownAs(call[c].user, part[<<c, i>>].digest), PartHas(c, i, f),
             UNCHANGED faults
      PROVE  LibraryInv'
  BY <1>1, <1>2, UploadFinds
<1>3. CASE PartGoes(c, i, "put") /\ (UNCHANGED faults \/ Fault)
  <2>1. FaultsCount
    BY <1>3 DEF FaultsCount, Fault, LibraryInv
  <2> QED BY <1>1, <1>3, <2>1, UploadGoes
<1> QED BY <1>2, <1>3 DEF FindDigest

LEMMA PuttingObject ==
  ASSUME LibraryInv, NEW c \in Calls, NEW i \in Parts, SeeRaces, PutObject(c, i)
  PROVE  LibraryInv'
<1>1. FaultsCount /\ UNCHANGED <<file, content, children, job, call>>
  BY DEF FaultsCount, LibraryInv, PutObject
<1>2. /\ Uploading(c, i, "put") /\ PartGoes(c, i, "create")
      /\ object' = object \cup {<<c, i>>}
  BY DEF PutObject
<1> QED BY <1>1, <1>2, UploadGoes

LEMMA CreatingFileRow ==
  ASSUME LibraryInv, NEW c \in Calls, NEW i \in Parts, SeeRaces, CreateFileRow(c, i)
  PROVE  LibraryInv'
<1>1. /\ Uploading(c, i, "create") /\ UNCHANGED <<object, content, children, job, call>>
      /\ UNCHANGED <<content, children, job>> /\ UNCHANGED call
  BY DEF CreateFileRow
<1>2. CASE UNCHANGED file /\ PartGoes(c, i, "undo") /\ (UNCHANGED faults \/ Fault)
  <2>1. FaultsCount /\ UNCHANGED <<file, content, children, job, call>>
    BY <1>1, <1>2 DEF FaultsCount, Fault, LibraryInv
  <2> QED BY <1>1, <1>2, <2>1, UploadGoes
<1>3. PICK p : p = <<c, i>>
  OBVIOUS
<1>4. CASE /\ file' = [file EXCEPT ![p] = FileRow(call[c].user, part[p].digest)]
           /\ PartHas(c, i, p) /\ UNCHANGED faults
  <2>1. /\ p \in Uploads /\ p \in Files /\ p # Nothing /\ p # SeedFile
        /\ part[p].at = "create" /\ FileInv(p) /\ PartInv(p)
        /\ part[p].digest \in Digests
        /\ FileRow(call[c].user, part[p].digest) \in FileRows /\ LibraryTypeOK
    BY <1>1, <1>3, UploadFacts
  <2>2. /\ part'[p].at = "ok" /\ part'[p].file = p /\ part'[p].digest = part[p].digest
        /\ \A q \in Uploads \ {p} : part'[q] = part[q]
        /\ part' \in [Uploads -> PartStates]
    BY <1>3, <1>4, <2>1, PartHasFields
  <2>3. /\ file'[p] = FileRow(call[c].user, part[p].digest) /\ file'[p] # Nothing
        /\ \A g \in Files \ {p} : file'[g] = file[g]
        /\ file' \in [Files -> FileRows \cup {Nothing}]
    BY <1>4, <2>1, LibraryAssumption DEF LibraryTypeOK
  <2>4. Made(p)' /\ p \in object /\ object' = object
    BY <1>1, <2>1, <2>2 DEF Made, PartInv
  <2>5. FileInv(p)'
    BY <2>3, <2>4 DEF FileInv
  <2>6. PartInv(p)'
    <3>1. Made(part[p].file)'
      BY <2>2, <2>4 DEF Made
    <3>2. call'[p[1]].at # "unused"
      BY <1>1, <1>3 DEF Uploading
    <3> QED BY <2>1, <2>2, <3>1, <3>2 DEF PartInv
  <2>7. FaultsCount
    BY <1>4 DEF LibraryInv, FaultsCount
  <2>8. object' \subseteq Files /\ \A g \in Files : g \in object' <=> g \in object
    BY <2>1, <2>4 DEF LibraryTypeOK
  <2> QED
    BY ONLY LibraryInv, SeeRaces, c \in Calls, i \in Parts, <1>1, <1>3, <2>2, <2>3, <2>5, <2>6,
       <2>7, <2>8, UploadChanges
<1> QED BY <1>2, <1>3, <1>4 DEF CreateFileRow

LEMMA UndoingObject ==
  ASSUME LibraryInv, NEW c \in Calls, NEW i \in Parts, SeeRaces, UndoObject(c, i)
  PROVE  LibraryInv'
<1>1. UNCHANGED <<file, content, children, job, call>>
  BY DEF UndoObject
<1>2. /\ Uploading(c, i, "undo") /\ PartGoes(c, i, "again")
      /\ object' = object \ {<<c, i>>} \/ (object' = object /\ faults' # 0)
  BY DEF UndoObject, Fault, LibraryInv
<1>3. FaultsCount
  BY DEF FaultsCount, LibraryInv, UndoObject, Fault
<1> QED BY <1>1, <1>2, <1>3, UploadGoes

LEMMA FindingWinner ==
  ASSUME LibraryInv, NEW c \in Calls, NEW i \in Parts, SeeRaces, FindWinner(c, i)
  PROVE  LibraryInv'
<1>1. /\ Uploading(c, i, "again") /\ UNCHANGED <<file, object, content, children, job, faults>>
  BY DEF FindWinner
<1>2. ASSUME NEW f \in KnownAs(call[c].user, part[<<c, i>>].digest), PartHas(c, i, f),
             UNCHANGED call
      PROVE  LibraryInv'
  BY <1>1, <1>2, UploadFinds
<1>3. CASE Fails(c) /\ UNCHANGED part
  <2>1. call[c].op \in {"form", "api"} /\ call[c].at = "upload" /\ FaultsCount
    BY <1>1 DEF Uploading, FaultsCount, LibraryInv
  <2> QED BY <1>1, <1>3, <2>1, LibraryEnds
<1> QED BY <1>2, <1>3 DEF FindWinner

-----------------------------------------------------------------------------
LEMMA LibraryStarts == LibraryInit /\ CallsInit => LibraryInv
<1> SUFFICES ASSUME LibraryInit, CallsInit PROVE LibraryInv
  OBVIOUS
<1>1. /\ \A c \in Calls : call[c] = Unused
      /\ DOMAIN call = Calls /\ faults = 0
      /\ object = {SeedFile} /\ children = SeedContents
      /\ \A p \in Uploads : part[p] = NoPart
      /\ part = [p \in Uploads |-> NoPart]
  BY DEF CallsInit, LibraryInit, Uploads
<1>2. \A f \in Files : file[f] = IF f = SeedFile THEN FileRow(SeedOwner, SeedDigest) ELSE Nothing
  BY DEF LibraryInit
<1>3. /\ FileRow(SeedOwner, SeedDigest) \in FileRows
      /\ FileRow(SeedOwner, SeedDigest) # Nothing
  BY LibraryAssumption DEF FileRow, FileRows
<1>4. \A k \in Jobs :
        \/ k \in SeedContents /\ content[k] # Nothing /\ content[k].file = SeedFile
             /\ content[k] \in ContentRows
        \/ k \notin SeedContents /\ content[k] = Nothing
  <2>1. ASSUME NEW k \in SeedContents, NEW r,
               r = [owner |-> SeedOwner, file |-> SeedFile, edited |-> FALSE]
        PROVE  r # Nothing /\ r.file = SeedFile /\ r \in ContentRows
    <3>1. SeedOwner \in Users /\ SeedFile \in Files
      BY LibraryAssumption DEF Files
    <3>2. r.file = SeedFile /\ r \in ContentRows
      BY ONLY <2>1, <3>1 DEF ContentRows
    <3> QED BY <3>2, LibraryAssumption
  <2> QED BY <2>1 DEF LibraryInit
<1>5. \A k \in Jobs :
        /\ k \in SeedContents => /\ job[k].row = "done" /\ job[k].work = "over"
                                 /\ job[k].owner = SeedOwner /\ job[k].file = SeedFile
        /\ k \notin SeedContents /\ k = SeedJob =>
             /\ job[k].row = "queued" /\ job[k].work = "waiting"
             /\ job[k].owner = SeedOwner /\ job[k].file = SeedFile
        /\ k \notin SeedContents /\ k # SeedJob =>
             /\ job[k].row = "none" /\ job[k].work = "none" /\ job[k].file = Nothing
        /\ job[k] \in JobStates
  BY LibraryAssumption DEF LibraryInit, NoJob, JobStates, Files
<1>6. Made(SeedFile) /\ SeedFile \in Files /\ SeedFile \notin Uploads
  BY LibraryAssumption DEF Made, Files, Uploads
<1>7. LibraryTypeOK
  <2>1. file \in [Files -> FileRows \cup {Nothing}]
    BY <1>2, <1>3 DEF LibraryInit
  <2>2. content \in [Jobs -> ContentRows \cup {Nothing}]
    <3>1. content = [k \in Jobs |-> content[k]]
      BY DEF LibraryInit
    <3> QED BY <1>4, <3>1
  <2>3. job \in [Jobs -> JobStates]
    <3>1. job = [k \in Jobs |-> job[k]]
      BY DEF LibraryInit
    <3> QED BY <1>5, <3>1
  <2>4. part \in [Calls \X Parts -> PartStates]
    BY <1>1 DEF NoPart, PartStates, Uploads
  <2>5. object \subseteq Files /\ children \subseteq Jobs
    BY <1>1, <1>6 DEF Jobs
  <2> QED BY <2>1, <2>2, <2>3, <2>4, <2>5 DEF LibraryTypeOK
<1>8. CallShape
  BY <1>1 DEF CallShape, Unused, CallFields
<1>9. \A f \in Files : FileInv(f)
  <2>1. \A f \in Files : f # SeedFile => f \notin object /\ file[f] = Nothing
    BY <1>1, <1>2
  <2>2. SeedFile \in object /\ file[SeedFile] # Nothing
    BY <1>1, <1>2, <1>3, <1>6
  <2> QED BY <1>6, <2>1, <2>2 DEF FileInv
<1>10. \A p \in Uploads : PartInv(p)
  BY <1>1, <1>6 DEF PartInv, NoPart
<1>11. ASSUME NEW k \in Jobs PROVE JobInv(k) /\ ContentInv(k)
  <2>1. k \in FormJobs => k \notin SeedContents /\ k # SeedJob
    BY LibraryAssumption
  <2>2. k \in Uploads => k \in FormJobs
    BY DEF Uploads, FormJobs
  <2>3. SeedFile \in object
    BY <1>1
  <2>4. JobInv(k)
    BY <1>5, <1>6, <2>1, <2>2, LibraryAssumption DEF JobInv
  <2>5. ContentInv(k)
    BY <1>4, <1>5, <2>3 DEF ContentInv
  <2> QED BY <2>4, <2>5
<1>12. \A c \in Calls : LibraryCallInv(c)
  BY <1>1 DEF LibraryCallInv, Unused
<1>13. RacesAreSeen
  BY <1>1 DEF RacesAreSeen, Doomed, Unused
<1> QED BY <1>1, <1>7, <1>8, <1>9, <1>10, <1>11, <1>12, <1>13 DEF LibraryInv

LEMMA LibraryNextKeeps == LibraryInv /\ [LibraryNext]_<<libVars, callVars>> => LibraryInv'
<1> SUFFICES ASSUME LibraryInv, [LibraryNext]_<<libVars, callVars>> PROVE LibraryInv'
  OBVIOUS
<1>1. CASE UNCHANGED <<libVars, callVars>>
  <2>1. UNCHANGED <<file, object, content, children, job, part, raced, call, faults>>
    BY <1>1 DEF libVars, callVars
  <2>2. (\A f \in Files : FileInv(f))' /\ (\A p \in Uploads : PartInv(p))'
    BY <2>1 DEF LibraryInv, FileInv, PartInv, Made, At
  <2>3. (\A k \in Jobs : JobInv(k) /\ ContentInv(k))'
    BY <2>1 DEF LibraryInv, JobInv, ContentInv, Made, Deletes
  <2>4. (\A c \in Calls : LibraryCallInv(c))'
    BY <2>1 DEF LibraryInv, LibraryCallInv, DeleteInv, WatchInv, UploadInv, OthersAreRaced, Made
  <2>5. RacesAreSeen'
    BY <2>1 DEF LibraryInv, RacesAreSeen, Held, Holds, Running, Ended, Doomed
  <2>6. LibraryTypeOK' /\ CallShape' /\ faults' \in Nat
    BY <2>1 DEF LibraryInv, LibraryTypeOK, CallShape
  <2> QED BY <2>2, <2>3, <2>4, <2>5, <2>6 DEF LibraryInv
<1>2. ASSUME NEW c \in Calls, UploadStep(c), SeeRaces PROVE LibraryInv'
  BY <1>2, FindingDigest, PuttingObject, CreatingFileRow, UndoingObject, FindingWinner,
     UploadsEnding, CreatingJob DEF UploadStep
<1>3. ASSUME NEW c \in Calls, DeleteStep(c), SeeRaces PROVE LibraryInv'
  BY <1>3, ReadingDoomedContent, CheckingFileInUse, ReadingDoomedFile, DeletingObject,
     DeletingFileRow, ClearingChildren, DeletingContentRow DEF DeleteStep
<1>4. ASSUME NEW c \in Calls, OtherStep(c), SeeRaces PROVE LibraryInv'
  BY <1>4, ReadingPatchedContent, PatchingContent, ListingContents, ServingFile, WatchingTask,
     DeletingJobRow DEF OtherStep
<1>5. ASSUME NEW c \in Calls, PollFails(c) \/ AbandonLibraryCall(c), SeeRaces PROVE LibraryInv'
  BY <1>5, WatchingTask, AbandoningLibraryCall
<1>6. ASSUME NEW c \in Calls, NEW u \in Users, Request(c, u), SeeRaces PROVE LibraryInv'
  BY <1>6, RequestingLibrary
<1>7. ASSUME NEW c \in Calls, NEW r \in Forms, Submit(c, r), SeeRaces PROVE LibraryInv'
  BY <1>7, Submitting
<1>8. ASSUME WorkerStep, SeeRaces PROVE LibraryInv'
  BY <1>8, ExtractingText, PersistingContent DEF WorkerStep
<1> QED BY <1>1, <1>2, <1>3, <1>4, <1>5, <1>6, <1>7, <1>8 DEF LibraryNext

LEMMA LibraryInvIsEnough ==
  ASSUME LibraryInv PROVE ContentKeepsFile /\ UploadsAreWhole /\ PagesAreOwn
<1>1. ASSUME NEW k \in Jobs, content[k] # Nothing, NEW f, f = content[k].file, f # Nothing,
             file[f] = Nothing \/ f \notin object
      PROVE  f \in raced \/ \E c \in Calls : Deletes(c, k)
  <2>1. f \in object \cup raced \/ \E c \in Calls : Deletes(c, k)
    BY <1>1 DEF LibraryInv, ContentInv
  <2>2. Made(f) /\ f \in Files
    BY <1>1 DEF LibraryInv, ContentInv, JobInv, Made, Files, Uploads
  <2>3. f \in object => file[f] # Nothing
    BY <2>2 DEF LibraryInv, FileInv
  <2> QED BY <1>1, <2>1, <2>3
<1>2. ContentKeepsFile
  BY <1>1 DEF ContentKeepsFile, Deletes
<1>3. ObjectsMatchRows
  <2>1. ASSUME faults = 0, NEW f \in Files, f \in object, file[f] = Nothing
        PROVE  f # SeedFile /\ part[f].at \in {"create", "undo"}
    BY <2>1 DEF LibraryInv, FileInv, Made
  <2>2. ASSUME faults = 0, NEW f \in Files, f \notin object, file[f] # Nothing
        PROVE  \E c \in Calls : At(c, "delete", "row") /\ call[c].got = f
    BY <2>2 DEF LibraryInv, FileInv
  <2> QED BY <2>1, <2>2 DEF ObjectsMatchRows
<1>4. AnsweredUploadsAreQueued
  <2>1. SUFFICES ASSUME NEW c \in Calls, call[c].op \in {"form", "api"}, call[c].at = "answered",
                        NEW i \in Parts \cup {0}
                 PROVE  /\ job[<<c, i>>].row # "owed"
                        /\ i # 0 /\ job[<<c, i>>].row # "none" => job[<<c, i>>].file # Nothing
    BY DEF AnsweredUploadsAreQueued
  <2>2. job[<<c, i>>].row # "owed"
    BY <2>1 DEF LibraryInv, LibraryCallInv, UploadInv
  <2>3. <<c, i>> \in Jobs /\ (i # 0 => <<c, i>> \in Uploads)
    BY <2>1 DEF Jobs, FormJobs, Uploads
  <2> QED BY <2>2, <2>3 DEF LibraryInv, JobInv
<1>5. PagesAreOwn
  BY DEF LibraryInv, LibraryCallInv, PagesAreOwn
<1> QED BY <1>2, <1>3, <1>4, <1>5 DEF UploadsAreWhole

LEMMA LibraryInvHolds == LibrarySpec => []LibraryInv
<1> QED BY LibraryStarts, LibraryNextKeeps, PTL DEF LibrarySpec

(* A content has its file, row and object, however uploads, workers and      *)
(* deletions interleave: unless the request that deletes this content is    *)
(* under way, or the file was deleted while an upload or a task held it     *)
(* (file_info.rs:262, content/handlers.rs:171).                             *)
THEOREM ContentsKeepFiles == LibrarySpec => []ContentKeepsFile
BY LibraryInvHolds, LibraryInvIsEnough, PTL

(* Without faults an object without a row, or a row without an object, is   *)
(* one that an upload or a deletion is dealing with; and a request that     *)
(* says so has created all its tasks, each with its file                    *)
(* (file_info.rs:192, ingestion_task.rs:266).                               *)
THEOREM UploadsStayWhole == LibrarySpec => []UploadsAreWhole
BY LibraryInvHolds, LibraryInvIsEnough, PTL

-----------------------------------------------------------------------------
(* Chat, and the owners of what is shown *)

(* No conversation will be stored under this id any more *)
Placed(k) == k \in Chats /\ (k \in Calls => call[k].at # "unused")

Owns(u, k) == Placed(k) /\ (chat[k] # Nothing => chat[k].owner = u)

(* c will store a question; its stamp is made *)
Asking(c) == call[c].op \in {"chat", "say"} /\ call[c].at \in {"read", "store"}
Stamped(c) == call[c].op \in {"chat", "say"} /\ call[c].at = "store"

(* q is the question an answer to `about` in conversation k follows *)
Puts(q, about, k) == q.role = "user" /\ q.id = about /\ q.chat = k

(* Another question was put between an answer and its own *)
FollowedUp(a) ==
  \E q, n \in said : /\ Puts(q, a.about, a.chat)
                     /\ n.role = "user" /\ n.chat = a.chat /\ n.id # a.about
                     /\ q.stamp < n.stamp /\ n.stamp < a.stamp

QuestionInv(m) == m.id \in Calls => call[m.id].at # "unused" /\ ~Asking(m.id)

AnswerInv(m) ==
  /\ m.id \in Calls /\ writer[m.id].at = "over"
  /\ \E q \in said : Puts(q, m.about, m.chat) /\ q.stamp < m.stamp

RefsAreOwn(u, refs) ==
  /\ IsFiniteSet(refs) /\ Cardinality(refs) <= MaxReferences
  /\ \A r \in refs : RefOwner["chunk"][r] = u \/ RefOwner["entity"][r] = u

MessageInv(m) ==
  /\ Owns(m.by, m.chat) /\ RefsAreOwn(m.by, m.refs)
  /\ m.role = "user" => QuestionInv(m)
  /\ m.role = "ai" => AnswerInv(m)

QuestionsAreOnce ==
  \A m, n \in said :
    m.role = "user" /\ n.role = "user" /\ (n.id = m.id \/ n.stamp = m.stamp) => n = m

AnswersAreOnce ==
  \A m, n \in said : m.role = "ai" /\ n.role = "ai" /\ n.id = m.id => n = m

SecondAnswersHaveReasons ==
  \A a, b \in said :
    a.role = "ai" /\ b.role = "ai" /\ a.about = b.about /\ a # b =>
      a.id \in blind \/ b.id \in blind \/ FollowedUp(a) \/ FollowedUp(b)

Changing(u) ==
  \E d \in Calls : /\ call[d].op \in {"chat", "title", "delete chat"} /\ call[d].user = u
                   /\ call[d].at \in {"store", "invalidate", "failed"}

(* What may be kept, or is about to be, as the list of u *)
KeptInv(u, list) == list = SidebarOf(u) \/ u \in passed \/ Changing(u)

StampInv(c) ==
  /\ writer[c].stamp \in 1..tick
  /\ \A m \in said : m.role = "user" => m.stamp # writer[c].stamp
  /\ \A d \in Calls \ {c} : Stamped(d) => writer[d].stamp # writer[c].stamp

StreamInv(c) ==
  \E q \in said :
    /\ q.role = "user" /\ q.id = call[c].key
    /\ call[c].at = "history" => Owns(call[c].user, q.chat)

Looking(c) == call[c].op = "stream" /\ call[c].at \in {"message", "conversation", "history"}

ChatCallInv(c) ==
  /\ call[c].at = "unused" => writer[c] = NoWriter /\ chat[c] = Nothing /\ replayed[c] = Nothing
  /\ call[c].at # "unused" => call[c].user \in Users
  /\ call[c].op \in {"say", "title", "delete chat", "open"} => Placed(call[c].key)
  /\ Stamped(c) => Owns(call[c].user, call[c].key) /\ StampInv(c)
  /\ call[c].op \in {"title", "delete chat"} /\ call[c].at = "change" =>
       Owns(call[c].user, call[c].key)
  /\ Looking(c) => StreamInv(c) /\ writer[c] = NoWriter
  /\ call[c].at = "keep" => KeptInv(call[c].user, call[c].got)
  /\ call[c].page \subseteq {call[c].user}

(* The turn that c answers *)
Answering(c) == writer[c].at \in {"receive", "validate", "store"} \/ At(c, "stream", "prepare")

TurnInv(c) ==
  /\ \E q \in said : /\ Puts(q, writer[c].about, writer[c].chat)
                     /\ writer[c].at = "store" => q.stamp < writer[c].stamp
  /\ Owns(call[c].user, writer[c].chat)
  /\ \A a \in said : a.role = "ai" /\ a.about = writer[c].about => c \in blind \/ FollowedUp(a)

WriterFields ==
  {"at", "chat", "about", "raws", "next", "allowed", "valid", "whole", "stamp", "sent"}

WriterInv(c) ==
  /\ DOMAIN writer[c] = WriterFields
  /\ writer[c].at # "none" => call[c].op = "stream"
  /\ At(c, "stream", "prepare") => writer[c].at = "none"
  /\ writer[c].stamp \in 0..tick
  /\ writer[c].raws \in RawLists \cup {<< >>}
  /\ RefsAreOwn(call[c].user, writer[c].valid)
  /\ Answering(c) => TurnInv(c)

(* What c has replayed, if not its own answer, answers an earlier question *)
ReplayInv(c) ==
  replayed[c] \notin {Nothing, call[c].key} =>
    \E a, q, r \in said : /\ a.role = "ai" /\ a.about = replayed[c]
                          /\ q.role = "user" /\ q.id = replayed[c]
                          /\ r.role = "user" /\ r.id = call[c].key
                          /\ q.stamp < r.stamp /\ r.stamp < a.stamp

ChatInv ==
  /\ ChatTypeOK /\ CallShape /\ tick \in Nat
  /\ DOMAIN writer = Calls /\ DOMAIN archive = Users
  /\ \A m \in said : MessageInv(m)
  /\ QuestionsAreOnce /\ AnswersAreOnce /\ SecondAnswersHaveReasons
  /\ \A c \in Calls : ChatCallInv(c) /\ WriterInv(c) /\ ReplayInv(c)
  /\ \A u \in Users : archive[u] # Nothing => KeptInv(u, archive[u])

-----------------------------------------------------------------------------
(* What a step does *)

(* No conversation that there is, or was, changes hands *)
ChatsStay ==
  \A k \in Chats : Placed(k) /\ chat'[k] # Nothing =>
    chat[k] # Nothing /\ chat'[k].owner = chat[k].owner

(* c is not put back before its question *)
AsksOnce(c) ==
  call'[c].at # "unused" /\ (Asking(c)' => call[c].at = "unused" \/ Asking(c))

ClocksRise == tick' \in Nat /\ tick <= tick'

HistoriesOfChatGrow == said \subseteq said' /\ blind \subseteq blind' /\ passed \subseteq passed'

(* The tasks and answers of other requests are left alone *)
OthersStay(c) ==
  /\ DOMAIN writer' = Calls /\ DOMAIN archive' = Users
  /\ writer[c].at = "over" => writer'[c].at = "over"
  /\ \A d \in Calls \ {c} : /\ writer'[d] = writer[d] /\ replayed'[d] = replayed[d]
                            /\ chat[d] = Nothing => chat'[d] = Nothing

(* New messages are as they should be, and the tasks under way know of them *)
NewMessagesAreSound(c) ==
  /\ \A m \in said' : m \in said \/ MessageInv(m)'
  /\ QuestionsAreOnce' /\ AnswersAreOnce' /\ SecondAnswersHaveReasons'
  /\ \A m \in said' \ said : \A d \in Calls \ {c} :
       /\ m.role = "user" /\ Stamped(d) => m.stamp # writer[d].stamp
       /\ m.role = "ai" /\ m.about = writer[d].about /\ Answering(d) =>
            d \in blind' \/ FollowedUp(m)'

ListsAreKept(c) ==
  /\ \A u \in Users : \A list : archive'[u] = list /\ list # Nothing => KeptInv(u, list)'
  /\ \A d \in Calls \ {c} : call[d].at = "keep" => KeptInv(call[d].user, call[d].got)'

CallerInv(c) == ChatCallInv(c) /\ WriterInv(c) /\ ReplayInv(c)

-----------------------------------------------------------------------------
(* Lemmas on the parts of the invariant *)

LEMMA OwnsStays ==
  ASSUME NEW c \in Calls, Moves(c), call'[c].at # "unused", ChatsStay,
         NEW u, NEW k, Owns(u, k)
  PROVE  Owns(u, k)'
BY DEF Owns, Placed, ChatsStay, Moves, Chats

LEMMA FollowedUpStays ==
  ASSUME NEW a, FollowedUp(a), said \subseteq said' PROVE FollowedUp(a)'
BY DEF FollowedUp, Puts

(* The list of a user whose conversations are left alone *)
LEMMA SidebarStays ==
  ASSUME NEW v, \A k \in Chats : \/ chat'[k] = chat[k]
                                 \/ /\ chat[k] # Nothing => chat[k].owner # v
                                    /\ chat'[k] # Nothing => chat'[k].owner # v
  PROVE  SidebarOf(v)' = SidebarOf(v)
<1>1. \A k \in Chats : /\ chat[k] # Nothing /\ chat[k].owner = v <=>
                            chat'[k] # Nothing /\ chat'[k].owner = v
                       /\ chat[k] # Nothing /\ chat[k].owner = v => chat'[k] = chat[k]
  OBVIOUS
<1> DEFINE Own == {k \in Chats : chat[k] # Nothing /\ chat[k].owner = v}
<1>2. Own = {k \in Chats : chat'[k] # Nothing /\ chat'[k].owner = v}
  BY <1>1
<1>3. \A k \in Own : <<k, chat'[k].title>> = <<k, chat[k].title>>
  BY <1>1
<1>4. SidebarOf(v) = {<<k, chat[k].title>> : k \in Own}
  BY DEF SidebarOf
<1>5. SidebarOf(v)' = {<<k, chat'[k].title>> : k \in Own}
  BY <1>2 DEF SidebarOf, Chats
<1> HIDE DEF Own
<1> QED BY <1>3, <1>4, <1>5

LEMMA RefsStayOwn ==
  ASSUME NEW u, NEW refs, RefsAreOwn(u, refs), Cardinality(refs) < MaxReferences, NEW r,
         RefOwner["chunk"][r] = u \/ RefOwner["entity"][r] = u
  PROVE  RefsAreOwn(u, refs \cup {r})
<1>1. Cardinality(refs) \in Nat /\ IsFiniteSet(refs)
  BY FS_CardinalityType DEF RefsAreOwn
<1>2. /\ IsFiniteSet(refs \cup {r})
      /\ \/ Cardinality(refs \cup {r}) = Cardinality(refs)
         \/ Cardinality(refs \cup {r}) = Cardinality(refs) + 1
  BY <1>1, FS_AddElement, Zenon
<1>3. Cardinality(refs \cup {r}) \in Nat
  BY <1>2, FS_CardinalityType
<1> QED BY <1>1, <1>2, <1>3, ChatAssumption DEF RefsAreOwn

LEMMA NoRefsAreOwn == ASSUME NEW u PROVE RefsAreOwn(u, {})
BY FS_EmptySet, ChatAssumption DEF RefsAreOwn

(* The earliest of some messages is one of them *)
LEMMA FirstIsFirst ==
  ASSUME NEW messages, messages # {}, \A m \in messages : m.stamp \in Nat
  PROVE  First(messages) \in messages
<1> DEFINE stamps == {m.stamp : m \in messages}
<1>1. stamps \subseteq Nat /\ stamps # {}
  OBVIOUS
<1>2. PICK s \in stamps : \A t \in stamps : <<t, s>> \notin OpToRel(<, Nat)
  BY <1>1, NatLessThanWellFounded, WFMin
<1>3. \A i, j \in Nat : i < j => <<i, j>> \in OpToRel(<, Nat)
  BY DEF OpToRel
<1>4. PICK m \in messages : m.stamp = s
  BY <1>2
<1>5. ASSUME NEW n \in messages PROVE m.stamp <= n.stamp
  <2>1. n.stamp \in stamps /\ n.stamp \in Nat /\ s \in Nat
    BY <1>1
  <2>2. ~(n.stamp < s)
    BY <1>3, <1>2, <2>1
  <2> QED BY <1>4, <2>1, <2>2
<1> QED BY <1>5 DEF First

(* What a step of c leaves of what other requests know *)
LEMMA OthersKeepTheirs ==
  ASSUME ChatInv, NEW c \in Calls, Moves(c), AsksOnce(c), ChatTypeOK', ChatsStay, ClocksRise,
         HistoriesOfChatGrow, OthersStay(c), NewMessagesAreSound(c), ListsAreKept(c),
         CallerInv(c)', NEW d \in Calls, d # c
  PROVE  CallerInv(d)'
<1>1. /\ call'[d] = call[d] /\ writer'[d] = writer[d] /\ replayed'[d] = replayed[d]
      /\ chat[d] = Nothing => chat'[d] = Nothing
      /\ ChatCallInv(d) /\ WriterInv(d) /\ ReplayInv(d)
  <2>1. call'[d] = call[d]
    BY DEF Moves
  <2>2. /\ writer'[d] = writer[d] /\ replayed'[d] = replayed[d]
        /\ chat[d] = Nothing => chat'[d] = Nothing
    BY DEF OthersStay
  <2>3. ChatCallInv(d) /\ WriterInv(d) /\ ReplayInv(d)
    BY DEF ChatInv
  <2> QED BY <2>1, <2>2, <2>3
<1>2. \A u, k : Owns(u, k) => Owns(u, k)'
  BY OwnsStays DEF AsksOnce
<1>3. said \subseteq said' /\ blind \subseteq blind' /\ tick \in Nat /\ tick' \in Nat /\ tick <= tick'
  BY DEF HistoriesOfChatGrow, ClocksRise, ChatInv
<1>4. Placed(call[d].key) => Placed(call[d].key)'
  BY <1>1 DEF Placed, Moves, AsksOnce, Chats
<1>5. ASSUME Stamped(d)' PROVE StampInv(d)'
  <2>1. Stamped(d) /\ StampInv(d)
    BY <1>1, <1>5 DEF Stamped, ChatCallInv
  <2>2. \A m \in said' : m.role = "user" => m.stamp # writer[d].stamp
    BY <2>1 DEF NewMessagesAreSound, StampInv
  <2>3. ASSUME NEW e \in Calls, e # d, Stamped(e)' PROVE writer'[e].stamp # writer'[d].stamp
    <3>1. CASE e = c
      BY <1>5, <2>3, <3>1 DEF CallerInv, ChatCallInv, StampInv
    <3>2. CASE e # c
      <4>1. call'[e] = call[e]
        BY <3>2 DEF Moves
      <4>2. writer'[e] = writer[e]
        BY <3>2 DEF OthersStay
      <4> QED BY <1>1, <2>1, <2>3, <4>1, <4>2 DEF StampInv, Stamped
    <3> QED BY <3>1, <3>2
  <2> QED BY <1>1, <1>3, <2>1, <2>2, <2>3 DEF StampInv
<1>6. StreamInv(d) => StreamInv(d)'
  BY <1>1, <1>2, <1>3 DEF StreamInv
<1>7. call[d].at = "keep" => KeptInv(call[d].user, call[d].got)'
  BY DEF ListsAreKept
<1>8. ChatCallInv(d)'
  BY <1>1, <1>2, <1>4, <1>5, <1>6, <1>7 DEF ChatCallInv, Stamped, Looking
<1>9. ASSUME Answering(d) PROVE TurnInv(d)'
  <2>1. TurnInv(d)
    BY <1>1, <1>9 DEF WriterInv
  <2>2. \A a \in said' : a.role = "ai" /\ a.about = writer[d].about =>
          d \in blind' \/ FollowedUp(a)'
    BY <1>3, <1>9, <2>1, FollowedUpStays DEF NewMessagesAreSound, TurnInv
  <2>3. \E q \in said' : /\ Puts(q, writer[d].about, writer[d].chat)
                         /\ writer[d].at = "store" => q.stamp < writer[d].stamp
    BY <1>3, <2>1 DEF TurnInv
  <2> QED BY <1>1, <1>2, <2>1, <2>2, <2>3 DEF TurnInv, Puts
<1>10. WriterInv(d)'
  BY <1>1, <1>3, <1>9 DEF WriterInv, Answering, At, RefsAreOwn
<1>11. ReplayInv(d)'
  BY <1>1, <1>3 DEF ReplayInv
<1> QED BY <1>8, <1>10, <1>11 DEF CallerInv

LEMMA ChatStepKeeps ==
  ASSUME ChatInv, NEW c \in Calls, Moves(c), AsksOnce(c), ChatTypeOK', ChatsStay, ClocksRise,
         HistoriesOfChatGrow, OthersStay(c), NewMessagesAreSound(c), ListsAreKept(c),
         CallerInv(c)'
  PROVE  ChatInv'
<1>1. CallShape'
  BY ShapeStays DEF ChatInv
<1>2. \A d \in Calls : ChatCallInv(d)' /\ WriterInv(d)' /\ ReplayInv(d)'
  BY OthersKeepTheirs DEF CallerInv
<1>3. ASSUME NEW m \in said' PROVE MessageInv(m)'
  <2>1. CASE m \in said
    <3>1. MessageInv(m) /\ m \in said'
      BY <2>1 DEF ChatInv, HistoriesOfChatGrow
    <3>2. Owns(m.by, m.chat)'
      BY <3>1, OwnsStays DEF MessageInv, AsksOnce
    <3>3. m.role = "user" => QuestionInv(m)'
      BY <3>1 DEF MessageInv, QuestionInv, AsksOnce, Moves, Asking
    <3>4. m.role = "ai" => AnswerInv(m)'
      <4>1. writer[m.id].at = "over" /\ m.id \in Calls => writer'[m.id].at = "over"
        BY DEF OthersStay
      <4> QED BY <3>1, <4>1 DEF MessageInv, AnswerInv, HistoriesOfChatGrow, Puts
    <3> QED BY <3>1, <3>2, <3>3, <3>4 DEF MessageInv, RefsAreOwn
  <2> QED BY <2>1 DEF NewMessagesAreSound
<1>4. ASSUME NEW u \in Users, archive'[u] # Nothing PROVE KeptInv(u, archive[u])'
  <2>1. PICK list : list = archive'[u]
    OBVIOUS
  <2>2. KeptInv(u, list)'
    BY <1>4, <2>1 DEF ListsAreKept
  <2> QED BY <2>1, <2>2 DEF KeptInv, SidebarOf, Changing
<1> QED BY <1>1, <1>2, <1>3, <1>4 DEF ChatInv, ClocksRise, OthersStay, NewMessagesAreSound

(* c goes on changing the list of its user, if it does *)
ChangesOn(c) ==
  call[c].op \in {"chat", "title", "delete chat"} /\ call[c].at \in {"store", "invalidate", "failed"}
    => call'[c].op = call[c].op /\ call'[c].user = call[c].user
       /\ call'[c].at \in {"store", "invalidate", "failed"}

LEMMA ListsStay ==
  ASSUME ChatInv, NEW c \in Calls, Moves(c), ChangesOn(c), passed \subseteq passed',
         \A u \in Users : archive'[u] = archive[u] \/ archive'[u] = Nothing,
         \A u \in Users : SidebarOf(u)' = SidebarOf(u) \/ Changing(u)'
  PROVE  ListsAreKept(c)
<1>1. ASSUME NEW u \in Users, Changing(u) PROVE Changing(u)'
  <2>1. PICK d \in Calls :
          /\ call[d].op \in {"chat", "title", "delete chat"} /\ call[d].user = u
          /\ call[d].at \in {"store", "invalidate", "failed"}
    BY <1>1 DEF Changing
  <2>2. CASE d = c
    BY <2>1, <2>2 DEF Changing, ChangesOn
  <2>3. CASE d # c
    BY <2>1, <2>3 DEF Changing, Moves
  <2> QED BY <2>2, <2>3
<1>2. \A u \in Users : \A list : KeptInv(u, list) => KeptInv(u, list)'
  BY <1>1 DEF KeptInv
<1>3. ASSUME NEW u \in Users, NEW list, archive'[u] = list, list # Nothing
      PROVE  KeptInv(u, list)'
  BY <1>2, <1>3 DEF ChatInv
<1>4. ASSUME NEW d \in Calls, d # c, call[d].at = "keep"
      PROVE  KeptInv(call[d].user, call[d].got)'
  <2>1. PICK u, list : u = call[d].user /\ list = call[d].got
    OBVIOUS
  <2>2. KeptInv(u, list) /\ u \in Users
    BY <1>4, <2>1 DEF ChatInv, ChatCallInv
  <2>3. KeptInv(u, list)' /\ call'[d] = call[d]
    BY <1>2, <1>4, <2>2 DEF Moves
  <2>4. u = call'[d].user /\ list = call'[d].got
    BY <2>1, <2>3
  <2> QED BY ONLY <2>3, <2>4 DEF KeptInv, SidebarOf, Changing
<1> QED BY <1>3, <1>4 DEF ListsAreKept

(* The steps that change neither messages nor conversations *)
LEMMA TalkIsLeft ==
  ASSUME ChatInv, NEW c \in Calls, UNCHANGED <<chat, said>>, blind \subseteq blind',
         Moves(c), call'[c].at # "unused"
  PROVE  ChatsStay /\ NewMessagesAreSound(c)
<1>1. ChatsStay
  BY DEF ChatsStay
<1>2. QuestionsAreOnce' /\ AnswersAreOnce'
  BY DEF ChatInv, QuestionsAreOnce, AnswersAreOnce
<1>3. SecondAnswersHaveReasons'
  BY FollowedUpStays DEF ChatInv, SecondAnswersHaveReasons
<1> QED BY <1>1, <1>2, <1>3 DEF NewMessagesAreSound

(* The statements that only read *)
LEMMA ChatMoves ==
  ASSUME ChatInv, NEW c \in Calls, UNCHANGED chatVars, Moves(c), AsksOnce(c), ChangesOn(c),
         ChatCallInv(c)', call[c].at = "unused" \/ GoesOn(c), call'[c].at # "prepare"
  PROVE  ChatInv'
<1>1. ChatTypeOK' /\ ClocksRise /\ HistoriesOfChatGrow /\ OthersStay(c)
  BY DEF ChatInv, ChatTypeOK, ClocksRise, HistoriesOfChatGrow, OthersStay, chatVars
<1>2. ChatsStay /\ NewMessagesAreSound(c)
  BY TalkIsLeft DEF chatVars, AsksOnce
<1>3. \A u : SidebarOf(u)' = SidebarOf(u)
  BY DEF SidebarOf, chatVars
<1>4. ListsAreKept(c)
  BY <1>3, ListsStay DEF chatVars
<1>5. WriterInv(c) /\ ReplayInv(c) /\ ChatCallInv(c)
  BY DEF ChatInv
<1>6. CASE call[c].at = "unused"
  <2>1. writer'[c] = NoWriter /\ replayed'[c] = Nothing
    BY <1>5, <1>6 DEF ChatCallInv, chatVars
  <2>2. ReplayInv(c)' /\ ~Answering(c)' /\ ~At(c, "stream", "prepare")'
    BY <2>1 DEF ReplayInv, Answering, At, NoWriter
  <2>3. WriterInv(c)'
    BY <2>1, <2>2, NoRefsAreOwn DEF WriterInv, WriterFields, NoWriter, ClocksRise, ChatInv, chatVars
  <2> QED BY <1>1, <1>2, <1>4, <2>2, <2>3, ChatStepKeeps DEF CallerInv
<1>7. CASE GoesOn(c)
  <2>1. ASSUME Answering(c)' PROVE TurnInv(c)'
    <3>1. TurnInv(c)
      BY <1>5, <2>1 DEF WriterInv, Answering, At, chatVars
    <3>2. Owns(call[c].user, writer[c].chat)'
      BY <1>2, <1>7, <3>1, OwnsStays DEF TurnInv, GoesOn, AsksOnce, Owns, Placed, chatVars
    <3> QED BY <1>7, <3>1, <3>2 DEF TurnInv, FollowedUp, Puts, GoesOn, chatVars
  <2>2. WriterInv(c)'
    BY <1>5, <1>7, <2>1 DEF WriterInv, GoesOn, At, RefsAreOwn, chatVars
  <2>3. ReplayInv(c)'
    BY <1>5, <1>7 DEF ReplayInv, GoesOn, chatVars
  <2> QED BY <1>1, <1>2, <1>4, <2>2, <2>3, ChatStepKeeps DEF CallerInv
<1> QED BY <1>6, <1>7

LEMMA ChatEnds ==
  ASSUME ChatInv, NEW c \in Calls, call[c].at # "unused", UNCHANGED chatVars, ChangesOn(c),
         Refuses(c) \/ Fails(c) \/ Answers(c, {call[c].user})
  PROVE  ChatInv'
<1>1. CallShape /\ call[c].page \subseteq {call[c].user} /\ call[c].user \in Users
  BY DEF ChatInv, ChatCallInv
<1>2. GoesOn(c) /\ call'[c].at \in Ends /\ call'[c].page \subseteq {call[c].user}
  BY <1>1, ReadsFields, AnswersFields DEF Refuses, Fails, Ends
<1>3. ChatCallInv(c)'
  BY <1>1, <1>2 DEF ChatInv, ChatCallInv, GoesOn, Ends, Moves, Placed, Stamped, Looking, chatVars
<1> QED BY <1>2, <1>3, ChatMoves DEF AsksOnce, Asking, GoesOn, Ends

(* The next statement is one of which nothing has to be known *)
LEMMA ChatGoesOn ==
  ASSUME ChatInv, NEW c \in Calls, call[c].at # "unused", UNCHANGED chatVars, ChangesOn(c),
         NEW s \in {"messages", "archive", "list", "final"}, Goto(c, s) \/ Reads(c, Nothing, s)
  PROVE  ChatInv'
<1>1. GoesOn(c) /\ call'[c].at = s /\ call'[c].page = call[c].page
  BY GotoFields, ReadsFields DEF ChatInv
<1>2. ChatCallInv(c)'
  BY <1>1 DEF ChatInv, ChatCallInv, GoesOn, Moves, Placed, Stamped, Looking, chatVars
<1> QED BY <1>1, <1>2, ChatMoves DEF AsksOnce, Asking, GoesOn

LEMMA RequestingChat ==
  ASSUME ChatInv, NEW c \in Calls, NEW u \in Users, ChatRequest(c, u) PROVE ChatInv'
<1>1. UNCHANGED chatVars
  BY DEF ChatRequest
<1>2. ASSUME NEW o, NEW k, NEW s, Starts(c, o, u, k, s),
             o \in {"say", "title", "delete chat", "open", "stream", "tooltip", "page"},
             s \in {"read", "message", "look", "archive"},
             o \in {"say", "title", "delete chat", "open"} => Placed(k),
             o = "stream" => s = "message" /\ \E q \in said : q.role = "user" /\ q.id = k
      PROVE  ChatInv'
  <2>1. /\ Moves(c) /\ call[c].at = "unused"
        /\ call'[c].op = o /\ call'[c].at = s /\ call'[c].user = u
        /\ call'[c].key = k /\ call'[c].page = {}
    BY <1>2, StartsFields DEF ChatInv
  <2>2. Placed(k) => Placed(k)'
    BY <1>2, <2>1 DEF Placed, Moves, Chats
  <2>3. Looking(c)' => StreamInv(c)' /\ writer'[c] = NoWriter
    BY <1>1, <1>2, <2>1 DEF ChatInv, ChatCallInv, Looking, StreamInv, chatVars
  <2>4. ChatCallInv(c)'
    BY <1>2, <2>1, <2>2, <2>3 DEF ChatCallInv, Stamped
  <2> QED BY <1>1, <1>2, <2>1, <2>4, ChatMoves DEF AsksOnce, ChangesOn
<1>3. \A k \in Chats : chat[k] # Nothing => Placed(k)
  BY DEF ChatInv, ChatCallInv, Placed
<1> QED BY <1>2, <1>3 DEF ChatRequest

LEMMA ReadingOwnChat ==
  ASSUME ChatInv, NEW c \in Calls, ReadOwnChat(c) PROVE ChatInv'
<1>1. /\ UNCHANGED chatVars /\ call[c].at = "read"
      /\ call[c].op \in {"title", "delete chat", "open"} /\ ChangesOn(c)
  BY DEF ReadOwnChat, ChangesOn
<1>2. CASE Refuses(c)
  BY <1>1, <1>2, ChatEnds
<1>3. CASE Goto(c, "messages")
  BY <1>1, <1>3, ChatGoesOn
<1>4. CASE /\ chat[call[c].key] # Nothing /\ chat[call[c].key].owner = call[c].user
           /\ Goto(c, "change")
  <2>1. GoesOn(c) /\ call'[c].at = "change" /\ call'[c].page = call[c].page
    BY <1>4, GotoFields DEF ChatInv
  <2>2. Owns(call[c].user, call[c].key)'
    BY <1>1, <1>4, <2>1 DEF ChatInv, ChatCallInv, Owns, Placed, GoesOn, Moves, Chats, chatVars
  <2>3. ChatCallInv(c)'
    BY <1>1, <2>1, <2>2 DEF ChatInv, ChatCallInv, GoesOn, Stamped, Looking, Owns, chatVars
  <2> QED BY <1>1, <2>1, <2>3, ChatMoves DEF AsksOnce, Asking, GoesOn
<1> QED BY <1>2, <1>3, <1>4 DEF ReadOwnChat

LEMMA ReadingQuestion ==
  ASSUME ChatInv, NEW c \in Calls, ReadQuestion(c) PROVE ChatInv'
<1>1. /\ UNCHANGED chatVars /\ call[c].at = "message" /\ call[c].op = "stream" /\ ChangesOn(c)
  BY DEF ReadQuestion, At, ChangesOn
<1>2. CASE Refuses(c)
  BY <1>1, <1>2, ChatEnds
<1>3. CASE Goto(c, "conversation")
  <2>1. GoesOn(c) /\ call'[c].at = "conversation" /\ call'[c].page = call[c].page
    BY <1>3, GotoFields DEF ChatInv
  <2>2. StreamInv(c)'
    BY <1>1, <2>1 DEF ChatInv, ChatCallInv, Looking, StreamInv, GoesOn, chatVars
  <2>3. ChatCallInv(c)'
    BY <1>1, <2>1, <2>2 DEF ChatInv, ChatCallInv, GoesOn, Stamped, Looking, chatVars
  <2> QED BY <1>1, <2>1, <2>3, ChatMoves DEF AsksOnce, Asking, GoesOn
<1> QED BY <1>2, <1>3 DEF ReadQuestion

LEMMA ReadingConversation ==
  ASSUME ChatInv, NEW c \in Calls, ReadConversation(c) PROVE ChatInv'
<1>1. /\ UNCHANGED chatVars /\ call[c].at = "conversation" /\ call[c].op = "stream"
      /\ ChangesOn(c)
  BY DEF ReadConversation, At, ChangesOn
<1>2. CASE Refuses(c)
  BY <1>1, <1>2, ChatEnds
<1>3. ASSUME NEW q \in Asked(c), chat[q.chat] # Nothing, chat[q.chat].owner = call[c].user,
             Goto(c, "history")
      PROVE  ChatInv'
  <2>1. GoesOn(c) /\ call'[c].at = "history" /\ call'[c].page = call[c].page
    BY <1>3, GotoFields DEF ChatInv
  <2>2. Owns(call[c].user, q.chat)'
    <3>1. Owns(q.by, q.chat)
      BY <1>3 DEF ChatInv, MessageInv, Asked
    <3> QED BY <1>1, <1>3, <2>1, <3>1 DEF Owns, Placed, GoesOn, Moves, Chats, chatVars
  <2>3. StreamInv(c)'
    BY <1>1, <1>3, <2>1, <2>2 DEF StreamInv, Asked, GoesOn, Owns, chatVars
  <2>4. ChatCallInv(c)'
    BY <1>1, <2>1, <2>3 DEF ChatInv, ChatCallInv, GoesOn, Stamped, Looking, chatVars
  <2> QED BY <1>1, <2>1, <2>4, ChatMoves DEF AsksOnce, Asking, GoesOn
<1> QED BY <1>2, <1>3 DEF ReadConversation

LEMMA ListingChats ==
  ASSUME ChatInv, NEW c \in Calls, ListChats(c) PROVE ChatInv'
<1>1. /\ UNCHANGED chatVars /\ call[c].at = "list" /\ ChangesOn(c)
  BY DEF ListChats, ChangesOn
<1>2. PICK list : list = SidebarOf(call[c].user) /\ Reads(c, list, "keep")
  BY DEF ListChats
<1>3. /\ GoesOn(c) /\ call'[c].at = "keep" /\ call'[c].page = call[c].page
      /\ call'[c].got = list
  BY <1>2, ReadsFields DEF ChatInv
<1>4. KeptInv(call[c].user, call[c].got)'
  BY <1>1, <1>2, <1>3 DEF KeptInv, SidebarOf, GoesOn, Chats, chatVars
<1>5. ChatCallInv(c)'
  BY <1>1, <1>3, <1>4 DEF ChatInv, ChatCallInv, GoesOn, Moves, Placed, Stamped, Looking, chatVars
<1> QED BY <1>1, <1>3, <1>5, ChatMoves DEF AsksOnce, Asking, GoesOn

(* The other statements that only read *)
LEMMA ReadingForChat ==
  ASSUME ChatInv, NEW c \in Calls,
         \/ ReadMessages(c) \/ GetArchive(c) \/ EndModelStream(c) \/ CloseStream(c)
         \/ ShowReference(c) \/ (AbandonCall(c) /\ UNCHANGED chatVars)
  PROVE  ChatInv'
<1>1. CASE ReadMessages(c) \/ GetArchive(c)
  <2>1. call[c].at \in {"messages", "archive"} /\ ChangesOn(c) /\ UNCHANGED chatVars
    BY <1>1 DEF ReadMessages, GetArchive, At, ChangesOn
  <2> QED BY <1>1, <2>1, ChatEnds, ChatGoesOn DEF ReadMessages, GetArchive
<1>2. CASE EndModelStream(c) \/ CloseStream(c)
  <2>1. call[c].at \in {"pieces", "final"} /\ ChangesOn(c) /\ UNCHANGED chatVars
    BY <1>2 DEF EndModelStream, CloseStream, At, ChangesOn
  <2> QED BY <1>2, <2>1, ChatEnds, ChatGoesOn DEF EndModelStream, CloseStream
<1>3. CASE ShowReference(c)
  <2>1. call[c].at = "look" /\ ChangesOn(c) /\ UNCHANGED chatVars
    BY <1>3 DEF ShowReference, At, ChangesOn
  <2>2. Goto(c, "archive") \/ Refuses(c)
    BY <1>3 DEF ShowReference
  <2> QED BY <2>1, <2>2, ChatEnds, ChatGoesOn
<1>4. CASE AbandonCall(c) /\ UNCHANGED chatVars
  <2>1. call[c].at # "unused" /\ Fails(c)
    BY <1>4 DEF AbandonCall, Running
  <2>2. GoesOn(c) /\ call'[c].at = "failed"
    BY <2>1, ReadsFields DEF Fails, ChatInv
  <2> QED BY <1>4, <2>1, <2>2, ChatEnds DEF ChangesOn, GoesOn
<1> QED BY <1>1, <1>2, <1>3, <1>4

(* The steps of a stream and of the task that stores its answer *)
LEMMA StreamStepKeeps ==
  ASSUME ChatInv, NEW c \in Calls, UNCHANGED <<chat, said, archive, passed, blind>>,
         Moves(c), AsksOnce(c), ChangesOn(c), tick' \in {tick, tick + 1},
         DOMAIN writer' = Calls, writer[c].at = "over" => writer'[c].at = "over",
         writer'[c].at \in {"none", "receive", "validate", "store", "over"},
         replayed' \in [Calls -> Questions \cup {Nothing}],
         \A d \in Calls : d # c => writer'[d] = writer[d] /\ replayed'[d] = replayed[d],
         ChatCallInv(c)', WriterInv(c)', ReplayInv(c)'
  PROVE  ChatInv'
<1>1. ClocksRise /\ HistoriesOfChatGrow /\ OthersStay(c)
  BY DEF ChatInv, ClocksRise, HistoriesOfChatGrow, OthersStay
<1>2. ChatTypeOK'
  BY <1>1 DEF ChatInv, ChatTypeOK, ClocksRise
<1>3. ChatsStay /\ NewMessagesAreSound(c)
  BY TalkIsLeft DEF AsksOnce
<1>4. \A u : SidebarOf(u)' = SidebarOf(u)
  BY DEF SidebarOf
<1>5. ListsAreKept(c)
  BY <1>4, ListsStay
<1> QED BY <1>1, <1>2, <1>3, <1>5, ChatStepKeeps DEF CallerInv

(* c goes on with the turn it answers *)
LEMMA TurnStays ==
  ASSUME ChatInv, NEW c \in Calls, Moves(c), call'[c].at # "unused",
         UNCHANGED <<chat, said, blind>>, call'[c].user = call[c].user, TurnInv(c),
         writer'[c].about = writer[c].about, writer'[c].chat = writer[c].chat,
         writer'[c].at = "store" =>
           \A q \in said : Puts(q, writer[c].about, writer[c].chat) => q.stamp < writer'[c].stamp
  PROVE  TurnInv(c)'
<1>1. ChatsStay
  BY DEF ChatsStay
<1>2. Owns(call[c].user, writer[c].chat)'
  <2>1. PICK u, k : u = call[c].user /\ k = writer[c].chat
    OBVIOUS
  <2>2. Owns(u, k)'
    BY <1>1, <2>1, OwnsStays DEF TurnInv
  <2> QED BY <2>1, <2>2 DEF Owns, Placed, Chats
<1>3. \A a : FollowedUp(a) => FollowedUp(a)'
  BY FollowedUpStays
<1> QED BY <1>2, <1>3 DEF TurnInv, Puts

LEMMA OpeningModelStream ==
  ASSUME ChatInv, NEW c \in Calls, OpenModelStream(c) PROVE ChatInv'
<1>1. /\ UNCHANGED <<chat, said, tick, replayed, blind, archive, passed>>
      /\ call[c].op = "stream" /\ call[c].at = "prepare" /\ Reads(c, 0, "pieces")
  BY DEF OpenModelStream, At, sidebarVars
<1>2. PICK ids : writer' = [writer EXCEPT ![c].at = "receive", ![c].allowed = ids]
  BY DEF OpenModelStream
<1>3. GoesOn(c) /\ call'[c].at = "pieces" /\ call'[c].page = call[c].page
  BY <1>1, ReadsFields DEF ChatInv
<1>4. ChatCallInv(c) /\ WriterInv(c) /\ ReplayInv(c) /\ TurnInv(c) /\ writer[c].at = "none"
  BY <1>1 DEF ChatInv, WriterInv, Answering, At
<1>5. /\ DOMAIN writer' = Calls /\ DOMAIN writer'[c] = WriterFields
      /\ writer'[c].at = "receive"
      /\ writer'[c].about = writer[c].about /\ writer'[c].chat = writer[c].chat
      /\ writer'[c].stamp = writer[c].stamp /\ writer'[c].valid = writer[c].valid
      /\ writer'[c].raws = writer[c].raws
      /\ \A d \in Calls : d # c => writer'[d] = writer[d]
  BY <1>2, <1>4 DEF ChatInv, WriterInv, WriterFields
<1>6. ChatCallInv(c)'
  BY <1>1, <1>3, <1>4 DEF ChatCallInv, GoesOn, Stamped, Looking
<1>7. TurnInv(c)'
  BY <1>1, <1>3, <1>4, <1>5, TurnStays DEF GoesOn
<1>8. WriterInv(c)' /\ ReplayInv(c)'
  BY <1>1, <1>3, <1>4, <1>5, <1>7 DEF WriterInv, ReplayInv, GoesOn, At, RefsAreOwn
<1> QED
  BY <1>1, <1>3, <1>4, <1>5, <1>6, <1>8, StreamStepKeeps
     DEF GoesOn, AsksOnce, Asking, ChangesOn, ChatInv, ChatTypeOK

LEMMA ForwardingPiece ==
  ASSUME ChatInv, NEW c \in Calls, ForwardPiece(c) PROVE ChatInv'
<1>1. /\ UNCHANGED <<chat, said, tick, replayed, blind, archive, passed>>
      /\ call[c].op = "stream" /\ call[c].at = "pieces"
      /\ Reads(c, call[c].got + 1, "pieces")
  BY DEF ForwardPiece, At, sidebarVars
<1>2. PICK done : writer' = [writer EXCEPT ![c].whole = done]
  BY DEF ForwardPiece
<1>3. GoesOn(c) /\ call'[c].at = "pieces" /\ call'[c].page = call[c].page
  BY <1>1, ReadsFields DEF ChatInv
<1>4. ChatCallInv(c) /\ WriterInv(c) /\ ReplayInv(c)
  BY DEF ChatInv
<1>5. /\ DOMAIN writer' = Calls /\ DOMAIN writer'[c] = WriterFields
      /\ writer'[c].at = writer[c].at
      /\ writer'[c].about = writer[c].about /\ writer'[c].chat = writer[c].chat
      /\ writer'[c].stamp = writer[c].stamp /\ writer'[c].valid = writer[c].valid
      /\ writer'[c].raws = writer[c].raws
      /\ \A d \in Calls : d # c => writer'[d] = writer[d]
  BY <1>2, <1>4 DEF ChatInv, WriterInv, WriterFields
<1>6. ChatCallInv(c)'
  BY <1>1, <1>3, <1>4 DEF ChatCallInv, GoesOn, Stamped, Looking
<1>7. Answering(c)' => TurnInv(c)'
  <2>1. Answering(c)' => Answering(c) /\ TurnInv(c)
    BY <1>1, <1>3, <1>4, <1>5 DEF Answering, At, WriterInv
  <2>2. writer[c].at = "store" /\ TurnInv(c) => \A q \in said :
          Puts(q, writer[c].about, writer[c].chat) => q.stamp < writer'[c].stamp
    BY <1>5 DEF TurnInv, Puts, ChatInv, QuestionsAreOnce
  <2> QED BY <1>1, <1>3, <1>5, <2>1, <2>2, TurnStays DEF GoesOn
<1>8. WriterInv(c)' /\ ReplayInv(c)'
  BY <1>1, <1>3, <1>4, <1>5, <1>7 DEF WriterInv, ReplayInv, GoesOn, At, RefsAreOwn
<1> QED
  BY <1>1, <1>3, <1>4, <1>5, <1>6, <1>8, StreamStepKeeps
     DEF GoesOn, AsksOnce, Asking, ChangesOn, ChatInv, ChatTypeOK

(* A step of the task that stores the answer, the last one excepted *)
LEMMA WriterGoesOn ==
  ASSUME ChatInv, NEW c \in Calls,
         UNCHANGED <<chat, said, replayed, blind, archive, passed, call>>,
         tick' \in {tick, tick + 1}, writer[c].at \in {"receive", "validate", "store"},
         NEW w, writer' = [writer EXCEPT ![c] = w], DOMAIN w = WriterFields,
         w.at \in {"validate", "store", "over"},
         w.about = writer[c].about, w.chat = writer[c].chat, w.stamp \in 0..tick',
         w.raws \in RawLists \cup {<< >>}, RefsAreOwn(call[c].user, w.valid),
         w.at = "store" => w.stamp = tick + 1
  PROVE  ChatInv'
<1>1. ChatCallInv(c) /\ WriterInv(c) /\ ReplayInv(c) /\ TurnInv(c)
  BY DEF ChatInv, WriterInv, Answering
<1>2. DOMAIN writer' = Calls /\ writer'[c] = w /\ \A d \in Calls : d # c => writer'[d] = writer[d]
  BY DEF ChatInv
<1>3. call[c].op = "stream" /\ call[c].at # "unused" /\ ~Looking(c) /\ ~At(c, "stream", "prepare")
  <2>1. NoWriter.at = "none"
    BY DEF NoWriter
  <2> QED BY <1>1, <2>1 DEF WriterInv, ChatCallInv
<1>4. Moves(c) /\ AsksOnce(c) /\ ChangesOn(c)
  BY <1>3 DEF ChatInv, CallShape, Moves, AsksOnce, Asking, ChangesOn
<1>5. ChatCallInv(c)'
  BY <1>1, <1>3 DEF ChatCallInv, Stamped, Looking, KeptInv, SidebarOf, Changing, Placed, Chats
<1>6. TurnInv(c)'
  <2>1. w.at = "store" => \A q \in said :
          Puts(q, writer[c].about, writer[c].chat) => q.stamp < w.stamp
    BY DEF ChatInv, ChatTypeOK
  <2> QED BY <1>1, <1>2, <1>3, <1>4, <2>1, TurnStays
<1>7. WriterInv(c)' /\ ReplayInv(c)'
  BY <1>1, <1>2, <1>3, <1>6 DEF WriterInv, ReplayInv, At, RefsAreOwn
<1> QED
  BY <1>1, <1>2, <1>4, <1>5, <1>7, StreamStepKeeps DEF ChatInv, ChatTypeOK

LEMMA ParsingAnswer ==
  ASSUME ChatInv, NEW c \in Calls, ParseAnswer(c) PROVE ChatInv'
<1>1. /\ UNCHANGED <<chat, said, replayed, blind, archive, passed, call>>
      /\ writer[c].at = "receive" /\ WriterInv(c) /\ tick \in Nat
      /\ DOMAIN writer[c] = WriterFields
  BY DEF ParseAnswer, sidebarVars, callVars, ChatInv, WriterInv
<1>2. ASSUME NEW raws \in RawLists, tick' = tick,
             writer' = [writer EXCEPT ![c].at = "validate", ![c].raws = raws]
      PROVE  ChatInv'
  <2>1. PICK w : w = [writer[c] EXCEPT !.at = "validate", !.raws = raws]
    OBVIOUS
  <2>2. writer' = [writer EXCEPT ![c] = w]
    BY <1>2, <2>1
  <2>3. /\ DOMAIN w = WriterFields /\ w.at = "validate" /\ w.raws = raws
        /\ w.about = writer[c].about /\ w.chat = writer[c].chat
        /\ w.stamp = writer[c].stamp /\ w.valid = writer[c].valid
    BY <1>1, <2>1 DEF WriterFields
  <2> QED BY <1>1, <1>2, <2>2, <2>3, WriterGoesOn DEF WriterInv
<1>3. ASSUME tick' = tick + 1,
             writer' = [writer EXCEPT ![c].at = "store", ![c].stamp = tick', ![c].whole = FALSE]
      PROVE  ChatInv'
  <2>1. PICK w : w = [writer[c] EXCEPT !.at = "store", !.stamp = tick + 1, !.whole = FALSE]
    OBVIOUS
  <2>2. writer' = [writer EXCEPT ![c] = w]
    BY <1>3, <2>1
  <2>3. /\ DOMAIN w = WriterFields /\ w.at = "store" /\ w.stamp = tick + 1
        /\ w.about = writer[c].about /\ w.chat = writer[c].chat
        /\ w.raws = writer[c].raws /\ w.valid = writer[c].valid
    BY <1>1, <2>1 DEF WriterFields
  <2>4. w.stamp \in 0..tick' /\ tick' \in {tick, tick + 1}
    BY <1>1, <1>3, <2>3
  <2>5. w.raws \in RawLists \cup {<< >>} /\ RefsAreOwn(call[c].user, w.valid)
    BY <1>1, <2>3 DEF WriterInv
  <2> QED BY <1>1, <2>2, <2>3, <2>4, <2>5, WriterGoesOn
<1> QED BY <1>2, <1>3 DEF ParseAnswer, sidebarVars, callVars

LEMMA ValidatingReference ==
  ASSUME ChatInv, NEW c \in Calls, ValidateReference(c) PROVE ChatInv'
<1>1. /\ UNCHANGED <<chat, said, tick, replayed, blind, archive, passed, call>>
      /\ writer[c].at = "validate" /\ writer[c].next \in DOMAIN writer[c].raws
      /\ WriterInv(c) /\ DOMAIN writer[c] = WriterFields
  BY DEF ValidateReference, sidebarVars, callVars, ChatInv, WriterInv
<1>2. PICK raw : raw = writer[c].raws[writer[c].next]
  OBVIOUS
<1>3. PICK valid :
        /\ writer' = [writer EXCEPT ![c].next = @ + 1, ![c].valid = valid]
        /\ \/ valid = writer[c].valid
           \/ IsAccepted(call[c].user, writer[c], raw) /\ valid = writer[c].valid \cup {raw[2]}
  BY <1>1, <1>2 DEF ValidateReference, ChatInv
<1>4. RefsAreOwn(call[c].user, valid)
  <2>1. raw[1] \in {"none", "any", "chunk", "entity"}
    BY <1>1, <1>2, ChatAssumption DEF WriterInv
  <2>2. CASE IsAccepted(call[c].user, writer[c], raw)
    <3>1. \/ RefOwner["chunk"][raw[2]] = call[c].user
          \/ RefOwner["entity"][raw[2]] = call[c].user
      BY <2>1, <2>2 DEF IsAccepted, LookupFinds
    <3>2. /\ RefsAreOwn(call[c].user, writer[c].valid)
          /\ Cardinality(writer[c].valid) < MaxReferences
      BY <1>1, <2>2 DEF IsAccepted, WriterInv
    <3>3. RefsAreOwn(call[c].user, writer[c].valid \cup {raw[2]})
      BY <3>1, <3>2, RefsStayOwn
    <3> QED BY <1>3, <3>2, <3>3
  <2> QED BY <1>1, <1>3, <2>2 DEF WriterInv
<1>5. PICK w : w = [writer[c] EXCEPT !.next = @ + 1, !.valid = valid]
  OBVIOUS
<1>6. writer' = [writer EXCEPT ![c] = w]
  BY <1>3, <1>5
<1>7. /\ DOMAIN w = WriterFields /\ w.at = "validate" /\ w.stamp = writer[c].stamp
      /\ w.about = writer[c].about /\ w.chat = writer[c].chat
      /\ w.raws = writer[c].raws /\ w.valid = valid
  BY <1>1, <1>5 DEF WriterFields
<1> QED BY <1>1, <1>4, <1>6, <1>7, WriterGoesOn DEF WriterInv

LEMMA FinishingAnswer ==
  ASSUME ChatInv, NEW c \in Calls, FinishAnswer(c) PROVE ChatInv'
<1>1. /\ UNCHANGED <<chat, said, replayed, blind, archive, passed, call>>
      /\ writer[c].at = "validate" /\ tick' = tick + 1 /\ tick \in Nat
      /\ WriterInv(c) /\ DOMAIN writer[c] = WriterFields
  BY DEF FinishAnswer, sidebarVars, ChatInv, WriterInv
<1>2. PICK valid \in {writer[c].valid, {}} :
        writer' = [writer EXCEPT ![c] = [@ EXCEPT !.at = "store", !.stamp = tick',
                     !.sent = TRUE, !.valid = valid, !.raws = <<>>, !.next = 1, !.allowed = {}]]
  BY DEF FinishAnswer
<1>3. PICK w : w = [writer[c] EXCEPT !.at = "store", !.stamp = tick', !.sent = TRUE,
                      !.valid = valid, !.raws = <<>>, !.next = 1, !.allowed = {}]
  OBVIOUS
<1>4. writer' = [writer EXCEPT ![c] = w]
  BY <1>2, <1>3
<1>5. /\ DOMAIN w = WriterFields /\ w.at = "store" /\ w.stamp = tick + 1
      /\ w.about = writer[c].about /\ w.chat = writer[c].chat
      /\ w.raws = <<>> /\ w.valid = valid
  BY <1>1, <1>3 DEF WriterFields
<1>6. RefsAreOwn(call[c].user, valid)
  BY <1>1, NoRefsAreOwn DEF WriterInv
<1>7. w.stamp \in 0..tick' /\ tick' \in {tick, tick + 1}
  BY <1>1, <1>5
<1> QED BY <1>1, <1>4, <1>5, <1>6, <1>7, WriterGoesOn

(* The question that a stream has looked up is the one it asked for *)
LEMMA ReadingTurn ==
  ASSUME ChatInv, NEW c \in Calls, ReadTurn(c) PROVE ChatInv'
<1>1. /\ UNCHANGED <<chat, said, tick, blind, archive, passed, faults>>
      /\ call[c].op = "stream" /\ call[c].at = "history" /\ ChangesOn(c)
      /\ ChatCallInv(c) /\ WriterInv(c) /\ ReplayInv(c)
      /\ writer[c] = NoWriter /\ StreamInv(c)
  BY DEF ReadTurn, At, sidebarVars, ChangesOn, ChatInv, ChatCallInv, Looking
<1>2. PICK q \in said :
        /\ q.role = "user" /\ q.id = call[c].key
        /\ \/ Refuses(c) /\ UNCHANGED <<replayed, writer>>
           \/ /\ ExistingAnswers(q) # {}
              /\ Answers(c, {call[c].user})
              /\ replayed' = [replayed EXCEPT ![c] = First(ExistingAnswers(q)).about]
              /\ UNCHANGED writer
           \/ /\ ExistingAnswers(q) = {}
              /\ Goto(c, "prepare")
              /\ writer' = [writer EXCEPT ![c].chat = q.chat, ![c].about = q.id]
              /\ UNCHANGED replayed
  BY DEF ReadTurn, Asked
<1>3. CASE Refuses(c) /\ UNCHANGED <<replayed, writer>>
  BY <1>1, <1>3, ChatEnds DEF chatVars
<1>4. \A a \in said : a.role = "ai" => \E r \in said : Puts(r, a.about, a.chat) /\ r.stamp < a.stamp
  BY DEF ChatInv, MessageInv, AnswerInv
<1>5. \A m \in said : m.stamp \in 1..tick /\ tick \in Nat /\ m.about \in Questions
  BY DEF ChatInv, ChatTypeOK
<1>6. CASE /\ ExistingAnswers(q) # {}
           /\ Answers(c, {call[c].user})
           /\ replayed' = [replayed EXCEPT ![c] = First(ExistingAnswers(q)).about]
           /\ UNCHANGED writer
  <2>1. /\ GoesOn(c) /\ call'[c].at = "answered" /\ call'[c].page = {call[c].user}
        /\ call[c].user \in Users
    BY <1>1, <1>6, AnswersFields DEF ChatInv, ChatCallInv
  <2>2. PICK a : a = First(ExistingAnswers(q)) /\ a \in ExistingAnswers(q)
    <3>1. \A m \in ExistingAnswers(q) : m.stamp \in Nat
      BY <1>5 DEF ExistingAnswers, History
    <3> QED BY <1>6, <3>1, FirstIsFirst
  <2>3. /\ a \in said /\ a.role = "ai" /\ a.chat = q.chat /\ a.stamp > q.stamp
        /\ \A n \in said : n.chat = q.chat /\ n.role = "user" =>
             ~(q.stamp < n.stamp /\ n.stamp < a.stamp)
    BY <2>2 DEF ExistingAnswers, History
  <2>4. replayed'[c] = a.about /\ \A d \in Calls : d # c => replayed'[d] = replayed[d]
    BY <1>6, <2>2 DEF ChatInv, ChatTypeOK
  <2>5. ReplayInv(c)'
    <3>1. PICK r \in said : Puts(r, a.about, a.chat) /\ r.stamp < a.stamp
      BY <1>4, <2>3
    <3>2. r.id # q.id => r.stamp # q.stamp
      BY <1>2, <3>1 DEF ChatInv, QuestionsAreOnce, Puts
    <3>3. r.id # q.id => r.stamp < q.stamp
      BY <1>5, <2>3, <3>1, <3>2 DEF Puts
    <3> QED BY <1>1, <1>2, <2>1, <2>3, <2>4, <3>1, <3>3 DEF ReplayInv, Puts, GoesOn
  <2>6. replayed' \in [Calls -> Questions \cup {Nothing}]
    BY <1>5, <1>6, <2>2, <2>3 DEF ChatInv, ChatTypeOK
  <2>7. ChatCallInv(c)'
    BY <1>1, <2>1 DEF ChatCallInv, GoesOn, Stamped, Looking
  <2>8. WriterInv(c)'
    <3>1. writer[c].at = "none"
      BY <1>1 DEF NoWriter
    <3> QED BY <1>1, <1>6, <2>1, <3>1 DEF WriterInv, Answering, At, GoesOn, RefsAreOwn
  <2> QED
    BY <1>1, <1>6, <2>1, <2>4, <2>5, <2>6, <2>7, <2>8, StreamStepKeeps
       DEF GoesOn, AsksOnce, Asking, ChatInv, ChatTypeOK
<1>7. CASE /\ ExistingAnswers(q) = {}
           /\ Goto(c, "prepare")
           /\ writer' = [writer EXCEPT ![c].chat = q.chat, ![c].about = q.id]
           /\ UNCHANGED replayed
  <2>1. GoesOn(c) /\ call'[c].at = "prepare" /\ call'[c].page = call[c].page
    BY <1>7, GotoFields DEF ChatInv
  <2>2. /\ DOMAIN writer' = Calls /\ DOMAIN writer'[c] = WriterFields
        /\ writer'[c].at = "none" /\ writer'[c].about = q.id /\ writer'[c].chat = q.chat
        /\ writer'[c].stamp = writer[c].stamp /\ writer'[c].valid = writer[c].valid
        /\ writer'[c].raws = writer[c].raws
        /\ \A d \in Calls : d # c => writer'[d] = writer[d]
    BY <1>1, <1>7 DEF ChatInv, WriterInv, WriterFields, NoWriter
  <2>3. ASSUME NEW a \in said, a.role = "ai", a.about = q.id PROVE FollowedUp(a)
    <3>1. PICK r \in said : Puts(r, a.about, a.chat) /\ r.stamp < a.stamp
      BY <1>4, <2>3
    <3>2. r = q
      BY <1>2, <2>3, <3>1 DEF ChatInv, QuestionsAreOnce, Puts
    <3>3. PICK n \in said : /\ n.chat = q.chat /\ n.role = "user"
                            /\ q.stamp < n.stamp /\ n.stamp < a.stamp
      BY <1>5, <1>7, <2>3, <3>1, <3>2 DEF ExistingAnswers, History, Puts
    <3>4. n.id # q.id
      BY <1>2, <1>5, <3>3 DEF ChatInv, QuestionsAreOnce
    <3> QED BY <2>3, <3>1, <3>2, <3>3, <3>4 DEF FollowedUp, Puts
  <2>4. Owns(call[c].user, q.chat)
    BY <1>1, <1>2 DEF StreamInv, ChatInv, QuestionsAreOnce
  <2>5. TurnInv(c)'
    <3>1. Owns(call[c].user, q.chat)'
      BY <1>1, <2>1, <2>4 DEF Owns, Placed, GoesOn, Moves, Chats
    <3>2. Owns(call[c].user, writer[c].chat)'
      BY <2>1, <2>2, <3>1 DEF Owns, Placed
    <3>3. \A a \in said : a.role = "ai" /\ a.about = q.id => FollowedUp(a)'
      BY <1>1, <2>3, FollowedUpStays
    <3> QED BY <1>1, <1>2, <2>2, <3>2, <3>3 DEF TurnInv, Puts
  <2>6. WriterInv(c)' /\ ReplayInv(c)'
    BY <1>1, <1>7, <2>1, <2>2, <2>5 DEF WriterInv, ReplayInv, GoesOn, At, RefsAreOwn
  <2>7. ChatCallInv(c)'
    BY <1>1, <2>1 DEF ChatCallInv, GoesOn, Stamped, Looking
  <2> QED
    BY <1>1, <1>7, <2>1, <2>2, <2>6, <2>7, StreamStepKeeps
       DEF GoesOn, AsksOnce, Asking, ChatInv, ChatTypeOK
<1> QED BY <1>2, <1>3, <1>6, <1>7

(* The answer that a task stores is the first to its question, as far as   *)
(* the task could know                                                     *)
LEMMA StoringAnswer ==
  ASSUME ChatInv, NEW c \in Calls, StoreAnswer(c) PROVE ChatInv'
<1>1. /\ UNCHANGED <<chat, tick, replayed, archive, passed, call>>
      /\ writer[c].at = "store" /\ writer' = [writer EXCEPT ![c].at = "over"]
      /\ ChatCallInv(c) /\ WriterInv(c) /\ ReplayInv(c) /\ TurnInv(c)
  BY DEF StoreAnswer, sidebarVars, ChatInv, WriterInv, Answering
<1>2. /\ DOMAIN writer' = Calls /\ DOMAIN writer'[c] = WriterFields
      /\ writer'[c].at = "over"
      /\ writer'[c].stamp = writer[c].stamp /\ writer'[c].valid = writer[c].valid
      /\ writer'[c].raws = writer[c].raws
      /\ \A d \in Calls : d # c => writer'[d] = writer[d]
  BY <1>1 DEF ChatInv, WriterInv, WriterFields
<1>3. /\ call[c].op = "stream" /\ call[c].at # "unused" /\ ~Looking(c)
      /\ ~At(c, "stream", "prepare")
  <2>1. NoWriter.at = "none"
    BY DEF NoWriter
  <2> QED BY <1>1, <2>1 DEF WriterInv, ChatCallInv
<1>4. Moves(c) /\ AsksOnce(c) /\ ChangesOn(c)
  BY <1>1, <1>3 DEF ChatInv, CallShape, Moves, AsksOnce, Asking, ChangesOn
<1>5. ChatCallInv(c)'
  BY <1>1, <1>3 DEF ChatCallInv, Stamped, Looking, KeptInv, SidebarOf, Changing, Placed, Chats
<1>6. WriterInv(c)'
  BY <1>1, <1>2, <1>3 DEF WriterInv, At, RefsAreOwn, Answering
<1>7. CASE UNCHANGED <<said, blind>>
  <2>1. ReplayInv(c)'
    BY <1>1, <1>7 DEF ReplayInv
  <2> QED
    BY <1>1, <1>2, <1>4, <1>5, <1>6, <1>7, <2>1, StreamStepKeeps DEF ChatInv, ChatTypeOK
<1>8. ASSUME NEW m,
             m = [id |-> c, role |-> "ai", chat |-> writer[c].chat,
                  stamp |-> writer[c].stamp, about |-> writer[c].about, by |-> call[c].user,
                  whole |-> writer[c].whole, refs |-> writer[c].valid],
             said' = said \cup {m},
             blind' = blind \cup {d \in Calls \ {c} : /\ writer[d].about = writer[c].about
                                                      /\ writer[d].at # "over"}
      PROVE  ChatInv'
  <2>1. /\ m.id = c /\ m.role = "ai" /\ m.chat = writer[c].chat /\ m.stamp = writer[c].stamp
        /\ m.about = writer[c].about /\ m.by = call[c].user /\ m.refs = writer[c].valid
    BY <1>8
  <2>2. PICK q \in said : /\ Puts(q, m.about, m.chat) /\ q.stamp < m.stamp
                          /\ q.id \in Questions /\ q.chat \in Chats /\ q.stamp \in 1..tick
    BY <1>1, <2>1 DEF TurnInv, ChatInv, ChatTypeOK
  <2>3. ChatTypeOK'
    <3>1. m.stamp \in 1..tick
      BY <1>1, <2>1, <2>2 DEF WriterInv, ChatInv
    <3>2. \A n \in said' : /\ n.id \in Questions /\ n.chat \in Chats /\ n.about \in Questions
                           /\ n.role \in {"user", "ai"} /\ n.stamp \in 1..tick
      BY <1>8, <2>1, <2>2, <3>1 DEF ChatInv, ChatTypeOK, Puts, Questions
    <3> QED BY <1>1, <1>2, <1>8, <3>2 DEF ChatInv, ChatTypeOK, Questions, Chats
  <2>4. ChatsStay /\ ClocksRise /\ HistoriesOfChatGrow /\ OthersStay(c)
    BY <1>1, <1>2, <1>8
       DEF ChatInv, ChatsStay, ClocksRise, HistoriesOfChatGrow, OthersStay
  <2>5. \A u : SidebarOf(u)' = SidebarOf(u)
    BY <1>1 DEF SidebarOf
  <2>6. ListsAreKept(c)
    BY <1>1, <1>4, <2>5, ListsStay
  <2>7. ReplayInv(c)'
    BY <1>1, <1>8 DEF ReplayInv
  <2>8. MessageInv(m)'
    <3>1. Owns(m.by, m.chat)'
      BY <1>1, <2>1 DEF TurnInv, Owns, Placed, Chats
    <3>2. RefsAreOwn(m.by, m.refs)'
      BY <1>1, <2>1 DEF WriterInv, RefsAreOwn
    <3> QED BY <1>2, <1>8, <2>1, <2>2, <3>1, <3>2 DEF MessageInv, AnswerInv, Puts
  <2>9. QuestionsAreOnce'
    BY <1>8, <2>1 DEF ChatInv, QuestionsAreOnce
  <2>10. AnswersAreOnce'
    <3>1. \A n \in said : n.role = "ai" => n.id # c
      BY <1>1 DEF ChatInv, MessageInv, AnswerInv
    <3> QED BY <1>8, <2>1, <3>1 DEF ChatInv, AnswersAreOnce
  <2>11. SecondAnswersHaveReasons'
    <3>1. \A a \in said : a.role = "ai" /\ a.about = m.about => m.id \in blind' \/ FollowedUp(a)'
      BY <1>1, <2>1, <2>4, FollowedUpStays DEF TurnInv, HistoriesOfChatGrow
    <3>2. \A a, b \in said : a.role = "ai" /\ b.role = "ai" /\ a.about = b.about /\ a # b =>
            a.id \in blind' \/ b.id \in blind' \/ FollowedUp(a)' \/ FollowedUp(b)'
      BY <2>4, FollowedUpStays DEF ChatInv, SecondAnswersHaveReasons, HistoriesOfChatGrow
    <3> QED BY <1>8, <3>1, <3>2 DEF SecondAnswersHaveReasons
  <2>12. ASSUME NEW d \in Calls, d # c, m.about = writer[d].about, Answering(d)
         PROVE  d \in blind'
    <3>1. writer[d].at # "over"
      BY <2>12 DEF Answering, ChatInv, WriterInv
    <3> QED BY <1>8, <2>1, <2>12, <3>1
  <2>13. NewMessagesAreSound(c)
    BY <1>8, <2>1, <2>8, <2>9, <2>10, <2>11, <2>12 DEF NewMessagesAreSound
  <2> QED BY <1>4, <1>5, <1>6, <2>3, <2>4, <2>6, <2>7, <2>13, ChatStepKeeps DEF CallerInv
<1> QED BY <1>7, <1>8 DEF StoreAnswer

LEMMA LosingWriter ==
  ASSUME ChatInv, NEW c \in Calls, LoseWriter(c) PROVE ChatInv'
<1>1. /\ UNCHANGED <<chat, said, tick, replayed, blind, archive, passed>>
      /\ writer[c].at \in {"receive", "validate", "store"}
      /\ writer' = [writer EXCEPT ![c].at = "over"]
      /\ ChatCallInv(c) /\ WriterInv(c) /\ ReplayInv(c) /\ TurnInv(c)
      /\ DOMAIN writer[c] = WriterFields
  BY DEF LoseWriter, sidebarVars, ChatInv, WriterInv, Answering
<1>2. CASE call' = call
  <2>1. PICK w : w = [writer[c] EXCEPT !.at = "over"]
    OBVIOUS
  <2>2. writer' = [writer EXCEPT ![c] = w]
    BY <1>1, <2>1
  <2>3. /\ DOMAIN w = WriterFields /\ w.at = "over" /\ w.stamp = writer[c].stamp
        /\ w.about = writer[c].about /\ w.chat = writer[c].chat
        /\ w.raws = writer[c].raws /\ w.valid = writer[c].valid
    BY <1>1, <2>1 DEF WriterFields
  <2>4. /\ w.stamp \in 0..tick' /\ w.raws \in RawLists \cup {<< >>}
        /\ RefsAreOwn(call[c].user, w.valid) /\ tick' \in {tick, tick + 1}
    BY <1>1, <2>3 DEF WriterInv
  <2> QED BY <1>1, <1>2, <2>2, <2>3, <2>4, WriterGoesOn
<1>3. CASE call' = [call EXCEPT ![c].at = "failed", ![c].got = Nothing]
  <2>1. GoesOn(c) /\ call'[c].at = "failed" /\ call'[c].page = call[c].page
    BY <1>3 DEF ChatInv, CallShape, GoesOn, Moves, CallFields
  <2>2. /\ DOMAIN writer' = Calls /\ DOMAIN writer'[c] = WriterFields
        /\ writer'[c].at = "over"
        /\ writer'[c].stamp = writer[c].stamp /\ writer'[c].valid = writer[c].valid
        /\ writer'[c].raws = writer[c].raws
        /\ \A d \in Calls : d # c => writer'[d] = writer[d]
    BY <1>1 DEF ChatInv, WriterInv, WriterFields
  <2>3. call[c].op = "stream" /\ call[c].at # "unused"
    <3>1. NoWriter.at = "none"
      BY DEF NoWriter
    <3> QED BY <1>1, <3>1 DEF WriterInv, ChatCallInv
  <2>4. ChatCallInv(c)'
    BY <1>1, <2>1, <2>3 DEF ChatCallInv, GoesOn, Stamped, Looking
  <2>5. WriterInv(c)' /\ ReplayInv(c)'
    BY <1>1, <2>1, <2>2, <2>3 DEF WriterInv, ReplayInv, GoesOn, At, Answering, RefsAreOwn
  <2> QED
    BY <1>1, <2>1, <2>2, <2>3, <2>4, <2>5, StreamStepKeeps
       DEF GoesOn, AsksOnce, Asking, ChangesOn, ChatInv, ChatTypeOK
<1> QED BY <1>2, <1>3 DEF LoseWriter

(* Questions *)
LEMMA CreatingChat ==
  ASSUME ChatInv, NEW c \in Calls, NEW u \in Users, CreateChat(c, u) PROVE ChatInv'
<1>1. /\ UNCHANGED <<said, replayed, blind, archive, passed>>
      /\ chat' = [chat EXCEPT ![c] = [owner |-> u, title |-> Nothing]]
      /\ tick' = tick + 1 /\ writer' = [writer EXCEPT ![c].stamp = tick']
      /\ Starts(c, "chat", u, c, "store") /\ tick \in Nat
      /\ ChatCallInv(c) /\ WriterInv(c) /\ c \in Chats /\ c \in Questions
  BY DEF CreateChat, sidebarVars, ChatInv, Chats, Questions
<1>2. /\ Moves(c) /\ call[c].at = "unused" /\ call'[c].op = "chat" /\ call'[c].at = "store"
      /\ call'[c].user = u /\ call'[c].key = c /\ call'[c].page = {}
  BY <1>1, StartsFields DEF ChatInv
<1>3. /\ writer[c] = NoWriter /\ writer[c].at = "none" /\ chat[c] = Nothing
      /\ replayed[c] = Nothing
  <2>1. NoWriter.at = "none"
    BY DEF NoWriter
  <2> QED BY <1>1, <1>2, <2>1 DEF ChatCallInv
<1>4. /\ DOMAIN writer' = Calls /\ DOMAIN writer'[c] = WriterFields
      /\ writer'[c].at = "none" /\ writer'[c].stamp = tick + 1
      /\ writer'[c].raws = writer[c].raws /\ writer'[c].valid = {}
      /\ \A d \in Calls : d # c => writer'[d] = writer[d]
  BY <1>1, <1>3 DEF ChatInv, WriterInv, WriterFields, NoWriter
<1>5. /\ chat'[c].owner = u /\ \A k \in Chats : k # c => chat'[k] = chat[k]
      /\ chat' \in [Chats -> [owner : Users, title : Calls \cup {Nothing}] \cup {Nothing}]
  BY <1>1 DEF ChatInv, ChatTypeOK
<1>6. ChatTypeOK'
  BY <1>1, <1>4, <1>5 DEF ChatInv, ChatTypeOK
<1>7. ClocksRise /\ HistoriesOfChatGrow /\ OthersStay(c) /\ AsksOnce(c) /\ ChangesOn(c)
  BY <1>1, <1>2, <1>4, <1>5
     DEF ClocksRise, HistoriesOfChatGrow, OthersStay, AsksOnce, ChangesOn, ChatInv, Chats
<1>8. ChatsStay
  BY <1>2, <1>5 DEF ChatsStay, Placed
<1>9. NewMessagesAreSound(c)
  <2>1. QuestionsAreOnce' /\ AnswersAreOnce'
    BY <1>1 DEF ChatInv, QuestionsAreOnce, AnswersAreOnce
  <2>2. SecondAnswersHaveReasons'
    BY <1>1, FollowedUpStays DEF ChatInv, SecondAnswersHaveReasons
  <2> QED BY <1>1, <2>1, <2>2 DEF NewMessagesAreSound
<1>10. ListsAreKept(c)
  <2>1. Changing(u)'
    BY <1>2 DEF Changing
  <2>2. ASSUME NEW v \in Users, v # u PROVE SidebarOf(v)' = SidebarOf(v)
    BY <1>3, <1>5, <2>2, SidebarStays
  <2> QED BY <1>1, <1>2, <1>7, <2>1, <2>2, ListsStay
<1>11. StampInv(c)'
  <2>1. \A m \in said : m.stamp \in 1..tick
    BY DEF ChatInv, ChatTypeOK
  <2>2. ASSUME NEW d \in Calls, d # c, Stamped(d)' PROVE writer'[d].stamp # tick + 1
    <3>1. Stamped(d)
      BY <1>2, <2>2 DEF Stamped, Moves
    <3>2. writer[d].stamp \in 1..tick
      BY <3>1 DEF ChatInv, ChatCallInv, StampInv
    <3> QED BY <1>1, <1>4, <2>2, <3>2
  <2> QED BY <1>1, <1>4, <2>1, <2>2 DEF StampInv
<1>12. Owns(call[c].user, call[c].key)'
  BY <1>1, <1>2, <1>5 DEF Owns, Placed, Chats
<1>13. ChatCallInv(c)'
  BY <1>2, <1>11, <1>12 DEF ChatCallInv, Looking
<1>14. WriterInv(c)' /\ ReplayInv(c)'
  BY <1>1, <1>2, <1>3, <1>4, NoRefsAreOwn DEF WriterInv, ReplayInv, At, Answering, RefsAreOwn
<1> QED
  BY <1>2, <1>6, <1>7, <1>8, <1>9, <1>10, <1>13, <1>14, ChatStepKeeps DEF CallerInv

LEMMA ReadingChat ==
  ASSUME ChatInv, NEW c \in Calls, ReadChat(c) PROVE ChatInv'
<1>1. /\ UNCHANGED <<chat, said, replayed, blind, archive, passed>>
      /\ call[c].op = "say" /\ call[c].at = "read" /\ ChangesOn(c) /\ tick \in Nat
      /\ ChatCallInv(c) /\ WriterInv(c) /\ ReplayInv(c)
  BY DEF ReadChat, At, ChangesOn, sidebarVars, ChatInv
<1>2. CASE Refuses(c) /\ UNCHANGED <<tick, writer>>
  BY <1>1, <1>2, ChatEnds DEF chatVars
<1>3. CASE /\ chat[call[c].key] # Nothing /\ chat[call[c].key].owner = call[c].user
           /\ Goto(c, "store")
           /\ tick' = tick + 1 /\ writer' = [writer EXCEPT ![c].stamp = tick']
  <2>1. GoesOn(c) /\ call'[c].at = "store" /\ call'[c].page = call[c].page
    BY <1>3, GotoFields DEF ChatInv
  <2>2. /\ DOMAIN writer' = Calls /\ DOMAIN writer'[c] = WriterFields
        /\ writer'[c].at = writer[c].at /\ writer'[c].stamp = tick + 1
        /\ writer'[c].raws = writer[c].raws /\ writer'[c].valid = writer[c].valid
        /\ \A d \in Calls : d # c => writer'[d] = writer[d]
    BY <1>1, <1>3 DEF ChatInv, WriterInv, WriterFields
  <2>3. StampInv(c)'
    <3>1. \A m \in said : m.stamp \in 1..tick
      BY DEF ChatInv, ChatTypeOK
    <3>2. ASSUME NEW d \in Calls, d # c, Stamped(d)' PROVE writer'[d].stamp # tick + 1
      <4>1. Stamped(d)
        BY <2>1, <3>2 DEF Stamped, GoesOn, Moves
      <4>2. writer[d].stamp \in 1..tick
        BY <4>1 DEF ChatInv, ChatCallInv, StampInv
      <4> QED BY <1>1, <2>2, <3>2, <4>2
    <3> QED BY <1>1, <1>3, <2>2, <3>1, <3>2 DEF StampInv
  <2>4. Owns(call[c].user, call[c].key)' /\ Placed(call[c].key)'
    BY <1>1, <1>3, <2>1 DEF ChatCallInv, Owns, Placed, GoesOn, Moves, Chats
  <2>5. ChatCallInv(c)'
    BY <1>1, <2>1, <2>3, <2>4 DEF ChatCallInv, Looking, GoesOn
  <2>6. WriterInv(c)' /\ ReplayInv(c)'
    BY <1>1, <1>3, <2>1, <2>2
       DEF WriterInv, ReplayInv, At, Answering, GoesOn, RefsAreOwn
  <2> QED
    BY <1>1, <1>3, <2>1, <2>2, <2>5, <2>6, StreamStepKeeps
       DEF GoesOn, AsksOnce, Asking, ChatInv, ChatTypeOK
<1> QED BY <1>2, <1>3 DEF ReadChat

LEMMA StoringQuestion ==
  ASSUME ChatInv, NEW c \in Calls, StoreQuestion(c) PROVE ChatInv'
<1>1. /\ UNCHANGED <<chat, tick, writer, replayed, blind, archive, passed>>
      /\ call[c].op \in {"chat", "say"} /\ call[c].at = "store" /\ tick \in Nat
      /\ said' = said \cup {Question(c, call[c].key, writer[c].stamp)}
      /\ Asking(c) /\ Stamped(c) /\ ChatCallInv(c) /\ WriterInv(c) /\ ReplayInv(c)
      /\ c \in Questions
  BY DEF StoreQuestion, sidebarVars, ChatInv, Asking, Stamped, Questions
<1>2. PICK s : /\ Goto(c, s) /\ s \in {"invalidate", "archive"}
               /\ call[c].op = "chat" => s = "invalidate"
  BY DEF StoreQuestion
<1>3. GoesOn(c) /\ call'[c].at = s /\ call'[c].page = call[c].page
  BY <1>2, GotoFields DEF ChatInv
<1>4. PICK m : m = Question(c, call[c].key, writer[c].stamp)
  OBVIOUS
<1>5. /\ said' = said \cup {m} /\ m.id = c /\ m.role = "user" /\ m.chat = call[c].key
      /\ m.stamp = writer[c].stamp /\ m.about = c /\ m.by = call[c].user /\ m.refs = {}
  BY <1>1, <1>4 DEF Question
<1>6. Owns(call[c].user, call[c].key) /\ call[c].key \in Chats /\ StampInv(c)
  BY <1>1 DEF ChatCallInv, Owns, Placed
<1>7. ChatTypeOK'
  <2>1. \A n \in said' : /\ n.id \in Questions /\ n.chat \in Chats /\ n.about \in Questions
                         /\ n.role \in {"user", "ai"} /\ n.stamp \in 1..tick
    BY <1>1, <1>5, <1>6 DEF ChatInv, ChatTypeOK, StampInv
  <2> QED BY <1>1, <2>1 DEF ChatInv, ChatTypeOK, Questions, Chats
<1>8. /\ ChatsStay /\ ClocksRise /\ HistoriesOfChatGrow /\ OthersStay(c) /\ AsksOnce(c)
      /\ ChangesOn(c)
  <2>1. ChatsStay /\ ClocksRise /\ HistoriesOfChatGrow /\ OthersStay(c)
    BY <1>1, <1>5 DEF ChatInv, ChatsStay, ClocksRise, HistoriesOfChatGrow, OthersStay
  <2>2. AsksOnce(c) /\ ChangesOn(c)
    BY <1>1, <1>2, <1>3 DEF AsksOnce, Asking, ChangesOn, GoesOn
  <2> QED BY <2>1, <2>2
<1>9. \A u : SidebarOf(u)' = SidebarOf(u)
  BY <1>1 DEF SidebarOf
<1>10. ListsAreKept(c)
  BY <1>1, <1>3, <1>8, <1>9, ListsStay DEF GoesOn
<1>11. MessageInv(m)'
  <2>1. Owns(m.by, m.chat)'
    BY <1>5, <1>6, <1>8, OwnsStays, <1>3 DEF GoesOn, AsksOnce
  <2>2. RefsAreOwn(m.by, m.refs)'
    BY <1>5, NoRefsAreOwn DEF RefsAreOwn
  <2> QED BY <1>2, <1>3, <1>5, <2>1, <2>2 DEF MessageInv, QuestionInv, Asking
<1>12. QuestionsAreOnce'
  <2>1. \A n \in said : n.role = "user" => n.id # c /\ n.stamp # m.stamp
    BY <1>1, <1>5, <1>6 DEF ChatInv, MessageInv, QuestionInv, StampInv
  <2> QED BY <1>5, <2>1 DEF ChatInv, QuestionsAreOnce
<1>13. AnswersAreOnce'
  BY <1>5 DEF ChatInv, AnswersAreOnce
<1>14. SecondAnswersHaveReasons'
  BY <1>1, <1>5, <1>8, FollowedUpStays
     DEF ChatInv, SecondAnswersHaveReasons, HistoriesOfChatGrow
<1>15. NewMessagesAreSound(c)
  BY <1>5, <1>6, <1>11, <1>12, <1>13, <1>14 DEF NewMessagesAreSound, StampInv
<1>16. ChatCallInv(c)'
  BY <1>1, <1>2, <1>3, <1>8 DEF ChatCallInv, Stamped, Looking, Placed, Chats, GoesOn, Moves
<1>17. WriterInv(c)' /\ ReplayInv(c)'
  <2>1. ~Answering(c)'
    BY <1>1, <1>2, <1>3 DEF WriterInv, Answering, At, GoesOn
  <2> QED BY <1>1, <1>3, <1>8, <2>1
             DEF WriterInv, ReplayInv, At, GoesOn, RefsAreOwn, HistoriesOfChatGrow
<1> QED
  BY <1>3, <1>7, <1>8, <1>10, <1>15, <1>16, <1>17, ChatStepKeeps DEF CallerInv, GoesOn

(* Titles and deletions *)
LEMMA ChangingChat ==
  ASSUME ChatInv, NEW c \in Calls, ChangeChat(c) PROVE ChatInv'
<1>1. /\ UNCHANGED <<said, tick, writer, replayed, blind, archive, passed>>
      /\ call[c].op \in {"title", "delete chat"} /\ call[c].at = "change" /\ tick \in Nat
      /\ ChatCallInv(c) /\ WriterInv(c) /\ ReplayInv(c)
      /\ call[c].user \in Users /\ Owns(call[c].user, call[c].key) /\ ChangesOn(c)
  BY DEF ChangeChat, talkVars, sidebarVars, ChatInv, ChatCallInv, ChangesOn
<1>2. CASE Refuses(c) /\ UNCHANGED chat
  BY <1>1, <1>2, ChatEnds DEF chatVars
<1>3. ASSUME NEW k, k = call[c].key, NEW row, chat' = [chat EXCEPT ![k] = row],
             row # Nothing => chat[k] # Nothing /\ row = [chat[k] EXCEPT !.title = c],
             Goto(c, "invalidate")
      PROVE  ChatInv'
  <2>1. GoesOn(c) /\ call'[c].at = "invalidate" /\ call'[c].page = call[c].page
    BY <1>3, GotoFields DEF ChatInv
  <2>2. k \in Chats /\ (chat[k] # Nothing => chat[k].owner = call[c].user)
    BY <1>1, <1>3 DEF Owns, Placed
  <2>3. chat[k] # Nothing => chat[k] \in [owner : Users, title : Calls \cup {Nothing}]
    BY <2>2 DEF ChatInv, ChatTypeOK
  <2>4. row # Nothing => /\ row \in [owner : Users, title : Calls \cup {Nothing}]
                         /\ row.owner = call[c].user /\ chat[k].owner = row.owner
    BY <1>3, <2>2, <2>3
  <2>5. /\ chat'[k] = row /\ \A i \in Chats : i # k => chat'[i] = chat[i]
        /\ chat' \in [Chats -> [owner : Users, title : Calls \cup {Nothing}] \cup {Nothing}]
    BY <1>3, <2>2, <2>4 DEF ChatInv, ChatTypeOK
  <2>6. ChatTypeOK'
    BY <1>1, <2>5 DEF ChatInv, ChatTypeOK
  <2>7. ChatsStay /\ \A d \in Chats : chat[d] = Nothing => chat'[d] = Nothing
    BY <1>3, <2>4, <2>5 DEF ChatsStay
  <2>8. ClocksRise /\ HistoriesOfChatGrow /\ OthersStay(c) /\ AsksOnce(c)
    <3>1. \A d \in Calls : d # c /\ chat[d] = Nothing => chat'[d] = Nothing
      BY <2>7 DEF Chats
    <3>2. tick' = tick /\ tick \in Nat
      BY <1>1, Zenon
    <3>3. ClocksRise
      BY ONLY <3>2 DEF ClocksRise
    <3>4. HistoriesOfChatGrow
      BY <1>1 DEF HistoriesOfChatGrow
    <3>5. OthersStay(c)
      BY <1>1, <3>1 DEF ChatInv, OthersStay
    <3>6. AsksOnce(c)
      BY <1>1, <2>1 DEF AsksOnce, Asking, GoesOn
    <3> QED BY <3>3, <3>5, <3>6, <3>4
  <2>9. NewMessagesAreSound(c)
    <3>1. QuestionsAreOnce' /\ AnswersAreOnce'
      BY <1>1 DEF ChatInv, QuestionsAreOnce, AnswersAreOnce
    <3>2. SecondAnswersHaveReasons'
      BY <1>1, FollowedUpStays DEF ChatInv, SecondAnswersHaveReasons
    <3> QED BY <1>1, <3>1, <3>2 DEF NewMessagesAreSound
  <2>10. ListsAreKept(c)
    <3>1. Changing(call[c].user)'
      BY <1>1, <2>1 DEF Changing, GoesOn
    <3>2. ASSUME NEW v \in Users, v # call[c].user PROVE SidebarOf(v)' = SidebarOf(v)
      BY <2>2, <2>4, <2>5, <3>2, SidebarStays
    <3>3. \A v \in Users : SidebarOf(v)' = SidebarOf(v) \/ Changing(v)'
      <4>1. PICK u : u = call[c].user
        OBVIOUS
      <4>2. Changing(u)'
        BY <2>1, <3>1, <4>1 DEF Changing, GoesOn
      <4> QED BY <3>2, <4>1, <4>2
    <3>4. ChangesOn(c)
      BY <1>1
    <3> QED BY <1>1, <2>1, <3>3, <3>4, ListsStay DEF GoesOn
  <2>11. ChatCallInv(c)'
    BY <1>1, <2>1 DEF ChatCallInv, Stamped, Looking, Placed, Chats, GoesOn, Moves
  <2>12. WriterInv(c)' /\ ReplayInv(c)'
    <3>1. ~Answering(c)'
      BY <1>1, <2>1 DEF WriterInv, Answering, At, GoesOn
    <3> QED BY <1>1, <2>1, <3>1 DEF WriterInv, ReplayInv, At, GoesOn, RefsAreOwn
  <2> QED
    BY <2>1, <2>6, <2>7, <2>8, <2>9, <2>10, <2>11, <2>12, ChatStepKeeps
       DEF CallerInv, GoesOn
<1>4. CASE /\ ~(call[c].op = "title" /\ chat[call[c].key] = Nothing)
           /\ chat' = [chat EXCEPT ![call[c].key] =
                IF call[c].op = "title" THEN [@ EXCEPT !.title = c] ELSE Nothing]
           /\ Goto(c, "invalidate")
  <2>1. PICK k : k = call[c].key
    OBVIOUS
  <2>2. PICK row : row = IF call[c].op = "title" THEN [chat[k] EXCEPT !.title = c] ELSE Nothing
    OBVIOUS
  <2>3. chat' = [chat EXCEPT ![k] = row]
    BY <1>4, <2>1, <2>2
  <2> QED BY <1>3, <1>4, <2>1, <2>2, <2>3
<1> QED BY <1>2, <1>4 DEF ChangeChat

-----------------------------------------------------------------------------
(* The sidebar *)

(* The steps that change the kept lists only *)
LEMMA SidebarStepKeeps ==
  ASSUME ChatInv, NEW c \in Calls, UNCHANGED <<chat, said, tick, writer, replayed, blind>>,
         GoesOn(c), call[c].at # "unused", call'[c].at \in {"archive", "answered"},
         call'[c].page \subseteq {call[c].user},
         DOMAIN archive' = Users, passed \subseteq passed', passed' \subseteq Users,
         ListsAreKept(c)
  PROVE  ChatInv'
<1>1. ChatCallInv(c) /\ WriterInv(c) /\ ReplayInv(c) /\ tick \in Nat
  BY DEF ChatInv
<1>2. ChatTypeOK' /\ Moves(c) /\ AsksOnce(c)
  BY DEF ChatInv, ChatTypeOK, GoesOn, AsksOnce, Asking
<1>3. ClocksRise /\ HistoriesOfChatGrow /\ OthersStay(c)
  BY DEF ChatInv, ClocksRise, HistoriesOfChatGrow, OthersStay
<1>4. ChatsStay /\ NewMessagesAreSound(c)
  BY <1>2, TalkIsLeft DEF AsksOnce
<1>5. ChatCallInv(c)'
  BY <1>1 DEF ChatCallInv, Stamped, Looking, Placed, Chats, GoesOn, Moves
<1>6. ASSUME Answering(c)' PROVE TurnInv(c)'
  <2>1. Answering(c) /\ TurnInv(c)
    BY <1>1, <1>6 DEF Answering, At, WriterInv
  <2>2. writer[c].at = "store" => \A q \in said :
          Puts(q, writer[c].about, writer[c].chat) => q.stamp < writer'[c].stamp
    BY <2>1 DEF TurnInv, Puts, ChatInv, QuestionsAreOnce
  <2> QED BY <1>2, <2>1, <2>2, TurnStays DEF GoesOn, AsksOnce
<1>7. WriterInv(c)' /\ ReplayInv(c)'
  BY <1>1, <1>6 DEF WriterInv, ReplayInv, At, GoesOn, RefsAreOwn
<1> QED BY <1>2, <1>3, <1>4, <1>5, <1>7, ChatStepKeeps DEF CallerInv

(* Whoever has read the list before it changed is recorded *)
LEMMA InvalidatingArchive ==
  ASSUME ChatInv, NEW c \in Calls, InvalidateArchive(c) PROVE ChatInv'
<1>1. /\ UNCHANGED <<chat, said, tick, writer, replayed, blind>>
      /\ archive' = [archive EXCEPT ![call[c].user] = Nothing]
      /\ passed' = IF \E d \in Calls : Keeping(d, call[c].user)
                     THEN passed \cup {call[c].user} ELSE passed
      /\ Goto(c, "archive") /\ call[c].at = "invalidate" /\ call[c].user \in Users
      /\ call[c].page \subseteq {call[c].user}
  BY DEF InvalidateArchive, talkVars, ChatInv, ChatCallInv
<1>2. GoesOn(c) /\ call'[c].at = "archive" /\ call'[c].page = call[c].page
  BY <1>1, GotoFields DEF ChatInv
<1>3. /\ DOMAIN archive' = Users /\ archive'[call[c].user] = Nothing
      /\ \A u \in Users : u # call[c].user => archive'[u] = archive[u]
      /\ passed \subseteq passed' /\ passed' \subseteq Users
  BY <1>1 DEF ChatInv, ChatTypeOK
<1>4. ASSUME NEW u \in Users, u # call[c].user, NEW list, KeptInv(u, list)
      PROVE  KeptInv(u, list)'
  <2>1. Changing(u) => Changing(u)'
    BY <1>2, <1>4 DEF Changing, GoesOn, Moves
  <2>2. SidebarOf(u)' = SidebarOf(u)
    BY <1>1 DEF SidebarOf
  <2> QED BY <1>3, <1>4, <2>1, <2>2 DEF KeptInv
<1>5. ASSUME NEW u \in Users, NEW list, archive'[u] = list, list # Nothing
      PROVE  KeptInv(u, list)'
  <2>1. u # call[c].user /\ archive[u] = list
    BY <1>3, <1>5
  <2> QED BY <1>4, <1>5, <2>1 DEF ChatInv
<1>6. ASSUME NEW d \in Calls, d # c, call[d].at = "keep"
      PROVE  KeptInv(call[d].user, call[d].got)'
  <2>1. PICK u, list : u = call[d].user /\ list = call[d].got
    OBVIOUS
  <2>2. KeptInv(u, list) /\ u \in Users
    BY <1>6, <2>1 DEF ChatInv, ChatCallInv
  <2>3. KeptInv(u, list)'
    <3>1. CASE u = call[c].user
      BY <1>1, <1>6, <2>1, <3>1 DEF Keeping, KeptInv
    <3>2. CASE u # call[c].user
      BY <1>4, <2>2, <3>2
    <3> QED BY <3>1, <3>2
  <2>4. u = call'[d].user /\ list = call'[d].got
    BY <1>2, <1>6, <2>1 DEF GoesOn, Moves
  <2> QED BY ONLY <2>3, <2>4 DEF KeptInv, SidebarOf, Changing
<1>7. ListsAreKept(c)
  BY <1>5, <1>6 DEF ListsAreKept
<1> QED BY <1>1, <1>2, <1>3, <1>7, SidebarStepKeeps

LEMMA KeepingArchive ==
  ASSUME ChatInv, NEW c \in Calls, KeepArchive(c) PROVE ChatInv'
<1>1. /\ UNCHANGED <<chat, said, tick, writer, replayed, blind, passed>>
      /\ call[c].at = "keep" /\ call[c].user \in Users /\ Answers(c, {call[c].user})
      /\ KeptInv(call[c].user, call[c].got) /\ ChangesOn(c)
  BY DEF KeepArchive, talkVars, ChatInv, ChatCallInv, ChangesOn
<1>2. GoesOn(c) /\ call'[c].at = "answered" /\ call'[c].page = {call[c].user}
  BY <1>1, AnswersFields DEF ChatInv
<1>3. /\ DOMAIN archive' = Users /\ archive'[call[c].user] = call[c].got
      /\ \A u \in Users : u # call[c].user => archive'[u] \in {archive[u], Nothing}
  BY <1>1 DEF KeepArchive
<1>4. \A u \in Users : Changing(u) => Changing(u)'
  BY <1>1, <1>2 DEF Changing, GoesOn, Moves
<1>5. \A u : SidebarOf(u)' = SidebarOf(u)
  BY <1>1 DEF SidebarOf
<1>6. \A u \in Users : \A list : KeptInv(u, list) => KeptInv(u, list)'
  BY <1>1, <1>4, <1>5 DEF KeptInv
<1>7. ASSUME NEW u \in Users, NEW list, archive'[u] = list, list # Nothing
      PROVE  KeptInv(u, list)'
  BY <1>1, <1>3, <1>6, <1>7 DEF ChatInv
<1>8. ASSUME NEW d \in Calls, d # c, call[d].at = "keep"
      PROVE  KeptInv(call[d].user, call[d].got)'
  <2>1. PICK u, list : u = call[d].user /\ list = call[d].got
    OBVIOUS
  <2>2. KeptInv(u, list) /\ u \in Users
    BY <1>8, <2>1 DEF ChatInv, ChatCallInv
  <2>3. KeptInv(u, list)' /\ u = call'[d].user /\ list = call'[d].got
    BY <1>2, <1>6, <1>8, <2>1, <2>2 DEF GoesOn, Moves
  <2> QED BY ONLY <2>3 DEF KeptInv, SidebarOf, Changing
<1>9. ListsAreKept(c) /\ passed' \subseteq Users
  BY <1>1, <1>7, <1>8 DEF ListsAreKept, ChatInv, ChatTypeOK
<1> QED BY <1>1, <1>2, <1>3, <1>9, SidebarStepKeeps

(* Thirty seconds have passed, or nothing has happened *)
LEMMA ListsExpire ==
  ASSUME ChatInv, UNCHANGED <<chat, said, tick, writer, replayed, blind, passed, call>>,
         DOMAIN archive' = Users, \A u \in Users : archive'[u] \in {archive[u], Nothing}
  PROVE  ChatInv'
<1>1. \A u, k : Owns(u, k) => Owns(u, k)'
  BY DEF Owns, Placed, Chats
<1>2. \A u, list : KeptInv(u, list) => KeptInv(u, list)'
  BY DEF KeptInv, SidebarOf, Changing, Chats
<1>3. \A a : FollowedUp(a) => FollowedUp(a)'
  BY FollowedUpStays
<1>4. ASSUME NEW u \in Users, archive'[u] # Nothing PROVE KeptInv(u, archive[u])'
  <2>1. PICK list : list = archive'[u]
    OBVIOUS
  <2>2. KeptInv(u, list)'
    BY <1>2, <1>4, <2>1 DEF ChatInv
  <2> QED BY ONLY <2>1, <2>2 DEF KeptInv, SidebarOf, Changing
<1>5. ASSUME NEW m \in said PROVE MessageInv(m)'
  <2>1. MessageInv(m)
    BY DEF ChatInv
  <2> QED BY <1>1, <2>1 DEF MessageInv, RefsAreOwn, QuestionInv, AnswerInv, Asking, Puts
<1>6. ASSUME NEW c \in Calls PROVE ChatCallInv(c)'
  <2>1. ChatCallInv(c)
    BY DEF ChatInv
  <2>2. call[c].at = "keep" => KeptInv(call[c].user, call[c].got)'
    <3>1. PICK u, list : u = call[c].user /\ list = call[c].got
      OBVIOUS
    <3>2. call[c].at = "keep" => KeptInv(u, list)'
      BY <1>2, <2>1, <3>1 DEF ChatCallInv
    <3>3. u = call'[c].user /\ list = call'[c].got
      BY <3>1
    <3> QED BY ONLY <3>2, <3>3 DEF KeptInv, SidebarOf, Changing
  <2>3. Stamped(c) => StampInv(c)'
    BY <2>1 DEF ChatCallInv, StampInv, Stamped
  <2>4. Looking(c) => StreamInv(c)'
    BY <2>1 DEF ChatCallInv, StreamInv, Owns, Placed, Chats
  <2> QED BY <2>1, <2>2, <2>3, <2>4
          DEF ChatCallInv, Owns, Placed, Stamped, Looking, Chats
<1>7. ASSUME NEW c \in Calls PROVE WriterInv(c)' /\ ReplayInv(c)'
  <2>1. WriterInv(c) /\ ReplayInv(c)
    BY DEF ChatInv
  <2>2. TurnInv(c) => TurnInv(c)'
    BY <1>3 DEF TurnInv, Owns, Placed, Chats, Puts
  <2> QED BY <2>1, <2>2 DEF WriterInv, ReplayInv, Answering, At, RefsAreOwn
<1>8. ChatTypeOK' /\ CallShape'
  BY DEF ChatInv, ChatTypeOK, CallShape
<1>9. QuestionsAreOnce' /\ AnswersAreOnce' /\ SecondAnswersHaveReasons'
  BY <1>3 DEF ChatInv, QuestionsAreOnce, AnswersAreOnce, SecondAnswersHaveReasons
<1> QED BY <1>4, <1>5, <1>6, <1>7, <1>8, <1>9 DEF ChatInv

LEMMA ChatStarts == ChatInit /\ CallsInit => ChatInv
<1> SUFFICES ASSUME ChatInit, CallsInit PROVE ChatInv
  OBVIOUS
<1>1. /\ SeedChat \notin Calls /\ ChatOwner \in Users
      /\ Len(SeedAsked) \in Nat /\ DOMAIN SeedAsked = 1..Len(SeedAsked)
      /\ \A i \in DOMAIN SeedAsked : SeedAsked[i] \in Questions /\ SeedAsked[i] \notin Calls
  BY ChatAssumption
<1>2. \A m \in said : \E i \in DOMAIN SeedAsked :
        /\ m.id = SeedAsked[i] /\ m.role = "user" /\ m.chat = SeedChat /\ m.stamp = i
        /\ m.about = SeedAsked[i] /\ m.by = ChatOwner /\ m.refs = {}
        /\ m = [id |-> SeedAsked[i], role |-> "user", chat |-> SeedChat, stamp |-> i,
                about |-> SeedAsked[i], by |-> ChatOwner, whole |-> TRUE, refs |-> {}]
  BY DEF ChatInit
<1>3. CallShape /\ \A c \in Calls : call[c] = Unused
  BY DEF CallsInit, CallShape, Unused, CallFields
<1>4. /\ tick = Len(SeedAsked) /\ passed = {} /\ blind = {}
      /\ DOMAIN writer = Calls /\ \A c \in Calls : writer[c] = NoWriter
      /\ \A c \in Calls : replayed[c] = Nothing
      /\ DOMAIN archive = Users /\ \A u \in Users : archive[u] = Nothing
      /\ \A c \in Calls : chat[c] = Nothing
      /\ chat[SeedChat] = [owner |-> ChatOwner, title |-> Nothing]
      /\ chat \in [Chats -> [owner : Users, title : Calls \cup {Nothing}] \cup {Nothing}]
      /\ replayed \in [Calls -> Questions \cup {Nothing}]
  BY <1>1 DEF ChatInit, Chats
<1>5. NoWriter.at = "none"
  BY DEF NoWriter
<1>6. ChatTypeOK
  <2>1. \A m \in said : /\ m.id \in Questions /\ m.chat \in Chats /\ m.about \in Questions
                        /\ m.role \in {"user", "ai"} /\ m.stamp \in 1..tick
    BY <1>1, <1>2, <1>4 DEF Chats
  <2> QED BY <1>4, <1>5, <2>1 DEF ChatTypeOK
<1>7. ASSUME NEW m \in said PROVE MessageInv(m)
  <2>1. Owns(m.by, m.chat)
    BY <1>1, <1>2, <1>4 DEF Owns, Placed, Chats
  <2> QED BY <1>1, <1>2, <2>1, NoRefsAreOwn DEF MessageInv, QuestionInv
<1>8. QuestionsAreOnce
  <2>1. \A i, j \in DOMAIN SeedAsked : SeedAsked[i] = SeedAsked[j] => i = j
    BY ChatAssumption
  <2>2. ASSUME NEW m \in said, NEW n \in said, n.id = m.id \/ n.stamp = m.stamp PROVE n = m
    <3>1. PICK i \in DOMAIN SeedAsked :
            /\ m.id = SeedAsked[i] /\ m.stamp = i
            /\ m = [id |-> SeedAsked[i], role |-> "user", chat |-> SeedChat, stamp |-> i,
                    about |-> SeedAsked[i], by |-> ChatOwner, whole |-> TRUE, refs |-> {}]
      BY <1>2
    <3>2. PICK j \in DOMAIN SeedAsked :
            /\ n.id = SeedAsked[j] /\ n.stamp = j
            /\ n = [id |-> SeedAsked[j], role |-> "user", chat |-> SeedChat, stamp |-> j,
                    about |-> SeedAsked[j], by |-> ChatOwner, whole |-> TRUE, refs |-> {}]
      BY <1>2
    <3>3. i = j
      BY <2>1, <2>2, <3>1, <3>2
    <3> QED BY <3>1, <3>2, <3>3
  <2> QED BY <2>2 DEF QuestionsAreOnce
<1>9. AnswersAreOnce /\ SecondAnswersHaveReasons
  BY <1>2 DEF AnswersAreOnce, SecondAnswersHaveReasons
<1>10. ASSUME NEW c \in Calls PROVE ChatCallInv(c) /\ WriterInv(c) /\ ReplayInv(c)
  <2>1. /\ call[c].op = "none" /\ call[c].at = "unused" /\ call[c].page = {}
    BY <1>3 DEF Unused
  <2>2. ChatCallInv(c)
    BY <1>4, <2>1 DEF ChatCallInv, Stamped, Looking
  <2>3. DOMAIN NoWriter = WriterFields /\ NoWriter.stamp = 0 /\ NoWriter.raws = << >>
        /\ NoWriter.valid = {}
    BY DEF NoWriter, WriterFields
  <2>4. WriterInv(c)
    <3>1. writer[c] = NoWriter /\ RefsAreOwn(call[c].user, {})
      BY <1>4, NoRefsAreOwn
    <3>2. ~Answering(c) /\ ~At(c, "stream", "prepare")
      BY <1>5, <2>1, <3>1 DEF Answering, At
    <3>3. writer[c].stamp \in 0..tick
      BY <1>1, <1>4, <2>3, <3>1
    <3>4. RefsAreOwn(call[c].user, writer[c].valid)
      BY <2>3, <3>1
    <3> QED BY <1>5, <2>3, <3>1, <3>2, <3>3, <3>4 DEF WriterInv
  <2> QED BY <1>4, <2>2, <2>4 DEF ReplayInv
<1> QED BY <1>1, <1>3, <1>4, <1>6, <1>7, <1>8, <1>9, <1>10 DEF ChatInv

LEMMA ChatNextKeeps == ChatInv /\ [ChatNext]_<<chatVars, callVars>> => ChatInv'
<1> SUFFICES ASSUME ChatInv, [ChatNext]_<<chatVars, callVars>> PROVE ChatInv'
  OBVIOUS
<1>1. CASE UNCHANGED <<chatVars, callVars>>
  BY <1>1, ListsExpire DEF chatVars, callVars, ChatInv
<1>2. ASSUME NEW u \in Users, ExpireArchive(u) PROVE ChatInv'
  BY <1>2, ListsExpire DEF ExpireArchive, talkVars, callVars, ChatInv
<1>3. ASSUME NEW c \in Calls, ChatStep(c) PROVE ChatInv'
  BY <1>3, ReadingChat, StoringQuestion, ReadingOwnChat, ChangingChat, InvalidatingArchive,
     ListingChats, KeepingArchive, ReadingQuestion, ReadingConversation, ReadingTurn,
     OpeningModelStream, ForwardingPiece, ReadingForChat DEF ChatStep
<1>4. ASSUME NEW c \in Calls, WriterStep(c) \/ LoseWriter(c) PROVE ChatInv'
  BY <1>4, ParsingAnswer, ValidatingReference, FinishingAnswer, StoringAnswer, LosingWriter
     DEF WriterStep
<1>5. ASSUME NEW c \in Calls, NEW u \in Users, CreateChat(c, u) \/ ChatRequest(c, u)
      PROVE  ChatInv'
  BY <1>5, CreatingChat, RequestingChat
<1>6. ASSUME NEW c \in Calls, AbandonCall(c), UNCHANGED chatVars PROVE ChatInv'
  BY <1>6, ReadingForChat
<1> QED BY <1>1, <1>2, <1>3, <1>4, <1>5, <1>6 DEF ChatNext

LEMMA ChatInvHolds == ChatSpec => []ChatInv
<1> QED BY ChatStarts, ChatNextKeeps, PTL DEF ChatSpec

LEMMA QuestionIsOne ==
  ASSUME ChatInv, NEW q \in said, q.role = "user" PROVE QuestionOf(q.id) = q
<1>1. \A m \in said : m.role = "user" /\ m.id = q.id => m = q
  BY DEF ChatInv, QuestionsAreOnce
<1> QED BY <1>1 DEF QuestionOf

LEMMA ChatInvIsEnough ==
  ASSUME ChatInv
  PROVE  /\ SidebarsHaveReasons /\ ReplaysOwnTurn /\ OneAnswerPerQuestion
         /\ StoredReferencesAreOwn /\ ConversationsArePrivate
<1>1. SidebarsHaveReasons
  BY DEF ChatInv, KeptInv, Changing, SidebarsHaveReasons
<1>2. ReplaysOwnTurn
  BY QuestionIsOne DEF ChatInv, ReplayInv, ReplaysOwnTurn
<1>3. ASSUME NEW a \in said, NEW b \in said, a.role = "ai", b.role = "ai", a.about = b.about,
             FollowedUp(b)
      PROVE  \E n \in History(a.chat) : /\ n.role = "user" /\ n.id # a.about
                                        /\ QuestionOf(a.about).stamp < n.stamp
                                        /\ n.stamp < b.stamp
  <2>1. PICK q \in said : Puts(q, a.about, a.chat)
    BY <1>3 DEF ChatInv, MessageInv, AnswerInv
  <2>2. PICK r, n \in said : /\ Puts(r, b.about, b.chat)
                             /\ n.role = "user" /\ n.chat = b.chat /\ n.id # b.about
                             /\ r.stamp < n.stamp /\ n.stamp < b.stamp
    BY <1>3 DEF FollowedUp
  <2>3. q = r
    BY <1>3, <2>1, <2>2 DEF ChatInv, QuestionsAreOnce, Puts
  <2>4. QuestionOf(a.about) = q
    BY <2>1, QuestionIsOne DEF Puts
  <2> QED BY <1>3, <2>1, <2>2, <2>3, <2>4 DEF History, Puts
<1>4. OneAnswerPerQuestion
  BY <1>3 DEF ChatInv, SecondAnswersHaveReasons, OneAnswerPerQuestion
<1>5. StoredReferencesAreOwn
  BY DEF ChatInv, MessageInv, RefsAreOwn, StoredReferencesAreOwn
<1>6. ConversationsArePrivate
  BY DEF ChatInv, MessageInv, Owns, ConversationsArePrivate
<1> QED BY <1>1, <1>2, <1>4, <1>5, <1>6

(* However the streams of a conversation interleave, one that replays shows *)
(* the answer to its question, or to an earlier one that was answered after *)
(* its question had been put (message_response_stream.rs:123).              *)
THEOREM TurnsAreReplayed == ChatSpec => []ReplaysOwnTurn
BY ChatInvHolds, ChatInvIsEnough, PTL

(* A question gets a second stored answer only from a stream that had       *)
(* looked for one before the first was stored, or when another question was *)
(* put before an answer (message_response_stream.rs:209).                   *)
THEOREM QuestionsAreAnsweredOnce == ChatSpec => []OneAnswerPerQuestion
BY ChatInvHolds, ChatInvIsEnough, PTL

(* A list kept for a sidebar that differs from the database belongs to a    *)
(* user whose list a request is changing, or changed between the reading    *)
(* and the keeping by another (response_middleware.rs:222).                 *)
THEOREM KeptListsAreExplained == ChatSpec => []SidebarsHaveReasons
BY ChatInvHolds, ChatInvIsEnough, PTL

-----------------------------------------------------------------------------
(* The three together: the one in focus keeps its invariant, and the other  *)
(* two have what they started with                                          *)
ChatIsPrivate == StoredReferencesAreOwn /\ ConversationsArePrivate

DocumentsInv ==
  /\ focus \in {"library", "graph", "chat"}
  /\ focus = "library" => LibraryInv /\ edge = {} /\ ChatIsPrivate
  /\ focus = "graph" => GraphInv /\ ChatIsPrivate
  /\ focus = "chat" => ChatInv /\ edge = {}

LEMMA PrivacyStays == UNCHANGED chatVars /\ ChatIsPrivate => ChatIsPrivate'
BY DEF chatVars, ChatIsPrivate, StoredReferencesAreOwn, ConversationsArePrivate

LEMMA DocumentsStart == Init => DocumentsInv
<1> SUFFICES ASSUME Init PROVE DocumentsInv
  OBVIOUS
<1>1. LibraryInit /\ GraphInit /\ ChatInit /\ CallsInit
      /\ focus \in {"library", "graph", "chat"}
  BY DEF Init
<1>2. LibraryInv /\ GraphInv /\ ChatInv
  BY <1>1, LibraryStarts, GraphStart, ChatStarts
<1>3. edge = {} /\ ChatIsPrivate
  BY <1>1, <1>2, ChatInvIsEnough DEF GraphInit, ChatIsPrivate
<1> QED BY <1>1, <1>2, <1>3 DEF DocumentsInv

LEMMA DocumentsStepKeeps ==
  ASSUME DocumentsInv, [Next]_documentsVars PROVE DocumentsInv'
<1>1. CASE UNCHANGED documentsVars
  <2>1. /\ UNCHANGED <<libVars, callVars>> /\ UNCHANGED <<graphVars, callVars>>
        /\ UNCHANGED <<chatVars, callVars>> /\ UNCHANGED chatVars /\ UNCHANGED <<edge, focus>>
    BY <1>1 DEF documentsVars, graphVars
  <2>2. /\ LibraryInv => LibraryInv'
        /\ GraphInv => GraphInv'
        /\ ChatInv => ChatInv'
        /\ ChatIsPrivate => ChatIsPrivate'
    BY <2>1, LibraryNextKeeps, GraphStepKeepsInv, ChatNextKeeps, PrivacyStays
  <2> QED BY <2>1, <2>2 DEF DocumentsInv
<1>2. CASE Next
  <2>1. CASE focus = "library" /\ LibraryNext /\ UNCHANGED <<graphVars, chatVars, focus>>
    <3>1. UNCHANGED chatVars /\ UNCHANGED <<edge, focus>>
      BY <2>1 DEF graphVars
    <3>2. LibraryInv' /\ ChatIsPrivate'
      BY <2>1, <3>1, LibraryNextKeeps, PrivacyStays DEF DocumentsInv
    <3> QED BY <2>1, <3>1, <3>2 DEF DocumentsInv
  <2>2. CASE focus = "graph" /\ GraphNext /\ UNCHANGED <<libVars, chatVars, focus>>
    <3>1. UNCHANGED chatVars /\ UNCHANGED focus
      BY <2>2
    <3>2. GraphInv' /\ ChatIsPrivate'
      BY <2>2, <3>1, GraphStepKeepsInv, PrivacyStays DEF DocumentsInv
    <3> QED BY <2>2, <3>1, <3>2 DEF DocumentsInv
  <2>3. CASE focus = "chat" /\ ChatNext /\ UNCHANGED <<libVars, graphVars, focus>>
    <3>1. UNCHANGED <<edge, focus>>
      BY <2>3 DEF graphVars
    <3>2. ChatInv'
      BY <2>3, ChatNextKeeps DEF DocumentsInv
    <3> QED BY <2>3, <3>1, <3>2 DEF DocumentsInv
  <2> QED BY <1>2, <2>1, <2>2, <2>3 DEF Next
<1> QED BY <1>1, <1>2

LEMMA DocumentsInvIsEnough == ASSUME DocumentsInv PROVE TenantsAreApart /\ DocumentsTypeOK
<1>1. CASE focus = "library"
  <2>1. PagesAreOwn /\ ChatIsPrivate /\ edge = {} /\ LibraryTypeOK
    BY <1>1, LibraryInvIsEnough DEF DocumentsInv, LibraryInv
  <2> QED
    BY <1>1, <2>1 DEF TenantsAreApart, EdgesAreOwn, ChatIsPrivate, DocumentsTypeOK
<1>2. CASE focus = "graph"
  <2>1. EdgesAreOwn /\ ChatIsPrivate /\ GraphTypeOK
    BY <1>2, GraphInvIsEnough DEF DocumentsInv, GraphInv
  <2>2. PagesAreOwn
    BY <1>2 DEF DocumentsInv, GraphInv, GraphCallInv, PagesAreOwn
  <2> QED BY <1>2, <2>1, <2>2 DEF TenantsAreApart, ChatIsPrivate, DocumentsTypeOK
<1>3. CASE focus = "chat"
  <2>1. StoredReferencesAreOwn /\ ConversationsArePrivate /\ edge = {} /\ ChatTypeOK
    BY <1>3, ChatInvIsEnough DEF DocumentsInv, ChatInv
  <2>2. PagesAreOwn
    BY <1>3 DEF DocumentsInv, ChatInv, ChatCallInv, PagesAreOwn
  <2> QED BY <1>3, <2>1, <2>2 DEF TenantsAreApart, EdgesAreOwn, DocumentsTypeOK
<1> QED BY <1>1, <1>2, <1>3 DEF DocumentsInv

LEMMA DocumentsInvHolds == DocumentsSpec => []DocumentsInv
<1>1. DocumentsInv /\ [Next]_documentsVars => DocumentsInv'
  BY DocumentsStepKeeps
<1> QED BY <1>1, DocumentsStart, PTL DEF DocumentsSpec

(* Rows and requests keep their types, for any constants                    *)
(* (file_info.rs:37, knowledge_entity.rs:60, message.rs:20).                *)
THEOREM DocumentsAreTyped == DocumentsSpec => []DocumentsTypeOK
BY DocumentsInvHolds, DocumentsInvIsEnough, PTL

(* Whatever ids its request names and whoever deletes what between two      *)
(* statements, nobody is shown a row of another user, linked to one, given  *)
(* a reference to one, or heard in a conversation of one (user.rs:592,      *)
(* knowledge_relationship.rs:45, reference_validation.rs:109).              *)
THEOREM TenantsStayApart == DocumentsSpec => []TenantsAreApart
BY DocumentsInvHolds, DocumentsInvIsEnough, PTL

=============================================================================
