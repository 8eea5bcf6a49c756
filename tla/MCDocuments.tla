------------------------------ MODULE MCDocuments ------------------------------
(* Library, KnowledgeGraph and Chat for TLC.  They share the requests and no *)
(* rows: a behaviour has requests of one of the three, chosen with `focus`.  *)
EXTENDS Library, KnowledgeGraph, Chat, TLC

CONSTANTS u1, u2, q0, q1, n1, n2, n3, i1, i2

VARIABLE focus

documentsVars == <<libVars, graphVars, chatVars, callVars, focus>>

-----------------------------------------------------------------------------
Form(u, op, files, length) ==
  [user |-> u, op |-> op, content |-> length, context |-> 1, category |-> 1,
   files |-> files]

(* Known and new files, the same file twice, content of each length that   *)
(* the checks tell apart                                                   *)
SomeForms ==
  {Form(u1, "form", <<"d1">>, -1), Form(u1, "form", <<"d2", "d2">>, 0),
   Form(u1, "api", <<"d2">>, 3), Form(u1, "api", <<>>, 2),
   Form(u2, "form", <<>>, 1), Form(u2, "api", <<>>, 9)}

SmallLimits == [body |-> 8, files |-> 2, content |-> 5, context |-> 2, category |-> 2]

OwnerOfSeed == [i \in SeedEntities |-> IF i = n3 THEN u2 ELSE u1]
SourceOfSeed == [i \in SeedEntities |-> IF i = n1 THEN "k1" ELSE "k2"]
SomeSelections == {{}, {n1, n2}, {n1, n3}}

TwoQuestions == <<q0, q1>>

(* A chunk of each user; an entity of the first that has an id like the    *)
(* chunk of the second                                                     *)
OwnerOfReference ==
  [chunk  |-> (i1 :> u1 @@ i2 :> u2), entity |-> (i1 :> Nothing @@ i2 :> u1)]
NamedReferences ==
  {<< <<"none", i1>>, <<"chunk", i2>>, <<"any", i1>>, <<"entity", i2>>, <<"any", i1>> >>}
SomeContexts == {{}, {i1}}

-----------------------------------------------------------------------------
Init ==
  /\ LibraryInit /\ GraphInit /\ ChatInit /\ CallsInit
  /\ focus \in {"library", "graph", "chat"}

(* Only the polls of a task stream fail twice (a bound) *)
FewFaults ==
  faults' < 2 \/ \E c \in Calls : call[c].op = "watch" /\ call'[c] # call[c]

(* Two files are uploaded in a behaviour, by one form or by two (a bound) *)
FewUploads == Cardinality({p \in Calls \X Parts : part'[p].digest # Nothing}) <= 2

Next ==
  /\ \/ focus = "library" /\ LibraryNext /\ FewUploads /\ UNCHANGED <<graphVars, chatVars>>
     \/ focus = "graph" /\ GraphNext /\ UNCHANGED <<libVars, chatVars>>
     \/ focus = "chat" /\ ChatNext /\ UNCHANGED <<libVars, graphVars>>
  /\ FewFaults
  /\ UNCHANGED focus

(* LibraryFairness and ChatFairness, each where its requests are made *)
Fairness ==
  \A c \in Calls :
    /\ WF_callVars(focus = "library" /\ PollTask(c))
    /\ WF_<<chatVars, callVars>>(focus = "chat" /\ ChatStep(c))
    /\ WF_<<chatVars, callVars>>(focus = "chat" /\ WriterStep(c))

DocumentsSpec == Init /\ [][Next]_documentsVars /\ Fairness

-----------------------------------------------------------------------------
(* The rows and requests of the three modules have their types             *)
(* (file_info.rs:37, knowledge_entity.rs:60, message.rs:20).               *)
DocumentsTypeOK ==
  /\ focus = "library" => LibraryTypeOK
  /\ focus = "graph" => GraphTypeOK
  /\ focus = "chat" => ChatTypeOK

(* Nobody is shown a row of another user, linked to one, given a reference *)
(* to one, or heard in a conversation of one: a row is mostly read by its  *)
(* id, and its owner compared in a statement of its own (user.rs:592,      *)
(* knowledge_relationship.rs:45, reference_validation.rs:109).             *)
TenantsAreApart ==
  PagesAreOwn /\ EdgesAreOwn /\ StoredReferencesAreOwn /\ ConversationsArePrivate

(* Every stream of events closes: of a task (ingestion/handlers.rs:188)    *)
(* and of an answer (message_response_stream.rs:291).                      *)
StreamsEnd == TaskStreamsEnd /\ StreamsClose
=============================================================================
