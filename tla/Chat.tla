--------------------------------- MODULE Chat ---------------------------------
(***************************************************************************)
(* Conversations, their messages, the streams that answer them and the     *)
(* list of conversations kept in memory for the sidebar.                   *)
(*                                                                         *)
(* A question is stored by one request and answered by another, the event  *)
(* stream.  The stream forwards what the language model sends; a task of   *)
(* its own receives the same pieces and, once the stream has let go of the *)
(* channel, checks the references and stores the answer.  Messages have no *)
(* link to what they answer: a turn is what lies between two questions in  *)
(* the order of updated_at.                                                *)
(***************************************************************************)
EXTENDS WebCalls, Sequences

CONSTANTS
  SeedChat,            \* a conversation there is before the first request
  SeedAsked,           \* its questions, none answered yet: a sequence of ids
  ChatOwner,           \* whose it is
  Pieces,              \* pieces of a complete answer (a bound)
  RefOwner,            \* per table, "chunk" or "entity", and id: the owner, or Nothing
  RawLists,            \* lists of references a model may name: <<table, id>>, where
                       \* table is "any" for a bare id, "none" for no id at all
  Contexts,            \* sets of ids a retrieval may return
  MaxReferences,       \* MAX_REFERENCE_COUNT
  MaxArchives          \* CONVERSATION_ARCHIVE_CACHE_MAX_USERS

VARIABLES
  chat,                \* rows of `conversation`
  said,                \* rows of `message`
  tick,                \* messages made so far: the clock behind updated_at
  writer,              \* per call: the task that stores its answer
  replayed,            \* per call: the question whose answer it replayed
  archive,             \* per user: the conversations kept for the sidebar
  passed,              \* users whose list changed while a request that had
                       \* read it was about to keep it (history)
  blind                \* streams that had looked for an answer in vain when
                       \* one to their question was stored (history)

talkVars == <<said, tick, writer, replayed, blind>>
sidebarVars == <<archive, passed>>
chatVars == <<chat, said, tick, writer, replayed, archive, passed, blind>>

-----------------------------------------------------------------------------
Chats == Calls \cup {SeedChat}
Questions == Calls \cup {SeedAsked[i] : i \in DOMAIN SeedAsked}
NoWriter == [at |-> "none", chat |-> Nothing, about |-> Nothing, raws |-> <<>>,
             next |-> 1, allowed |-> {}, valid |-> {}, whole |-> FALSE, stamp |-> 0, sent |-> FALSE]

Question(c, k, stamp) ==
  [id |-> c, role |-> "user", chat |-> k, stamp |-> stamp, about |-> c, by |-> call[c].user,
   whole |-> TRUE, refs |-> {}]

(* The database makes the id of a new row, and the messages there are have *)
(* ids of their own                                                        *)
ASSUME ChatAssumption ==
  /\ SeedChat \notin Calls /\ ChatOwner \in Users
  /\ SeedAsked \in Seq(Questions \ Calls)
  /\ \A i, j \in DOMAIN SeedAsked : SeedAsked[i] = SeedAsked[j] => i = j
  /\ MaxReferences \in Nat
  /\ \A raws \in RawLists : \A i \in DOMAIN raws :
       raws[i][1] \in {"none", "any", "chunk", "entity"}

ChatInit ==
  /\ chat = [k \in Chats |-> IF k = SeedChat THEN [owner |-> ChatOwner, title |-> Nothing]
                             ELSE Nothing]
  /\ said = {[id |-> SeedAsked[i], role |-> "user", chat |-> SeedChat, stamp |-> i,
              about |-> SeedAsked[i], by |-> ChatOwner, whole |-> TRUE, refs |-> {}] :
              i \in DOMAIN SeedAsked}
  /\ tick = Len(SeedAsked)
  /\ writer = [c \in Calls |-> NoWriter]
  /\ replayed = [c \in Calls |-> Nothing]
  /\ archive = [u \in Users |-> Nothing]
  /\ passed = {} /\ blind = {}

(* get_user_sidebar_conversations *)
SidebarOf(u) == {<<k, chat[k].title>> : k \in {k \in Chats :
                   chat[k] # Nothing /\ chat[k].owner = u}}

-----------------------------------------------------------------------------
(* The rows read by get_complete_conversation, ORDER BY updated_at *)
History(k) == {m \in said : m.chat = k}

(* Slip: the search does not stop at the next question *)
ExistingAnswersOfAnyTurn(q) ==
  {m \in History(q.chat) : m.role = "ai" /\ m.stamp > q.stamp}

(* Slip: the role compared is not the one that is stored *)
ExistingAnswersByRole(q) ==
  {m \in History(q.chat) : m.role = "assistant" /\ m.stamp > q.stamp}

(* find_existing_ai_response: the first answer before the next question *)
ExistingAnswers(q) ==
  {m \in History(q.chat) : /\ m.role = "ai" /\ m.stamp > q.stamp
                           /\ ~\E n \in History(q.chat) : /\ n.role = "user"
                                                          /\ q.stamp < n.stamp
                                                          /\ n.stamp < m.stamp}

First(messages) == CHOOSE m \in messages : \A n \in messages : m.stamp <= n.stamp

-----------------------------------------------------------------------------
(* Questions.  Message::new stamps the message before the row is stored.   *)

(* new_chat_user_message: the conversation, the message, the sidebar *)
CreateChat(c, u) ==
  /\ Starts(c, "chat", u, c, "store")
  /\ chat' = [chat EXCEPT ![c] = [owner |-> u, title |-> Nothing]]
  /\ tick' = tick + 1
  /\ writer' = [writer EXCEPT ![c].stamp = tick']
  /\ UNCHANGED <<said, replayed, blind, sidebarVars, faults>>

(* new_user_message: the conversation and its owner, then the message *)
ReadChat(c) ==
  /\ At(c, "say", "read")
  /\ LET k == chat[call[c].key]
     IN IF k = Nothing \/ k.owner # call[c].user
          THEN Refuses(c) /\ UNCHANGED <<tick, writer>>
          ELSE /\ Goto(c, "store")
               /\ tick' = tick + 1
               /\ writer' = [writer EXCEPT ![c].stamp = tick']
  /\ UNCHANGED <<chat, said, replayed, blind, sidebarVars, faults>>

StoreQuestion(c) ==
  /\ call[c].op \in {"chat", "say"} /\ call[c].at = "store"
  /\ said' = said \cup {Question(c, call[c].key, writer[c].stamp)}
  /\ Goto(c, IF call[c].op = "chat" THEN "invalidate" ELSE "archive")
  /\ UNCHANGED <<chat, tick, writer, replayed, blind, sidebarVars, faults>>

-----------------------------------------------------------------------------
(* patch_conversation_title and delete_conversation: the owner is read     *)
(* first; show_existing reads the conversation, then its messages          *)
ReadOwnChat(c) ==
  /\ call[c].op \in {"title", "delete chat", "open"} /\ call[c].at = "read"
  /\ LET k == chat[call[c].key]
     IN IF k = Nothing \/ k.owner # call[c].user THEN Refuses(c)
        ELSE Goto(c, IF call[c].op = "open" THEN "messages" ELSE "change")
  /\ UNCHANGED <<chatVars, faults>>

ChangeChat(c) ==
  /\ call[c].op \in {"title", "delete chat"} /\ call[c].at = "change"
  /\ LET k == call[c].key
     IN IF call[c].op = "title" /\ chat[k] = Nothing
          THEN Refuses(c) /\ UNCHANGED chat
          ELSE /\ chat' = [chat EXCEPT ![k] =
                    IF call[c].op = "title" THEN [@ EXCEPT !.title = c] ELSE Nothing]
               /\ Goto(c, "invalidate")
  /\ UNCHANGED <<talkVars, sidebarVars, faults>>

(* The SELECT checks the owner again *)
ReadMessages(c) ==
  /\ At(c, "open", "messages")
  /\ Goto(c, "archive")
  /\ UNCHANGED <<chatVars, faults>>

-----------------------------------------------------------------------------
(* The sidebar.  invalidate_conversation_archive_cache ends what changes   *)
(* the list; with_template_response fills the list in for every full page. *)

(* A request that has read the list and has not yet kept it *)
Keeping(d, u) == call[d].at = "keep" /\ call[d].user = u

(* Slip: a change of title leaves the list as it was *)
InvalidateArchiveButForTitles(c) ==
  /\ call[c].op \in {"chat", "title", "delete chat"} /\ call[c].at = "invalidate"
  /\ archive' = IF call[c].op = "title" THEN archive
                ELSE [archive EXCEPT ![call[c].user] = Nothing]
  /\ passed' = IF \E d \in Calls : Keeping(d, call[c].user)
                 THEN passed \cup {call[c].user} ELSE passed
  /\ Goto(c, "archive")
  /\ UNCHANGED <<chat, talkVars, faults>>

InvalidateArchive(c) ==
  /\ call[c].op \in {"chat", "title", "delete chat"} /\ call[c].at = "invalidate"
  /\ archive' = [archive EXCEPT ![call[c].user] = Nothing]
  /\ passed' = IF \E d \in Calls : Keeping(d, call[c].user)
                 THEN passed \cup {call[c].user} ELSE passed
  /\ Goto(c, "archive")
  /\ UNCHANGED <<chat, talkVars, faults>>

(* get_cached_conversation_archive *)
GetArchive(c) ==
  /\ call[c].at = "archive"
  /\ IF archive[call[c].user] # Nothing THEN Answers(c, {call[c].user}) ELSE Goto(c, "list")
  /\ UNCHANGED <<chatVars, faults>>

ListChats(c) ==
  /\ call[c].at = "list"
  /\ Reads(c, SidebarOf(call[c].user), "keep")
  /\ UNCHANGED <<chatVars, faults>>

(* set_cached_conversation_archive: beyond the capacity others are dropped, *)
(* the oldest first                                                        *)
KeepArchive(c) ==
  /\ call[c].at = "keep"
  /\ LET u == call[c].user
         others == {v \in Users \ {u} : archive[v] # Nothing}
     IN \E gone \in SUBSET others :
          /\ Cardinality(gone) =
               IF Cardinality(others) + 1 <= MaxArchives THEN 0
               ELSE Cardinality(others) + 1 - MaxArchives
          /\ archive' = [v \in Users |-> IF v = u THEN call[c].got
                                         ELSE IF v \in gone THEN Nothing ELSE archive[v]]
  /\ Answers(c, {call[c].user})
  /\ UNCHANGED <<chat, talkVars, passed, faults>>

(* Thirty seconds have passed *)
ExpireArchive(u) ==
  /\ archive[u] # Nothing
  /\ archive' = [archive EXCEPT ![u] = Nothing]
  /\ UNCHANGED <<chat, talkVars, passed, callVars>>

-----------------------------------------------------------------------------
(* get_response_stream.  get_message_and_user reads the message, the        *)
(* conversation and its messages; errors are events of the stream.          *)
Asked(c) == {m \in said : m.role = "user" /\ m.id = call[c].key}

ReadQuestion(c) ==
  /\ At(c, "stream", "message")
  /\ IF Asked(c) = {} THEN Refuses(c) ELSE Goto(c, "conversation")
  /\ UNCHANGED <<chatVars, faults>>

ReadConversation(c) ==
  /\ At(c, "stream", "conversation")
  /\ \E q \in Asked(c) :
       IF chat[q.chat] = Nothing \/ chat[q.chat].owner # call[c].user
         THEN Refuses(c) ELSE Goto(c, "history")
  /\ UNCHANGED <<chatVars, faults>>

(* The turn is replayed when it has an answer, and generated when not *)
ReadTurn(c) ==
  /\ At(c, "stream", "history")
  /\ \E q \in Asked(c) :
       IF chat[q.chat] = Nothing THEN Refuses(c) /\ UNCHANGED <<replayed, writer>>
       ELSE IF ExistingAnswers(q) # {}
         THEN /\ Answers(c, {call[c].user})
              /\ replayed' = [replayed EXCEPT ![c] = First(ExistingAnswers(q)).about]
              /\ UNCHANGED writer
         ELSE /\ Goto(c, "prepare")
              /\ writer' = [writer EXCEPT ![c].chat = q.chat, ![c].about = q.id]
              /\ UNCHANGED replayed
  /\ UNCHANGED <<chat, said, tick, blind, sidebarVars, faults>>

(* prepare_chat_request and create_stream; the storage task is spawned *)
OpenModelStream(c) ==
  /\ At(c, "stream", "prepare")
  /\ \E ids \in Contexts :
       writer' = [writer EXCEPT ![c].at = "receive", ![c].allowed = ids]
  /\ Reads(c, 0, "pieces")
  /\ UNCHANGED <<chat, said, tick, replayed, blind, sidebarVars, faults>>

(* A piece goes to the client and to the task *)
ForwardPiece(c) ==
  /\ At(c, "stream", "pieces")
  /\ call[c].got < Pieces
  /\ Reads(c, call[c].got + 1, "pieces")
  /\ writer' = [writer EXCEPT ![c].whole = call'[c].got = Pieces]
  /\ UNCHANGED <<chat, said, tick, replayed, blind, sidebarVars, faults>>

(* The model has sent all, or its connection broke: the stream goes on with *)
(* the event that shows the references                                      *)
EndModelStream(c) ==
  /\ At(c, "stream", "pieces")
  /\ \/ call[c].got = Pieces /\ UNCHANGED faults
     \/ call[c].got < Pieces /\ Fault
  /\ Reads(c, Nothing, "final")
  /\ UNCHANGED chatVars

(* rx_final.recv: the message, or nothing once the task has dropped tx_final *)
CloseStream(c) ==
  /\ At(c, "stream", "final")
  /\ writer[c].sent \/ writer[c].at = "over"
  /\ Answers(c, {call[c].user})
  /\ UNCHANGED <<chatVars, faults>>

-----------------------------------------------------------------------------
(* spawn_storage_task *)

(* The channel has closed: every sender has been dropped *)
LetGo(c) == Ended(c) \/ At(c, "stream", "final")

(* An answer that is valid JSON names references; any other is stored as   *)
(* it is                                                                   *)
ParseAnswer(c) ==
  /\ writer[c].at = "receive" /\ LetGo(c)
  /\ \/ /\ writer[c].whole
        /\ \E raws \in RawLists :
             writer' = [writer EXCEPT ![c].at = "validate", ![c].raws = raws]
        /\ UNCHANGED tick
     \/ /\ tick' = tick + 1
        /\ writer' = [writer EXCEPT ![c].at = "store", ![c].stamp = tick', ![c].whole = FALSE]
  /\ UNCHANGED <<chat, said, replayed, blind, sidebarVars, callVars>>

(* lookup_reference_for_user: a row of this user, in the table that the     *)
(* reference names, or in either                                           *)
LookupFinds(u, raw) ==
  \E table \in IF raw[1] = "any" THEN {"chunk", "entity"} ELSE {raw[1]} :
    RefOwner[table][raw[2]] = u

(* normalize_reference and the checks of validate_references, in order *)
IsAccepted(u, w, raw) ==
  /\ raw[1] # "none"
  /\ \A i \in 1..(w.next - 1) : w.raws[i][1] = "none" \/ w.raws[i][2] # raw[2]
  /\ Cardinality(w.valid) < MaxReferences
  /\ w.allowed # {} => raw[2] \in w.allowed
  /\ LookupFinds(u, raw)

ValidateReference(c) ==
  /\ writer[c].at = "validate" /\ writer[c].next \in DOMAIN writer[c].raws
  /\ LET w == writer[c]
         raw == w.raws[w.next]
     IN writer' = [writer EXCEPT ![c].next = @ + 1,
          ![c].valid = IF IsAccepted(call[c].user, w, raw) THEN @ \cup {raw[2]} ELSE @]
  /\ UNCHANGED <<chat, said, tick, replayed, blind, sidebarVars, callVars>>

(* Message::new, tx_final.send; without references after a failed lookup *)
FinishAnswer(c) ==
  /\ writer[c].at = "validate"
  /\ tick' = tick + 1
  /\ \E valid \in {writer[c].valid, {}} :
       /\ \/ valid = writer[c].valid /\ writer[c].next > Len(writer[c].raws) /\ UNCHANGED faults
          \/ valid = {} /\ writer[c].raws # <<>> /\ Fault
       /\ writer' = [writer EXCEPT ![c] = [@ EXCEPT !.at = "store", !.stamp = tick',
            !.sent = TRUE, !.valid = valid, !.raws = <<>>, !.next = 1, !.allowed = {}]]
  /\ UNCHANGED <<chat, said, replayed, blind, sidebarVars, call>>

(* store_item: failing to is logged *)
StoreAnswer(c) ==
  /\ writer[c].at = "store"
  /\ \/ /\ said' = said \cup {[id |-> c, role |-> "ai", chat |-> writer[c].chat,
               stamp |-> writer[c].stamp, about |-> writer[c].about, by |-> call[c].user,
               whole |-> writer[c].whole, refs |-> writer[c].valid]}
        /\ blind' = blind \cup {d \in Calls \ {c} : writer[d].about = writer[c].about
                                                   /\ writer[d].at # "over"}
        /\ UNCHANGED faults
     \/ Fault /\ UNCHANGED <<said, blind>>
  /\ writer' = [writer EXCEPT ![c].at = "over"]
  /\ UNCHANGED <<chat, tick, replayed, sidebarVars, call>>

(* The process dies: the task goes with the stream *)
LoseWriter(c) ==
  /\ writer[c].at \in {"receive", "validate", "store"} /\ Fault
  /\ writer' = [writer EXCEPT ![c].at = "over"]
  /\ call' = IF Running(c) THEN [call EXCEPT ![c].at = "failed", ![c].got = Nothing] ELSE call
  /\ UNCHANGED <<chat, said, tick, replayed, blind, sidebarVars>>

-----------------------------------------------------------------------------
(* show_reference_tooltip: a row in the tables that the reference names,   *)
(* the named one first; the owner of the first row found decides           *)
ShowReference(c) ==
  /\ At(c, "tooltip", "look")
  /\ LET raw == call[c].key
         first == IF raw[1] = "entity" THEN "entity" ELSE "chunk"
         second == IF first = "chunk" THEN "entity" ELSE "chunk"
         owner == IF RefOwner[first][raw[2]] # Nothing THEN RefOwner[first][raw[2]]
                  ELSE RefOwner[second][raw[2]]
     IN IF raw[1] # "none" /\ owner = call[c].user THEN Goto(c, "archive") ELSE Refuses(c)
  /\ UNCHANGED <<chatVars, faults>>

-----------------------------------------------------------------------------
ChatRequest(c, u) ==
  /\ \/ \E k \in Chats : chat[k] # Nothing /\
          \E op \in {"say", "title", "delete chat", "open"} : Starts(c, op, u, k, "read")
     \/ \E m \in said : m.role = "user" /\ Starts(c, "stream", u, m.id, "message")
     \/ \E raws \in RawLists : \E i \in DOMAIN raws : Starts(c, "tooltip", u, raws[i], "look")
     \/ Starts(c, "page", u, Nothing, "archive")
  /\ UNCHANGED <<chatVars, faults>>

ChatStep(c) ==
  \/ ReadChat(c) \/ StoreQuestion(c) \/ ReadOwnChat(c) \/ ChangeChat(c) \/ ReadMessages(c)
  \/ InvalidateArchive(c) \/ GetArchive(c) \/ ListChats(c) \/ KeepArchive(c)
  \/ ReadQuestion(c) \/ ReadConversation(c) \/ ReadTurn(c) \/ OpenModelStream(c)
  \/ ForwardPiece(c) \/ EndModelStream(c) \/ CloseStream(c)
  \/ ShowReference(c)

WriterStep(c) == ParseAnswer(c) \/ ValidateReference(c) \/ FinishAnswer(c) \/ StoreAnswer(c)

ChatNext ==
  \/ \E c \in Calls : \/ ChatStep(c) \/ WriterStep(c) \/ LoseWriter(c)
                      \/ AbandonCall(c) /\ UNCHANGED chatVars
                      \/ \E u \in Users : CreateChat(c, u) \/ ChatRequest(c, u)
  \/ \E u \in Users : ExpireArchive(u)

(* Handlers and tasks that can run are run; the model's stream ends *)
ChatFairness ==
  \A c \in Calls : WF_<<chatVars, callVars>>(ChatStep(c)) /\ WF_<<chatVars, callVars>>(WriterStep(c))

ChatSpec ==
  ChatInit /\ CallsInit /\ [][ChatNext]_<<chatVars, callVars>> /\ ChatFairness

-----------------------------------------------------------------------------
ChatTypeOK ==
  /\ chat \in [Chats -> [owner : Users, title : Calls \cup {Nothing}] \cup {Nothing}]
  /\ \A m \in said : /\ m.id \in Questions /\ m.chat \in Chats /\ m.about \in Questions
                     /\ m.role \in {"user", "ai"} /\ m.stamp \in 1..tick
  /\ \A c \in Calls : writer[c].at \in {"none", "receive", "validate", "store", "over"}
  /\ replayed \in [Calls -> Questions \cup {Nothing}]
  /\ passed \subseteq Users /\ blind \subseteq Calls

(* The message of a question *)
QuestionOf(id) == CHOOSE m \in said : m.role = "user" /\ m.id = id

(* A stream that replays shows the answer to the question it is asked for. *)
(* When a question was put before the one before it was answered, the      *)
(* answer to that one follows in the order of the messages: it is then     *)
(* replayed as the later question's.  It is never the other way round.     *)
(* message_response_stream.rs:123.                                         *)
ReplaysOwnTurn ==
  \A c \in Calls :
    replayed[c] \notin {Nothing, call[c].key} =>
      \E a \in said : /\ a.role = "ai" /\ a.about = replayed[c]
                      /\ QuestionOf(a.about).stamp < QuestionOf(call[c].key).stamp
                      /\ QuestionOf(call[c].key).stamp < a.stamp

(* A question has one stored answer, unless a second stream looked for it  *)
(* before the first had stored it, or another question was put before the  *)
(* answer.  message_response_stream.rs:209.                                *)
OneAnswerPerQuestion ==
  \A a, b \in said :
    a.role = "ai" /\ b.role = "ai" /\ a.about = b.about /\ a # b =>
      \/ a.id \in blind \/ b.id \in blind
      \/ \E n \in History(a.chat) : /\ n.role = "user" /\ n.id # a.about
                                    /\ QuestionOf(a.about).stamp < n.stamp
                                    /\ n.stamp < a.stamp \/ n.stamp < b.stamp

(* The references stored with an answer are ids of rows of the asker, the  *)
(* ones the retrieval returned where it returned any, and no more than the *)
(* limit.  reference_validation.rs:109.                                    *)
StoredReferencesAreOwn ==
  \A m \in said :
    /\ Cardinality(m.refs) <= MaxReferences
    /\ \A r \in m.refs : RefOwner["chunk"][r] = m.by \/ RefOwner["entity"][r] = m.by

(* Who writes to a conversation, or is answered in it, is its owner.       *)
(* chat_handlers.rs:78, conversation.rs:88.                                *)
ConversationsArePrivate ==
  \A m \in said : chat[m.chat] # Nothing => chat[m.chat].owner = m.by

(* The list kept for a user's sidebar is the one in the database, unless a *)
(* request has changed it and not yet dropped the copy, or did so between  *)
(* the reading and the keeping of another.  The copy is then used for as   *)
(* long as it lives.  response_middleware.rs:222, html_state.rs:76.        *)
SidebarsHaveReasons ==
  \A u \in Users :
    archive[u] # Nothing /\ archive[u] # SidebarOf(u) =>
      \/ u \in passed
      \/ \E d \in Calls : /\ call[d].op \in {"chat", "title", "delete chat"}
                          /\ call[d].user = u
                          /\ call[d].at \in {"store", "invalidate", "failed"}

(* An answer's stream is closed: it waits for the task that stores the     *)
(* answer, which waits for the stream to let go of the pieces.             *)
(* message_response_stream.rs:291.                                         *)
StreamsClose == \A c \in Calls : At(c, "stream", "final") ~> Ended(c)
=============================================================================
