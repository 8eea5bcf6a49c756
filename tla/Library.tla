-------------------------------- MODULE Library --------------------------------
(***************************************************************************)
(* Files, objects, ingestion jobs and contents, and the requests that      *)
(* upload, ingest, serve, edit and delete them.                            *)
(*                                                                         *)
(* A file is a row of `file` and an object in the object store under a     *)
(* prefix of its own; rows are unique per user and digest, so an upload of *)
(* a known digest reuses the row.  A job carries a copy of the file row in *)
(* its payload and its content takes the copy over: nothing in the         *)
(* database ties a content to the file it names.                           *)
(***************************************************************************)
EXTENDS WebCalls, Sequences

CONSTANTS
  Digests,             \* sha256 of uploaded bytes
  Parts,               \* positions of files in a form, 1..n
  SeedFile,            \* a file there is before the first request
  SeedOwner,           \* whose file that is
  SeedDigest,          \* its digest
  SeedContents,        \* contents of the same user, made of that file
  SeedJob,             \* a task of the same user, with that file, not yet claimed
  Forms,               \* submitted forms: user, route, lengths of the fields, files
  Limits,              \* ingest_max_* of the configuration
  MaxErrors            \* max_consecutive_db_errors

VARIABLES
  file,                \* rows of `file`
  object,              \* files whose object is stored
  content,             \* rows of `text_content`
  children,            \* contents with chunks, entities, relationships
  job,                 \* rows of `ingestion_task`, and how far a worker is with them
  part,                \* per call and position: the upload of one file
  raced                \* files deleted while an upload or a job held them (history)

libVars == <<file, object, content, children, job, part, raced>>

-----------------------------------------------------------------------------
Files == (Calls \X Parts) \cup {SeedFile}
FormJobs == Calls \X (Parts \cup {0})
Jobs == FormJobs \cup SeedContents \cup {SeedJob}

FileRow(u, d) == [owner |-> u, digest |-> d]
NoPart == [digest |-> Nothing, at |-> "none", file |-> Nothing]
NoJob == [row |-> "none", work |-> "none", owner |-> Nobody, file |-> Nothing]

FileRows == [owner : Users, digest : Digests]
ContentRows == [owner : Users, file : Files \cup {Nothing}, edited : BOOLEAN]
JobStates == [row : {"none", "owed", "queued", "done", "failed", "gone"},
              work : {"none", "waiting", "read", "over"},
              owner : Users \cup {Nobody}, file : Files \cup {Nothing}]
PartStates == [digest : Digests \cup {Nothing},
               at : {"none", "find", "put", "create", "undo", "again", "ok"},
               file : Files \cup {Nothing}]

(* Ids and prefixes are made fresh; a row, or a file, is not the lack of one *)
ASSUME LibraryAssumption ==
  /\ SeedFile \notin Calls \X Parts /\ 0 \notin Parts
  /\ SeedContents \cap FormJobs = {} /\ SeedJob \notin FormJobs \cup SeedContents
  /\ SeedOwner \in Users /\ SeedDigest \in Digests
  /\ Nothing \notin Files \cup FileRows \cup ContentRows
  /\ \A r \in Forms : /\ r.user \in Users /\ r.op \in {"form", "api"}
                     /\ r.files \in Seq(Digests) /\ DOMAIN r.files \subseteq Parts

(* get_by_sha: SELECT ... WHERE sha256 = .. AND user_id = .. LIMIT 1 *)
KnownAs(u, d) == {f \in Files : file[f] = FileRow(u, d)}

(* has_other_with_file: some other content names the file *)
HasOtherWithFile(f, k) ==
  \E other \in Jobs \ {k} : content[other] # Nothing /\ content[other].file = f

(* get_text_contents, get_latest_text_contents, get_user_categories: whose *)
(* rows a list of contents shows                                           *)
OwnersListed(u) == {content[k].owner : k \in {k \in Jobs :
                      content[k] # Nothing /\ content[k].owner = u}}

(* As an upload of one file in each of three forms leaves it, before a worker *)
(* has come to the last                                                      *)
LibraryInit ==
  /\ file = [f \in Files |-> IF f = SeedFile THEN FileRow(SeedOwner, SeedDigest)
                             ELSE Nothing]
  /\ content = [k \in Jobs |-> IF k \in SeedContents
                  THEN [owner |-> SeedOwner, file |-> SeedFile, edited |-> FALSE]
                  ELSE Nothing]
  /\ job = [k \in Jobs |-> IF k \in SeedContents
              THEN [row |-> "done", work |-> "over", owner |-> SeedOwner, file |-> SeedFile]
              ELSE IF k = SeedJob
              THEN [row |-> "queued", work |-> "waiting", owner |-> SeedOwner, file |-> SeedFile]
              ELSE NoJob]
  /\ object = {SeedFile}
  /\ children = SeedContents
  /\ part = [p \in Calls \X Parts |-> NoPart]
  /\ raced = {}

-----------------------------------------------------------------------------
(* Observation: which files a request or a job holds, and which ones a      *)
(* request has decided to delete                                            *)
Holds(c, f) == \E i \in Parts : Running(c) /\ part[<<c, i>>].file = f
Held(f) == (\E c \in Calls : Holds(c, f))
           \/ \E k \in Jobs : job[k].file = f /\ job[k].work \in {"waiting", "read"}
Doomed(f) == \E c \in Calls : /\ call[c].op = "delete" /\ call[c].got = f
                              /\ call[c].at \in {"file", "object", "row"}
SeeRaces == raced' = raced \cup {f \in Files : Held(f)' /\ Doomed(f)'}

-----------------------------------------------------------------------------
(* POST of the ingest form, and of the API: validation *)

(* validate_ingest_input *)
WithinLimits(r) ==
  /\ (IF r.content < 0 THEN 0 ELSE r.content) + r.context + r.category <= Limits.body
  /\ Len(r.files) <= Limits.files
  /\ r.content <= Limits.content
  /\ r.context <= Limits.context
  /\ r.category <= Limits.category

(* The form's own check; the API has none.  content is -1 for None. *)
FormIsFilled(r) == r.content >= 2 \/ r.files # <<>>

(* parse_content: three bytes or more become a URL or a text payload *)
ContentFollows(r) == r.content > 2

(* create_ingestion_payload: one payload per file, then the content *)
Payloads(r) == DOMAIN r.files \cup (IF ContentFollows(r) THEN {0} ELSE {})

(* process_ingest_form (html) and handle (api) up to their first await *)
Submit(c, r) ==
  /\ Starts(c, r.op, r.user, Nothing,
            IF ~WithinLimits(r) \/ (r.op = "form" /\ ~FormIsFilled(r)) THEN "refused"
            ELSE IF r.files = <<>> THEN "payloads" ELSE "upload")
  /\ part' = [p \in Calls \X Parts |->
       IF p[1] = c /\ p[2] \in DOMAIN r.files /\ call'[c].at = "upload"
         THEN [NoPart EXCEPT !.digest = r.files[p[2]], !.at = "find"]
         ELSE part[p]]
  /\ job' = [k \in Jobs |->
       IF call'[c].at # "refused" /\ k \in {<<c, i>> : i \in Payloads(r)}
         THEN [NoJob EXCEPT !.owner = r.user, !.row = "owed"] ELSE job[k]]
  /\ UNCHANGED <<file, object, content, children, faults>>

-----------------------------------------------------------------------------
(* FileInfo::new_with_storage, once per file of the form, concurrently *)
Uploading(c, i, step) ==
  /\ call[c].op \in {"form", "api"} /\ call[c].at = "upload"
  /\ part[<<c, i>>].at = step

PartGoes(c, i, step) == part' = [part EXCEPT ![<<c, i>>].at = step]

PartHas(c, i, f) == part' = [part EXCEPT ![<<c, i>>].at = "ok", ![<<c, i>>].file = f]

(* The digest is known for this user, and its row is the result; or it is *)
(* not, or the query fails, and the bytes are stored.                     *)
FindDigest(c, i) ==
  /\ Uploading(c, i, "find")
  /\ LET known == KnownAs(call[c].user, part[<<c, i>>].digest)
     IN \/ known # {} /\ (\E f \in known : PartHas(c, i, f)) /\ UNCHANGED faults
        \/ known = {} /\ PartGoes(c, i, "put") /\ UNCHANGED faults
        \/ known # {} /\ Fault /\ PartGoes(c, i, "put")
  /\ UNCHANGED <<file, object, content, children, job, call>>

(* persist_bytes_with_storage, under a fresh prefix *)
PutObject(c, i) ==
  /\ Uploading(c, i, "put")
  /\ object' = object \cup {<<c, i>>}
  /\ PartGoes(c, i, "create")
  /\ UNCHANGED <<file, content, children, job, call, faults>>

(* CREATE file: refused by the unique index when another upload was first *)
CreateFileRow(c, i) ==
  /\ Uploading(c, i, "create")
  /\ \/ /\ KnownAs(call[c].user, part[<<c, i>>].digest) = {}
        /\ file' = [file EXCEPT ![<<c, i>>] =
                      FileRow(call[c].user, part[<<c, i>>].digest)]
        /\ PartHas(c, i, <<c, i>>)
        /\ UNCHANGED faults
     \/ /\ \/ KnownAs(call[c].user, part[<<c, i>>].digest) # {} /\ UNCHANGED faults
           \/ Fault
        /\ PartGoes(c, i, "undo")
        /\ UNCHANGED file
  /\ UNCHANGED <<object, content, children, job, call>>

(* Slip: the loser's object is forgotten *)
UndoObjectNot(c, i) ==
  /\ Uploading(c, i, "undo")
  /\ PartGoes(c, i, "again")
  /\ UNCHANGED <<object, file, content, children, job, call, faults>>

(* The object of the refused row is removed again; failing to is logged *)
UndoObject(c, i) ==
  /\ Uploading(c, i, "undo")
  /\ \/ object' = object \ {<<c, i>>} /\ UNCHANGED faults
     \/ Fault /\ UNCHANGED object
  /\ PartGoes(c, i, "again")
  /\ UNCHANGED <<file, content, children, job, call>>

(* The row that won is the result; without one the request fails, and      *)
(* try_join_all drops the uploads of the other files where they are.       *)
FindWinner(c, i) ==
  /\ Uploading(c, i, "again")
  /\ LET known == KnownAs(call[c].user, part[<<c, i>>].digest)
     IN \/ known # {} /\ (\E f \in known : PartHas(c, i, f)) /\ UNCHANGED call
        \/ known = {} /\ Fails(c) /\ UNCHANGED part
  /\ UNCHANGED <<file, object, content, children, job, faults>>

UploadsDone(c) ==
  /\ call[c].op \in {"form", "api"} /\ call[c].at = "upload"
  /\ \A i \in Parts : part[<<c, i>>].at \in {"none", "ok"}
  /\ Goto(c, "payloads")
  /\ UNCHANGED <<file, object, content, children, job, part, faults>>

(* create_ingestion_payload finds nothing to ingest: NotFound *)
NothingToIngest(c) ==
  /\ call[c].op \in {"form", "api"} /\ call[c].at = "payloads"
  /\ \A k \in FormJobs : k[1] = c => job[k].row = "none"
  /\ Refuses(c)
  /\ UNCHANGED <<file, object, content, children, job, part, faults>>

(* create_all_and_add_to_db: one CREATE per payload, concurrently *)
CreateJob(c, i) ==
  /\ call[c].op \in {"form", "api"} /\ call[c].at = "payloads"
  /\ job[<<c, i>>].row = "owed"
  /\ job' = [job EXCEPT ![<<c, i>>].row = "queued", ![<<c, i>>].work = "waiting",
               ![<<c, i>>].file = IF i = 0 THEN Nothing ELSE part[<<c, i>>].file]
  /\ IF \E j \in (Parts \cup {0}) \ {i} : job[<<c, j>>].row = "owed"
       THEN UNCHANGED call ELSE Answers(c, {})
  /\ UNCHANGED <<file, object, content, children, part, faults>>

-----------------------------------------------------------------------------
(* The worker, as far as files and contents are concerned (IngestionQueue   *)
(* has the rest): it reads the object the payload names, and persists.      *)
ExtractText(k) ==
  /\ job[k].row = "queued" /\ job[k].work = "waiting"
  /\ job' = [job EXCEPT ![k] =
       IF job[k].file = Nothing \/ job[k].file \in object
         THEN [@ EXCEPT !.work = "read"]
         ELSE [@ EXCEPT !.work = "over", !.row = "failed"]]
  /\ UNCHANGED <<file, object, content, children, part, call, faults>>

PersistContent(k) ==
  /\ job[k].work = "read"
  /\ content' = [content EXCEPT ![k] =
       [owner |-> job[k].owner, file |-> job[k].file, edited |-> FALSE]]
  /\ children' = children \cup {k}
  /\ job' = [job EXCEPT ![k].work = "over",
               ![k].row = IF @ = "gone" THEN @ ELSE "done"]
  /\ UNCHANGED <<file, object, part, call, faults>>

-----------------------------------------------------------------------------
(* delete_text_content, of the index and of the content page *)
(* get_and_validate_text_content: the row and its owner *)
ReadDoomedContent(c) ==
  /\ At(c, "delete", "read")
  /\ LET row == content[call[c].key]
     IN IF row = Nothing \/ row.owner # call[c].user THEN Refuses(c)
        ELSE Reads(c, row.file, IF row.file = Nothing THEN "clear" ELSE "check")
  /\ UNCHANGED <<file, object, content, children, job, part, faults>>

(* Slip: the file goes with the first content that names it *)
CheckNothing(c) ==
  /\ At(c, "delete", "check")
  /\ Goto(c, "file")
  /\ UNCHANGED <<file, object, content, children, job, part, faults>>

CheckFileInUse(c) ==
  /\ At(c, "delete", "check")
  /\ Goto(c, IF HasOtherWithFile(call[c].got, call[c].key) THEN "clear" ELSE "file")
  /\ UNCHANGED <<file, object, content, children, job, part, faults>>

(* delete_by_id_with_storage: the row, the objects below its prefix, the row *)
ReadDoomedFile(c) ==
  /\ At(c, "delete", "file")
  /\ Goto(c, IF file[call[c].got] = Nothing THEN "clear" ELSE "object")
  /\ UNCHANGED <<file, object, content, children, job, part, faults>>

DeleteObject(c) ==
  /\ At(c, "delete", "object")
  /\ object' = object \ {call[c].got}
  /\ Goto(c, "row")
  /\ UNCHANGED <<file, content, children, job, part, faults>>

DeleteFileRow(c) ==
  /\ At(c, "delete", "row")
  /\ file' = [file EXCEPT ![call[c].got] = Nothing]
  /\ Goto(c, "clear")
  /\ UNCHANGED <<object, content, children, job, part, faults>>

(* clear_ingested_children: one transaction *)
ClearChildren(c) ==
  /\ At(c, "delete", "clear")
  /\ children' = children \ {call[c].key}
  /\ Goto(c, "content")
  /\ UNCHANGED <<file, object, content, job, part, faults>>

DeleteContentRow(c) ==
  /\ At(c, "delete", "content")
  /\ content' = [content EXCEPT ![call[c].key] = Nothing]
  /\ Goto(c, "list")
  /\ UNCHANGED <<file, object, children, job, part, faults>>

-----------------------------------------------------------------------------
(* patch_text_content: validated by one statement, changed by another that *)
(* names the id alone and reports NotFound when the row has gone           *)
ReadPatchedContent(c) ==
  /\ At(c, "patch", "read")
  /\ LET row == content[call[c].key]
     IN IF row = Nothing \/ row.owner # call[c].user THEN Refuses(c) ELSE Goto(c, "patch")
  /\ UNCHANGED <<file, object, content, children, job, part, faults>>

PatchContent(c) ==
  /\ At(c, "patch", "patch")
  /\ IF content[call[c].key] = Nothing
       THEN Refuses(c) /\ UNCHANGED content
       ELSE /\ content' = [content EXCEPT ![call[c].key].edited = TRUE]
            /\ Goto(c, "list")
  /\ UNCHANGED <<file, object, children, job, part, faults>>

(* The lists that end the handlers above, and the pages that are only lists *)
ListContents(c) ==
  /\ call[c].op \in {"delete", "patch", "pages"} /\ call[c].at = "list"
  /\ Answers(c, OwnersListed(call[c].user))
  /\ UNCHANGED <<file, object, content, children, job, part, faults>>

(* serve_file: row, owner, stream; the response is "refused" without them *)
ReadServedFile(c) ==
  /\ At(c, "serve", "read")
  /\ LET row == file[call[c].key]
     IN IF row = Nothing \/ row.owner # call[c].user THEN Refuses(c)
        ELSE Reads(c, row.owner, "stream")
  /\ UNCHANGED <<file, object, content, children, job, part, faults>>

StreamFile(c) ==
  /\ At(c, "serve", "stream")
  /\ IF call[c].key \in object THEN Answers(c, {call[c].got}) ELSE Refuses(c)
  /\ UNCHANGED <<file, object, content, children, job, part, faults>>

-----------------------------------------------------------------------------
(* validate_and_delete_job: the owner by one statement, the row by another *)
ReadDoomedJob(c) ==
  /\ At(c, "deljob", "read")
  /\ LET k == job[call[c].key]
     IN IF k.row \in {"none", "owed", "gone"} \/ k.owner # call[c].user
          THEN Refuses(c) ELSE Goto(c, "delete")
  /\ UNCHANGED <<file, object, content, children, job, part, faults>>

(* A worker that has the task goes on with its copy; one that has not never *)
(* sees it                                                                  *)
DeleteJobRow(c) ==
  /\ At(c, "deljob", "delete")
  /\ job' = [job EXCEPT ![call[c].key].row = "gone",
               ![call[c].key].work = IF @ = "waiting" THEN "over" ELSE @]
  /\ Answers(c, {})
  /\ UNCHANGED <<file, object, content, children, part, faults>>

(* get_task_updates_stream: authorised once, then a poll every two seconds  *)
(* until the task has ended, has gone, or three polls in a row have failed  *)
OpenTaskStream(c) ==
  /\ At(c, "watch", "open")
  /\ LET k == job[call[c].key]
     IN IF k.row \in {"none", "owed", "gone"} \/ k.owner # call[c].user
          THEN Refuses(c) ELSE Reads(c, 0, "poll")
  /\ UNCHANGED <<file, object, content, children, job, part, faults>>

(* Slip: a task that disappears is polled again *)
PollTaskForEver(c) ==
  /\ At(c, "watch", "poll")
  /\ LET row == job[call[c].key].row
     IN IF row \in {"queued", "gone"} THEN Reads(c, 0, "poll")
        ELSE Answers(c, {job[call[c].key].owner})
  /\ UNCHANGED <<file, object, content, children, job, part, faults>>

PollTask(c) ==
  /\ At(c, "watch", "poll")
  /\ LET row == job[call[c].key].row
     IN IF row = "queued" THEN Reads(c, 0, "poll")
        ELSE IF row = "gone" THEN Refuses(c)
        ELSE Answers(c, {job[call[c].key].owner})
  /\ UNCHANGED <<file, object, content, children, job, part, faults>>

PollFails(c) ==
  /\ At(c, "watch", "poll") /\ Fault
  /\ IF call[c].got + 1 >= MaxErrors THEN Fails(c) ELSE Reads(c, call[c].got + 1, "poll")
  /\ UNCHANGED <<file, object, content, children, job, part>>

-----------------------------------------------------------------------------
(* Requests other than uploads, with the ids in their paths *)
Request(c, u) ==
  /\ \/ \E k \in Jobs : \/ content[k] # Nothing /\ Starts(c, "delete", u, k, "read")
                        \/ content[k] # Nothing /\ Starts(c, "patch", u, k, "read")
     \/ \E f \in Files : file[f] # Nothing /\ Starts(c, "serve", u, f, "read")
     \/ \E k \in Jobs : \/ job[k].row = "queued" /\ Starts(c, "deljob", u, k, "read")
                        \/ job[k].row = "queued" /\ Starts(c, "watch", u, k, "open")
     \/ Starts(c, "pages", u, Nothing, "list")
  /\ UNCHANGED <<file, object, content, children, job, part, faults>>

(* A request that is being uploaded and fails in one file drops the others *)
AbandonLibraryCall(c) ==
  AbandonCall(c) /\ UNCHANGED <<file, object, content, children, job, part>>

UploadStep(c) ==
  \/ \E i \in Parts : \/ FindDigest(c, i) \/ PutObject(c, i) \/ CreateFileRow(c, i)
                      \/ UndoObject(c, i) \/ FindWinner(c, i)
  \/ UploadsDone(c)
  \/ NothingToIngest(c)
  \/ \E i \in Parts \cup {0} : CreateJob(c, i)

DeleteStep(c) ==
  \/ ReadDoomedContent(c) \/ CheckFileInUse(c) \/ ReadDoomedFile(c)
  \/ DeleteObject(c) \/ DeleteFileRow(c) \/ ClearChildren(c) \/ DeleteContentRow(c)

OtherStep(c) ==
  \/ ReadPatchedContent(c) \/ PatchContent(c) \/ ListContents(c)
  \/ ReadServedFile(c) \/ StreamFile(c)
  \/ ReadDoomedJob(c) \/ DeleteJobRow(c)
  \/ OpenTaskStream(c) \/ PollTask(c)

WorkerStep == \E k \in Jobs : ExtractText(k) \/ PersistContent(k)

LibraryNext ==
  /\ \/ \E c \in Calls :
          \/ UploadStep(c) \/ DeleteStep(c) \/ OtherStep(c)
          \/ PollFails(c) \/ AbandonLibraryCall(c)
          \/ \E u \in Users : Request(c, u)
          \/ \E r \in Forms : Submit(c, r)
     \/ WorkerStep
  /\ SeeRaces

(* A stream that is polled by its client goes on polling the task *)
LibraryFairness == \A c \in Calls : WF_callVars(PollTask(c))

LibrarySpec ==
  /\ LibraryInit /\ CallsInit
  /\ [][LibraryNext]_<<libVars, callVars>>
  /\ LibraryFairness

-----------------------------------------------------------------------------
LibraryTypeOK ==
  /\ file \in [Files -> FileRows \cup {Nothing}]
  /\ object \subseteq Files
  /\ content \in [Jobs -> ContentRows \cup {Nothing}]
  /\ children \subseteq Jobs
  /\ job \in [Jobs -> JobStates]
  /\ part \in [Calls \X Parts -> PartStates]

(* A content whose file is gone from the database or the store: only while *)
(* the request that deletes this very content is under way, or when the    *)
(* file was deleted while an upload or a job held it already.  In          *)
(* particular two contents that share a file never lose it to a deletion   *)
(* of one of them.  file_info.rs:262, content/handlers.rs:171.             *)
ContentKeepsFile ==
  \A k \in Jobs :
    content[k] # Nothing /\ content[k].file # Nothing
      /\ (file[content[k].file] = Nothing \/ content[k].file \notin object)
    => \/ content[k].file \in raced
       \/ \E c \in Calls : /\ call[c].op = "delete" /\ call[c].key = k
                           /\ call[c].at \in {"row", "clear", "content", "failed"}

(* An object without a row belongs to an upload that is still going to     *)
(* create the row or to remove the object, unless a fault cut it short;    *)
(* a row without an object belongs to a deletion under way likewise.       *)
(* file_info.rs:235, file_info.rs:276.                                     *)
ObjectsMatchRows ==
  faults = 0 =>
    \A f \in Files :
      /\ f \in object /\ file[f] = Nothing
           => /\ f # SeedFile
              /\ part[f].at \in {"create", "undo"} \/ call[f[1]].at = "failed"
      /\ f \notin object /\ file[f] # Nothing
           => \E c \in Calls : At(c, "delete", "row") /\ call[c].got = f

(* Pages and downloads show rows of their reader alone. *)
PagesAreOwn ==
  \A c \in Calls : call[c].page \subseteq {call[c].user}

(* A request whose answer says that its tasks were created has created all *)
(* of them, each with the file uploaded for it, and has stored that file   *)
(* under a row of the same user at some time.  ingestion_task.rs:266.      *)
AnsweredUploadsAreQueued ==
  \A c \in Calls :
    call[c].op \in {"form", "api"} /\ call[c].at = "answered" =>
      \A i \in Parts \cup {0} :
        /\ job[<<c, i>>].row # "owed"
        /\ i # 0 /\ job[<<c, i>>].row # "none" => job[<<c, i>>].file # Nothing

(* What a request that uploads leaves behind, done or failed in the middle: *)
(* file_info.rs:192 and ingestion_task.rs:266.                             *)
UploadsAreWhole == ObjectsMatchRows /\ AnsweredUploadsAreQueued

(* The stream of a task's updates ends when the task has: it is authorised *)
(* once and polls a row that may end, or disappear, at any time.           *)
(* ingestion/handlers.rs:188.                                              *)
TaskStreamsEnd ==
  \A c \in Calls :
    (call[c].op = "watch" /\ call[c].at = "poll"
       /\ job[call[c].key].row \in {"done", "failed", "gone"})
    ~> Ended(c)
=============================================================================
