------------------------------ MODULE Scratchpads ------------------------------
(***************************************************************************)
(* Scratchpads (scratchpad.rs) and the handlers of scratchpad/handlers.rs. *)
(* Each function of the model first reads the row to check its owner, then *)
(* changes it by id in a statement of its own, then reads it again: two    *)
(* requests for one pad interleave between the check and the change.       *)
(***************************************************************************)
EXTENDS WebCalls

CONSTANTS
  Pads,                \* ids of scratchpads
  SeedPads,            \* pads there are before the first request
  PadOwner,            \* their owner
  Texts,               \* what clients save
  Blank                \* a text that is empty once trimmed

ASSUME ScratchpadsAssumption == PadOwner \in Users

VARIABLES
  pad,                 \* rows of `scratchpad`
  queued,              \* tasks made from pads: <<call, pad, text>>
  late                 \* pads saved while an ingestion had read their text, or
                       \* after they were archived or ingested (history)

padVars == <<pad, queued, late>>

-----------------------------------------------------------------------------
(* Scratchpad::new.  archived_at is set and removed with is_archived. *)
NewPad(u) == [owner |-> u, text |-> Blank, archived |-> FALSE, ingested |-> FALSE]

PadsInit ==
  /\ pad = [p \in Pads |-> IF p \in SeedPads THEN NewPad(PadOwner) ELSE Nothing]
  /\ queued = {}
  /\ late = {}

(* get_by_user, get_archived_by_user *)
ActivePads(u) == {p \in Pads : pad[p] # Nothing /\ pad[p].owner = u /\ ~pad[p].archived}
ArchivedPads(u) == {p \in Pads : pad[p] # Nothing /\ pad[p].owner = u /\ pad[p].archived}

PadOps == {"save", "title", "drop", "ingest", "archive", "restore", "show"}

-----------------------------------------------------------------------------
(* Where an ingestion has the text in hand *)
IngestSteps == {"queue", "look", "archive", "mark"}

(* Every operation on a pad begins with get_by_id.  What it does with the   *)
(* row decides the next statement, if any.                                  *)
AfterRead(op, row) ==
  CASE op = "save"    -> IF row.archived THEN "kept" ELSE "write"
    [] op = "title"   -> "retitle"
    [] op = "drop"    -> "delete"
    [] op = "ingest"  -> IF row.text = Blank THEN "refused" ELSE "queue"
    [] op = "archive" -> IF row.archived THEN "lists" ELSE "archive"
    [] op = "restore" -> IF row.archived THEN "restore" ELSE "lists"
    [] op = "show"    -> "shown"

(* get_by_id *)
ReadPad(c) ==
  /\ call[c].op \in PadOps /\ call[c].at = "read"
  /\ LET row == pad[call[c].key]
     IN IF row = Nothing \/ row.owner # call[c].user THEN Refuses(c)
        ELSE LET next == AfterRead(call[c].op, row)
             IN IF next \in {"kept", "shown"} THEN Answers(c, {row.owner})
                ELSE Reads(c, row.text, next)
  /\ UNCHANGED <<padVars, faults>>

(* UPDATE of one row by its id: nothing happens when it is gone *)
PatchPad(p, row) == pad' = [pad EXCEPT ![p] = IF @ = Nothing THEN @ ELSE row]

(* create_scratchpad, and the lists it shows *)
CreatePad(c, u, p) ==
  /\ pad[p] = Nothing /\ \A d \in Calls : call[d].key # p
  /\ \A q \in queued : q[2] # p
  /\ Starts(c, "create", u, p, "lists")
  /\ pad' = [pad EXCEPT ![p] = NewPad(u)]
  /\ UNCHANGED <<queued, late, faults>>

(* update_content: content, timestamps and is_dirty in one PATCH, then      *)
(* get_by_id; the answer says success                                       *)
WritePad(c, text) ==
  /\ At(c, "save", "write")
  /\ LET p == call[c].key
     IN /\ PatchPad(p, [pad[p] EXCEPT !.text = text])
        /\ late' = IF pad[p] # Nothing
                        /\ \/ pad[p].archived \/ pad[p].ingested
                           \/ \E d \in Calls : /\ call[d].op = "ingest" /\ call[d].key = p
                                               /\ call[d].at \in IngestSteps
                     THEN late \cup {p} ELSE late
        /\ IF pad[p] = Nothing THEN Refuses(c) ELSE Answers(c, {pad[p].owner})
  /\ UNCHANGED <<queued, faults>>

(* update_title *)
RetitlePad(c) ==
  /\ At(c, "title", "retitle")
  /\ LET row == pad[call[c].key]
     IN IF row = Nothing THEN Refuses(c) ELSE Answers(c, {row.owner})
  /\ UNCHANGED <<padVars, faults>>

(* delete *)
DeletePad(c) ==
  /\ At(c, "drop", "delete")
  /\ pad' = [pad EXCEPT ![call[c].key] = Nothing]
  /\ Goto(c, "lists")
  /\ UNCHANGED <<queued, late, faults>>

(* Slip: the row is archived before the task is stored *)
QueuePadLater(c) ==
  /\ At(c, "ingest", "queue")
  /\ PatchPad(call[c].key, [pad[call[c].key] EXCEPT !.archived = TRUE, !.ingested = TRUE])
  /\ Goto(c, "look")
  /\ UNCHANGED <<queued, late, faults>>

(* ingest_scratchpad: the task with the text that was read is stored ... *)
QueuePad(c) ==
  /\ At(c, "ingest", "queue")
  /\ queued' = queued \cup {<<c, call[c].key, call[c].got>>}
  /\ Goto(c, "look")
  /\ UNCHANGED <<pad, late, faults>>

(* ... and the pad is archived, if it is there and was not before *)
LookAtIngestedPad(c) ==
  /\ At(c, "ingest", "look")
  /\ LET row == pad[call[c].key]
     IN IF row = Nothing THEN Refuses(c)
        ELSE Goto(c, IF row.archived
                       THEN IF row.ingested THEN "lists" ELSE "mark"
                       ELSE "archive")
  /\ UNCHANGED <<padVars, faults>>

(* archive with mark_ingested, and without: ingested_at is removed *)
ArchivePad(c) ==
  /\ call[c].op \in {"ingest", "archive"} /\ call[c].at = "archive"
  /\ PatchPad(call[c].key, [pad[call[c].key] EXCEPT !.archived = TRUE,
                                                   !.ingested = call[c].op = "ingest"])
  /\ IF pad[call[c].key] = Nothing THEN Refuses(c) ELSE Goto(c, "lists")
  /\ UNCHANGED <<queued, late, faults>>

(* A pad that was archived already is only marked *)
MarkPad(c) ==
  /\ At(c, "ingest", "mark")
  /\ PatchPad(call[c].key, [pad[call[c].key] EXCEPT !.ingested = TRUE])
  /\ IF pad[call[c].key] = Nothing THEN Refuses(c) ELSE Goto(c, "lists")
  /\ UNCHANGED <<queued, late, faults>>

(* restore: both marks are removed *)
RestorePad(c) ==
  /\ At(c, "restore", "restore")
  /\ PatchPad(call[c].key, [pad[call[c].key] EXCEPT !.archived = FALSE, !.ingested = FALSE])
  /\ IF pad[call[c].key] = Nothing THEN Refuses(c) ELSE Goto(c, "lists")
  /\ UNCHANGED <<queued, late, faults>>

(* The two lists that end most handlers are two statements *)
ListActivePads(c) ==
  /\ call[c].op \in PadOps \cup {"create", "index"} /\ call[c].at = "lists"
  /\ Reads(c, ActivePads(call[c].user), "archived")
  /\ UNCHANGED <<padVars, faults>>

ListArchivedPads(c) ==
  /\ call[c].op \in PadOps \cup {"create", "index"} /\ call[c].at = "archived"
  /\ Answers(c, {pad[p].owner : p \in ArchivedPads(call[c].user)}
                \cup (IF call[c].got = {} THEN {} ELSE {call[c].user}))
  /\ UNCHANGED <<padVars, faults>>

-----------------------------------------------------------------------------
PadRequest(c, u) ==
  /\ \/ \E p \in Pads, op \in PadOps : pad[p] # Nothing /\ Starts(c, op, u, p, "read")
     \/ Starts(c, "index", u, Nothing, "lists")
  /\ UNCHANGED <<padVars, faults>>

PadStep(c) ==
  \/ ReadPad(c) \/ RetitlePad(c) \/ DeletePad(c)
  \/ \E text \in Texts : WritePad(c, text)
  \/ QueuePad(c) \/ LookAtIngestedPad(c) \/ ArchivePad(c) \/ MarkPad(c) \/ RestorePad(c)
  \/ ListActivePads(c) \/ ListArchivedPads(c)

PadsNext ==
  \E c \in Calls :
    \/ PadStep(c)
    \/ AbandonCall(c) /\ UNCHANGED padVars
    \/ \E u \in Users : PadRequest(c, u) \/ \E p \in Pads : CreatePad(c, u, p)

PadsSpec == PadsInit /\ CallsInit /\ [][PadsNext]_<<padVars, callVars>>

-----------------------------------------------------------------------------
PadsTypeOK ==
  /\ pad \in [Pads -> [owner : Users, text : Texts \cup {Blank},
                       archived : BOOLEAN, ingested : BOOLEAN] \cup {Nothing}]
  /\ queued \subseteq Calls \X Pads \X (Texts \cup {Blank})
  /\ late \subseteq Pads

(* A pad marked as ingested has a task that carries its text.  The text    *)
(* can only differ when a save came between the reading and the marking    *)
(* by the ingestion, or had seen the pad before its archiving and wrote    *)
(* after it: such a text is archived without having been ingested.         *)
(* scratchpad/handlers.rs:291-330, scratchpad.rs:100-109.                  *)
IngestedTextIsQueued ==
  \A p \in Pads :
    pad[p] # Nothing /\ pad[p].ingested =>
      \E q \in queued : q[2] = p /\ (q[3] = pad[p].text \/ p \in late)
=============================================================================
