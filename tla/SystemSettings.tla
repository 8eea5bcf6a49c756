--------------------------- MODULE SystemSettings ---------------------------
(***************************************************************************)
(* The row system_settings:current (system_settings.rs): the options an    *)
(* administrator edits, the embedding backend, the checkpoint and the      *)
(* lease of the scheduled index rebuild.  Every statement on it is one     *)
(* definition here.  Web requests and start-ups that change options read   *)
(* the whole row, edit their copy and merge the whole copy back; the       *)
(* statements of the index rebuild set single columns.                     *)
(*                                                                         *)
(* Times are relative to now: the checkpoint is the age of the last        *)
(* rebuild, which matters up to Interval, the expiry is what is left of    *)
(* the lease, -1 once it is over.  A copy ages like the row, because the   *)
(* instants in it are the same.                                            *)
(***************************************************************************)
EXTENDS Integers

CONSTANTS
  Clients,         \* requests of administrators and starting processes
  Workers,
  Fields,          \* the columns an administrator may patch
  EmbeddingField,  \* among them, embedding_model with embedding_dimensions
  Values,
  None,            \* Option::None, NONE in the database
  Interval,        \* index_rebuild_interval_secs; 0, which disables all, is left out
  LeaseTtl         \* INDEX_REBUILD_LEASE_TTL

VARIABLES
  row,             \* the row
  clientAt,        \* where each client is in its read, edit and merge
  changes,         \* its copy of the row, edited
  patch            \* what it was asked to change

clientVars == <<clientAt, changes, patch>>
settingsVars == <<row, clientVars>>

ASSUME SettingsAssumption ==
  /\ EmbeddingField \in Fields
  /\ Values # {}
  /\ None \notin Values
  /\ None \notin Workers
  /\ None \notin Int
  /\ Interval \in Nat \ {0}
  /\ LeaseTtl \in Nat \ {0}

Rows == [options    : [Fields -> Values],
         backend    : Values,
         checkpoint : (0..Interval) \cup {None},
         owner      : Workers \cup {None},
         expires    : (-1..LeaseTtl) \cup {None}]

Patches == [Fields -> Values \cup {None}]

NoPatch == [f \in Fields |-> None]

(* The row of a new database: never rebuilt, nobody rebuilding *)
InitSettings ==
  /\ row \in {r \in Rows : r.checkpoint = None /\ r.owner = None /\ r.expires = None}
  /\ clientAt = [c \in Clients |-> "idle"]
  /\ changes  = [c \in Clients |-> row]
  /\ patch    = [c \in Clients |-> NoPatch]

Aged(r) ==
  [r EXCEPT !.checkpoint = IF @ \in {None, Interval} THEN @ ELSE @ + 1,
            !.expires    = IF @ \in {None, -1} THEN @ ELSE @ - 1]

(* One unit passes for the row and for the copies in use *)
AgeSettings ==
  /\ row' = Aged(row)
  /\ changes' = [c \in Clients |->
       IF clientAt[c] = "idle" THEN changes[c] ELSE Aged(changes[c])]
  /\ UNCHANGED <<clientAt, patch>>

-----------------------------------------------------------------------------
(* The statements of the index rebuild.                                    *)

(* scheduled_index_rebuild_due, asked of a copy of the row *)
Due(checkpoint) == checkpoint = Interval

(* Slip: the seeded checkpoint is the epoch *)
SeedCheckpointWithEpoch ==
  row' = IF row.checkpoint = None THEN [row EXCEPT !.checkpoint = Interval] ELSE row

(* seed_index_rebuild_checkpoint *)
SeedCheckpoint ==
  row' = IF row.checkpoint = None THEN [row EXCEPT !.checkpoint = 0] ELSE row

(* Slip: an expired lease is not taken over *)
LeaseReleased == row.expires = None

(* Slip: the lease can be taken while it runs out *)
LeaseFreeOneEarly == row.expires \in {None, -1, 0}

LeaseFree == row.expires \in {None, -1}

(* try_acquire_index_rebuild_lease, where it finds the lease free *)
TakeLease(w) ==
  /\ LeaseFree
  /\ row' = [row EXCEPT !.owner = w, !.expires = LeaseTtl]

(* Slip: whoever holds the lease *)
LeaseOwnedBySomebody(w) == row.owner # None

LeaseOwnedBy(w) == row.owner = w

(* Slip: the expiry is left standing *)
ReleaseLeaseOwnerOnly(w) ==
  row' = IF LeaseOwnedBy(w) THEN [row EXCEPT !.owner = None] ELSE row

(* release_index_rebuild_lease *)
ReleaseLease(w) ==
  row' = IF LeaseOwnedBy(w) THEN [row EXCEPT !.owner = None, !.expires = None] ELSE row

(* record_index_rebuild_completed: no error when the lease is gone *)
RecordRebuild(w) ==
  row' = IF LeaseOwnedBy(w)
           THEN [row EXCEPT !.checkpoint = 0, !.owner = None, !.expires = None]
           ELSE row

-----------------------------------------------------------------------------
(* The clients.                                                            *)

(* SystemSettingsPatch::apply_to *)
ApplyTo(p, r) ==
  [r EXCEPT !.options = [f \in Fields |-> IF p[f] = None THEN r.options[f] ELSE p[f]]]

(* SystemSettingsPatch::apply, up to get_current.  update_model_settings   *)
(* computes its patch from a read of its own before that; whatever it      *)
(* read, the outcome is some patch.                                        *)
ReadForPatch(c) ==
  /\ clientAt[c] = "idle"
  /\ \E p \in Patches \ {NoPatch} :
       /\ patch'   = [patch EXCEPT ![c] = p]
       /\ changes' = [changes EXCEPT ![c] = ApplyTo(p, row)]
  /\ clientAt' = [clientAt EXCEPT ![c] = "updating"]
  /\ UNCHANGED row

(* update_with_mode for a user: the backend comes from a second read *)
KeepBackend(c) ==
  /\ clientAt[c] = "updating"
  /\ changes'  = [changes EXCEPT ![c].backend = row.backend]
  /\ clientAt' = [clientAt EXCEPT ![c] = "merging"]
  /\ UNCHANGED <<row, patch>>

(* sync_from_embedding_provider with a provider whose properties differ;   *)
(* here update_with_mode leaves the copy as it is                          *)
ReadForSync(c) ==
  /\ clientAt[c] = "idle"
  /\ \E v \in Values :
       /\ row.backend # v \/ row.options[EmbeddingField] # v
       /\ patch'   = [patch EXCEPT ![c] = [NoPatch EXCEPT ![EmbeddingField] = v]]
       /\ changes' = [changes EXCEPT ![c] =
            [row EXCEPT !.backend = v, !.options[EmbeddingField] = v]]
  /\ clientAt' = [clientAt EXCEPT ![c] = "syncing"]
  /\ UNCHANGED row

EndClient(c) ==
  /\ clientAt' = [clientAt EXCEPT ![c] = "idle"]
  /\ patch'    = [patch EXCEPT ![c] = NoPatch]

(* UPDATE ... MERGE $changes: every column of the copy, None included *)
Merge(c) ==
  /\ clientAt[c] \in {"merging", "syncing"}
  /\ row' = changes[c]
  /\ EndClient(c)
  /\ UNCHANGED changes

(* The copy fails validate, a statement fails, or the process dies *)
GiveUp(c) ==
  /\ clientAt[c] # "idle"
  /\ EndClient(c)
  /\ UNCHANGED <<row, changes>>

StartClient(c) == ReadForPatch(c) \/ ReadForSync(c)

ContinueClient(c) == KeepBackend(c) \/ Merge(c) \/ GiveUp(c)

-----------------------------------------------------------------------------
SettingsTypeOK ==
  /\ row \in Rows
  /\ clientAt \in [Clients -> {"idle", "updating", "merging", "syncing"}]
  /\ changes \in [Clients -> Rows]
  /\ patch \in [Clients -> Patches]

(* "Partial update for singleton system settings without cloning unchanged *)
(* fields" (system_settings.rs:49): the patch of an administrator leaves   *)
(* the columns it does not name as they are in the database.               *)
PatchIsPartial ==
  [][\A c \in Clients :
       clientAt[c] = "merging" /\ clientAt'[c] = "idle" =>
         row' \in {row, ApplyTo(patch[c], row)}]_settingsVars
=============================================================================
