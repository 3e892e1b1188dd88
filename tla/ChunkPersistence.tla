-------------------------- MODULE ChunkPersistence --------------------------
(***************************************************************************)
(* How ChunkMap keeps chunk data from being lost: holders move between the *)
(* maps `chunks` and `unloading_chunks`, scheduling epochs decide which,   *)
(* save tasks of unloading holders and passes of save_all_chunks write     *)
(* them out, and World::cleanup ends it all.                               *)
(*                                                                         *)
(* The threads are: the game thread, which edits chunks and, between two   *)
(* ticks, commits an epoch; the task of the running epoch, which applies   *)
(* ticket operations and walks unloading_chunks (process_unloads); one     *)
(* save task per unloading holder; the generation tasks that load a chunk; *)
(* and the save_all_chunks pass of an autosave or of the shutdown.  The    *)
(* commit and the epoch task never overlap (ChunkSchedulingCoordinator);   *)
(* everything else does.                                                   *)
(*                                                                         *)
(* A chunk's data is a version number: every change makes a new one.       *)
(* Ticket levels are reduced to "loaded or not", and chunk statuses to     *)
(* "has data that is persisted" (StructureStarts and above).  Storage is   *)
(* the promise RegionFiles checks: a load returns the last save.           *)
(***************************************************************************)
EXTENDS Naturals, FiniteSets

CONSTANTS
    Chunks,         \* chunk positions
    AutoSave,       \* World::request_save is called while the world is played
    MaxVersion,     \* bound: changes of one chunk
    MaxFailures,    \* bound: saves that fail or are put off
    MaxLights,      \* bound: light changes queued
    MaxPasses       \* bound: autosaves

ASSUME PersistenceAssumption ==
    /\ AutoSave \in BOOLEAN
    /\ MaxVersion \in Nat /\ MaxFailures \in Nat /\ MaxLights \in Nat /\ MaxPasses \in Nat

VARIABLES
    want,               \* a ticket asks for the chunk
    applied,            \* ... as the ticket manager last reported it
    epoch,              \* ChunkSchedulingState, Running split by its steps
    change,             \* PreparedChunkSchedulingEpoch.changes
    staged,             \* staged_revivals of this epoch
    unvisited,          \* unloading chunks process_unloads has yet to look at
    deferredRevivals,   \* ChunkMap.deferred_revivals
    place,              \* which map holds the chunk's holder, if any
    lifecycle,          \* ChunkHolder.save_lifecycle
    loading,            \* a generation task works on the holder
    loaded,             \* the holder has persistable data
    content,            \* ... of this version
    dirty,              \* Chunk.dirty
    marking,            \* chunks changed by the game thread and not yet marked dirty
    pending,            \* save_pending_by_chunk: versions in which an entity was left over
    lightPending,       \* a queued light update touches the chunk
    lightFlying,        \* number of drained, unfinished ones that do
    stage,              \* progress of a save, per kind and chunk
    took,               \* ... what take_dirty returned
    handled,            \* ... handled_runtime_entity_ids
    snap,               \* ... the version it snapshotted
    pass,               \* progress of save_all_chunks
    held,               \* holders the pass has collected and keeps alive
    passTodo,           \* ... those it has yet to look at
    passFailed,         \* save_error of the pass
    stop,               \* progress of World::cleanup
    disk,               \* the version a load returns (0: never saved)
    latest,             \* ghost: the newest version of the chunk
    failures, lights, passes    \* counters for the bounds

epochVars == <<epoch, change, staged, unvisited, applied>>
holderVars == <<place, lifecycle, loading, loaded>>
lightVars == <<lightPending, lightFlying, lights>>
saveVars == <<stage, took, handled, snap>>
passVars == <<pass, held, passTodo, passFailed, passes>>
vars == <<want, epochVars, deferredRevivals, holderVars, content, dirty, marking, pending,
          lightVars, saveVars, passVars, stop, disk, latest, failures>>

Kinds == {"unload", "pass"}
Stages == {"none", "flush", "drain", "prepare", "reserved", "taken", "write"}

TypeOK ==
    /\ want \in [Chunks -> BOOLEAN] /\ applied \in [Chunks -> BOOLEAN]
    /\ epoch \in {"idle", "running", "unloads", "ready"}
    /\ change \in [Chunks -> {"keep", "load", "unload"}]
    /\ staged \subseteq Chunks /\ unvisited \subseteq Chunks /\ deferredRevivals \subseteq Chunks
    /\ place \in [Chunks -> {"none", "active", "unloading"}]
    /\ lifecycle \in [Chunks -> {"ACTIVE", "UNLOADING", "PREPARING"}]
    /\ loading \in [Chunks -> BOOLEAN] /\ loaded \in [Chunks -> BOOLEAN]
    /\ content \in [Chunks -> Nat] /\ disk \in [Chunks -> Nat] /\ latest \in [Chunks -> Nat]
    /\ dirty \in [Chunks -> BOOLEAN] /\ marking \subseteq Chunks
    /\ pending \in [Chunks -> SUBSET Nat]
    /\ lightPending \in [Chunks -> BOOLEAN] /\ lightFlying \in [Chunks -> Nat]
    /\ stage \in [Kinds -> [Chunks -> Stages]]
    /\ took \in [Kinds -> [Chunks -> BOOLEAN]]
    /\ handled \in [Kinds -> [Chunks -> SUBSET Nat]]
    /\ snap \in [Kinds -> [Chunks -> Nat]]
    /\ pass \in {"idle", "flush", "drain", "chunks", "unloads", "each"}
    /\ held \subseteq Chunks /\ passTodo \subseteq Chunks /\ passFailed \in BOOLEAN
    /\ stop \in {"running", "joining", "saving", "halted"}
    /\ failures \in Nat /\ lights \in Nat /\ passes \in Nat

Init ==
    /\ want = [c \in Chunks |-> FALSE] /\ applied = [c \in Chunks |-> FALSE]
    /\ epoch = "idle" /\ change = [c \in Chunks |-> "keep"]
    /\ staged = {} /\ unvisited = {} /\ deferredRevivals = {}
    /\ place = [c \in Chunks |-> "none"]
    /\ lifecycle = [c \in Chunks |-> "ACTIVE"]
    /\ loading = [c \in Chunks |-> FALSE] /\ loaded = [c \in Chunks |-> FALSE]
    /\ content = [c \in Chunks |-> 0] /\ disk = [c \in Chunks |-> 0]
    /\ latest = [c \in Chunks |-> 0]
    /\ dirty = [c \in Chunks |-> FALSE] /\ marking = {}
    /\ pending = [c \in Chunks |-> {}]
    /\ lightPending = [c \in Chunks |-> FALSE] /\ lightFlying = [c \in Chunks |-> 0]
    /\ stage = [k \in Kinds |-> [c \in Chunks |-> "none"]]
    /\ took = [k \in Kinds |-> [c \in Chunks |-> FALSE]]
    /\ handled = [k \in Kinds |-> [c \in Chunks |-> {}]]
    /\ snap = [k \in Kinds |-> [c \in Chunks |-> 0]]
    /\ pass = "idle" /\ held = {} /\ passTodo = {} /\ passFailed = FALSE
    /\ stop = "running" /\ failures = 0 /\ lights = 0 /\ passes = 0

-----------------------------------------------------------------------------
(* Mutant of Referenced: the save task borrows the holder.                 *)
ReferencedByLoad(c) == loading[c] \/ c \in held

(* Arc::strong_count: somebody besides the map keeps the holder.           *)
Referenced(c) == loading[c] \/ stage["unload"][c] # "none" \/ c \in held

(* Mutant of LightTouches: drained updates do not count.                   *)
LightQueued(c) == lightPending[c]

(* touches_chunk: an update queued or in flight reaches the chunk.         *)
LightTouches(c) == lightPending[c] \/ lightFlying[c] > 0

(* The chunk has changed: a version nobody has saved yet.                  *)
Changed(c) ==
    /\ latest' = [latest EXCEPT ![c] = @ + 1]
    /\ content' = [content EXCEPT ![c] = latest[c] + 1]

-----------------------------------------------------------------------------
(* Gameplay adds or removes the tickets for a chunk.                       *)
TicketChange(c) ==
    /\ stop = "running"
    /\ want' = [want EXCEPT ![c] = ~ @]
    /\ UNCHANGED <<epochVars, deferredRevivals, holderVars, content, dirty, marking, pending,
                   lightVars, saveVars, passVars, stop, disk, latest, failures>>

(* The game thread changes a loaded chunk and, as the last step of the     *)
(* call, marks it unsaved (set_block_state).  A pass may look in between.  *)
Edit(c) ==
    /\ stop = "running" /\ marking = {}
    /\ place[c] = "active" /\ loaded[c] /\ latest[c] < MaxVersion
    /\ Changed(c)
    /\ marking' = {c}
    /\ UNCHANGED <<want, epochVars, deferredRevivals, holderVars, dirty, pending, lightVars,
                   saveVars, passVars, stop, disk, failures>>

MarkUnsaved(c) ==
    /\ c \in marking
    /\ marking' = marking \ {c}
    /\ dirty' = [dirty EXCEPT ![c] = TRUE]
    /\ UNCHANGED <<want, epochVars, deferredRevivals, holderVars, content, pending, lightVars,
                   saveVars, passVars, stop, disk, latest, failures>>

(* remove_live_entity for a reason that saves: the entity is kept for the  *)
(* next save of its chunk, which is not marked dirty.                      *)
RemoveLiveEntity(c) ==
    /\ stop = "running" /\ marking = {}
    /\ place[c] = "active" /\ loaded[c] /\ latest[c] < MaxVersion
    /\ Changed(c)
    /\ pending' = [pending EXCEPT ![c] = @ \cup {latest[c] + 1}]
    /\ UNCHANGED <<want, epochVars, deferredRevivals, holderVars, dirty, marking, lightVars,
                   saveVars, passVars, stop, disk, failures>>

(* queue_light_change: refused when neither map has a holder with light.   *)
QueueLightChange(c) ==
    /\ stop = "running" /\ lights < MaxLights
    /\ place[c] # "none" /\ loaded[c]
    /\ lightPending' = [lightPending EXCEPT ![c] = TRUE]
    /\ lights' = lights + 1
    /\ UNCHANGED <<want, epochVars, deferredRevivals, holderVars, content, dirty, marking,
                   pending, lightFlying, saveVars, passVars, stop, disk, latest, failures>>

(* Light updates are drained by the game tick, by process_unloads and by   *)
(* the flush of a save; a drained update is applied, or, if it was not its *)
(* turn at the gate, put back (never by a flush, which waits instead).     *)
DrainLight(c) ==
    /\ lightPending[c]
    /\ lightPending' = [lightPending EXCEPT ![c] = FALSE]
    /\ lightFlying' = [lightFlying EXCEPT ![c] = @ + 1]
    /\ UNCHANGED <<want, epochVars, deferredRevivals, holderVars, content, dirty, marking,
                   pending, lights, saveVars, passVars, stop, disk, latest, failures>>

PropagateLight(c) ==
    /\ lightFlying[c] > 0
    /\ lightFlying' = [lightFlying EXCEPT ![c] = @ - 1]
    /\ IF place[c] # "none" /\ loaded[c]
       THEN /\ dirty' = [dirty EXCEPT ![c] = TRUE]
            /\ IF latest[c] < MaxVersion THEN Changed(c) ELSE UNCHANGED <<content, latest>>
       ELSE UNCHANGED <<content, dirty, latest>>
    /\ UNCHANGED <<want, epochVars, deferredRevivals, holderVars, marking, pending,
                   lightPending, lights, saveVars, passVars, stop, disk, failures>>

(* Mutant of PutBackLight: an update is put back that was not in flight.   *)
PutBackTwice(c) ==
    /\ stop \in {"running", "joining"}
    /\ lightFlying' = [lightFlying EXCEPT ![c] = @ - 1]
    /\ lightPending' = [lightPending EXCEPT ![c] = TRUE]
    /\ UNCHANGED <<want, epochVars, deferredRevivals, holderVars, content, dirty, marking,
                   pending, lights, saveVars, passVars, stop, disk, latest, failures>>

PutBackLight(c) ==
    /\ stop \in {"running", "joining"}
    /\ lightFlying[c] > 0
    /\ lightFlying' = [lightFlying EXCEPT ![c] = @ - 1]
    /\ lightPending' = [lightPending EXCEPT ![c] = TRUE]
    /\ UNCHANGED <<want, epochVars, deferredRevivals, holderVars, content, dirty, marking,
                   pending, lights, saveVars, passVars, stop, disk, latest, failures>>

-----------------------------------------------------------------------------
(* The generation task of a holder loads the chunk, or generates it when   *)
(* there is none, or gives up (disallowed status, failed load).            *)
FinishLoad(c) ==
    /\ loading[c]
    /\ loading' = [loading EXCEPT ![c] = FALSE]
    /\ loaded' = [loaded EXCEPT ![c] = TRUE]
    /\ content' = [content EXCEPT ![c] = disk[c]]
    /\ dirty' = [dirty EXCEPT ![c] = disk[c] = 0]
    /\ UNCHANGED <<want, epochVars, deferredRevivals, place, lifecycle, marking, pending,
                   lightVars, saveVars, passVars, stop, disk, latest, failures>>

AbortLoad(c) ==
    /\ loading[c]
    /\ loading' = [loading EXCEPT ![c] = FALSE]
    /\ UNCHANGED <<want, epochVars, deferredRevivals, place, lifecycle, loaded, content, dirty,
                   marking, pending, lightVars, saveVars, passVars, stop, disk, latest, failures>>

-----------------------------------------------------------------------------
(* advance_scheduling finds the coordinator idle.                          *)
StartEpoch ==
    /\ stop = "running" /\ epoch = "idle"
    /\ epoch' = "running"
    /\ UNCHANGED <<want, change, staged, unvisited, applied, deferredRevivals, holderVars,
                   content, dirty, marking, pending, lightVars, saveVars, passVars, stop, disk,
                   latest, failures>>

(* prepare_scheduling_epoch up to process_unloads: what the tickets now    *)
(* ask for, and which unloading holders that will revive.                  *)
ApplyTickets ==
    /\ epoch = "running"
    /\ epoch' = "unloads"
    /\ change' = [c \in Chunks |-> IF want[c] = applied[c] THEN "keep"
                                   ELSE IF want[c] THEN "load" ELSE "unload"]
    /\ applied' = want
    /\ staged' = {c \in Chunks : change'[c] = "load" /\ place[c] = "unloading"}
                     \cup deferredRevivals
    /\ unvisited' = {c \in Chunks : place[c] = "unloading"}
    /\ UNCHANGED <<want, deferredRevivals, holderVars, content, dirty, marking, pending,
                   lightVars, saveVars, passVars, stop, disk, latest, failures>>

(* process_unloads leaves the holder where it is.                          *)
KeepUnloading(c) ==
    /\ epoch = "unloads" /\ c \in unvisited
    /\ c \in staged \/ LightTouches(c) \/ Referenced(c)
    /\ unvisited' = unvisited \ {c}
    /\ UNCHANGED <<want, epoch, change, staged, applied, deferredRevivals, holderVars, content,
                   dirty, marking, pending, lightVars, saveVars, passVars, stop, disk, latest,
                   failures>>

(* The holder may go: nobody wants it back and nobody works on it.         *)
Unreferenced(c) ==
    /\ epoch = "unloads" /\ c \in unvisited
    /\ c \notin staged /\ ~ LightTouches(c) /\ ~ Referenced(c)

(* Mutant of NeedsSave: entities left over are forgotten.                  *)
IsDirty(c) == loaded[c] /\ dirty[c]

(* The dirty flag, or has_save_pending_for_chunk.                          *)
NeedsSave(c) == (loaded[c] /\ dirty[c]) \/ pending[c] # {}

(* process_unloads spawns a save task for the holder.                      *)
SpawnSave(c) ==
    /\ Unreferenced(c) /\ NeedsSave(c)
    /\ unvisited' = unvisited \ {c}
    /\ stage' = [stage EXCEPT !["unload"][c] = "flush"]
    /\ UNCHANGED <<want, epoch, change, staged, applied, deferredRevivals, holderVars, content,
                   dirty, marking, pending, lightVars, took, handled, snap, passVars, stop,
                   disk, latest, failures>>

(* process_unloads finalises the holder: it and its data are gone.         *)
Finalize(c) ==
    /\ Unreferenced(c) /\ ~ NeedsSave(c)
    /\ unvisited' = unvisited \ {c}
    /\ place' = [place EXCEPT ![c] = "none"]
    /\ loaded' = [loaded EXCEPT ![c] = FALSE]
    /\ lifecycle' = [lifecycle EXCEPT ![c] = "ACTIVE"]
    /\ content' = [content EXCEPT ![c] = 0]
    /\ dirty' = [dirty EXCEPT ![c] = FALSE]
    /\ UNCHANGED <<want, epoch, change, staged, applied, deferredRevivals, loading, marking,
                   pending, lightVars, saveVars, passVars, stop, disk, latest, failures>>

FinishEpoch ==
    /\ epoch = "unloads" /\ unvisited = {}
    /\ epoch' = "ready"
    /\ UNCHANGED <<want, change, staged, unvisited, applied, deferredRevivals, holderVars,
                   content, dirty, marking, pending, lightVars, saveVars, passVars, stop, disk,
                   latest, failures>>

(* Mutant of Effective: revivals put off earlier are dropped.              *)
ChangeOnly(c) == change[c]

(* merge_deferred_revivals: a revival put off earlier, unless the tickets  *)
(* have changed again.                                                     *)
Effective(c) == IF change[c] = "keep" /\ c \in deferredRevivals THEN "load" ELSE change[c]

(* commit_scheduling_epoch: update_chunk_level for each change; the next   *)
(* epoch starts at once.                                                   *)
Commit ==
    LET deferred(c) == Effective(c) = "load" /\ place[c] = "unloading" /\ lifecycle[c] = "PREPARING"
        revived(c) == Effective(c) = "load" /\ place[c] = "unloading" /\ lifecycle[c] = "UNLOADING"
        created(c) == Effective(c) = "load" /\ place[c] = "none"
        unloaded(c) == Effective(c) = "unload" /\ place[c] = "active"
    IN  /\ stop = "running" /\ epoch = "ready" /\ marking = {}
        /\ epoch' = "running"
        /\ deferredRevivals' = {c \in Chunks : deferred(c)}
        /\ place' = [c \in Chunks |-> IF revived(c) \/ created(c) THEN "active"
                                      ELSE IF unloaded(c) THEN "unloading" ELSE place[c]]
        /\ lifecycle' = [c \in Chunks |-> IF revived(c) \/ created(c) THEN "ACTIVE"
                                          ELSE IF unloaded(c) THEN "UNLOADING" ELSE lifecycle[c]]
        /\ loading' = [c \in Chunks |-> loading[c] \/ created(c) \/ (revived(c) /\ ~ loaded[c])]
        /\ change' = [c \in Chunks |-> "keep"] /\ staged' = {}
        /\ UNCHANGED <<want, unvisited, applied, loaded, content, dirty, marking, pending,
                       lightVars, saveVars, passVars, stop, disk, latest, failures>>

-----------------------------------------------------------------------------
(* The save task of an unloading holder (save_chunk).  It first flushes    *)
(* light: nothing queued, then nothing in flight, read one after the other.*)
FlushLight(c) ==
    /\ \/ /\ stage["unload"][c] = "flush" /\ ~ lightPending[c]
          /\ stage' = [stage EXCEPT !["unload"][c] = "drain"]
       \/ /\ stage["unload"][c] = "drain"
          /\ stage' = [stage EXCEPT !["unload"][c] =
                           IF lightFlying[c] = 0 THEN "prepare" ELSE "flush"]
    /\ UNCHANGED <<want, epochVars, deferredRevivals, holderVars, content, dirty, marking,
                   pending, lightVars, took, handled, snap, passVars, stop, disk, latest,
                   failures>>

(* Mutant of BeginPreparation: a store instead of a compare-and-swap.      *)
BeginPreparationBlindly(c) ==
    /\ stage["unload"][c] = "prepare"
    /\ lifecycle' = [lifecycle EXCEPT ![c] = "PREPARING"]
    /\ stage' = [stage EXCEPT !["unload"][c] = "reserved"]
    /\ UNCHANGED <<want, epochVars, deferredRevivals, place, loading, loaded, content, dirty,
                   marking, pending, lightVars, took, handled, snap, passVars, stop, disk,
                   latest, failures>>

(* try_begin_save_preparation, which fails when the holder was revived.    *)
BeginPreparation(c) ==
    /\ stage["unload"][c] = "prepare"
    /\ IF lifecycle[c] = "UNLOADING"
       THEN /\ lifecycle' = [lifecycle EXCEPT ![c] = "PREPARING"]
            /\ stage' = [stage EXCEPT !["unload"][c] = "reserved"]
       ELSE /\ stage' = [stage EXCEPT !["unload"][c] = "none"]
            /\ UNCHANGED lifecycle
    /\ UNCHANGED <<want, epochVars, deferredRevivals, place, loading, loaded, content, dirty,
                   marking, pending, lightVars, took, handled, snap, passVars, stop, disk,
                   latest, failures>>

(* The save is over, one way or another.                                   *)
EndSave(k, c) ==
    /\ stage' = [stage EXCEPT ![k][c] = "none"]
    /\ took' = [took EXCEPT ![k][c] = FALSE]
    /\ handled' = [handled EXCEPT ![k][c] = {}]
    /\ snap' = [snap EXCEPT ![k][c] = 0]

(* Dropping the ChunkSavePreparationGuard; a pass has none.                *)
EndPreparation(k, c) ==
    lifecycle' = IF k = "unload" THEN [lifecycle EXCEPT ![c] = "UNLOADING"] ELSE lifecycle

(* A pass goes through its holders one at a time.                          *)
PassReaches(c) ==
    /\ pass = "each" /\ c \in passTodo
    /\ \A d \in Chunks : stage["pass"][d] = "none"

(* The holder's turn: note the entities to save and take the dirty flag.   *)
TakeDirty(k, c) ==
    /\ IF k = "unload" THEN stage[k][c] = "reserved" ELSE PassReaches(c)
    /\ loaded[c]
    /\ passTodo' = IF k = "pass" THEN passTodo \ {c} ELSE passTodo
    /\ dirty' = [dirty EXCEPT ![c] = FALSE]
    /\ IF NeedsSave(c)
       THEN /\ stage' = [stage EXCEPT ![k][c] = "taken"]
            /\ took' = [took EXCEPT ![k][c] = dirty[c]]
            /\ handled' = [handled EXCEPT ![k][c] = pending[c]]
            /\ UNCHANGED <<lifecycle, snap>>
       ELSE EndSave(k, c) /\ EndPreparation(k, c)
    /\ UNCHANGED <<want, epochVars, deferredRevivals, place, loading, loaded, content, marking,
                   pending, lightVars, pass, held, passFailed, passes, stop, disk, latest,
                   failures>>

(* There is no data to save yet.                                           *)
NothingToSave(k, c) ==
    /\ IF k = "unload" THEN stage[k][c] = "reserved" ELSE PassReaches(c)
    /\ ~ loaded[c]
    /\ passTodo' = IF k = "pass" THEN passTodo \ {c} ELSE passTodo
    /\ EndSave(k, c)
    /\ EndPreparation(k, c)
    /\ UNCHANGED <<want, epochVars, deferredRevivals, place, loading, loaded, content, dirty,
                   marking, pending, lightVars, pass, held, passFailed, passes, stop, disk,
                   latest, failures>>

(* prepare_chunk_save made an owned copy; revival need not wait any more.  *)
Snapshot(k, c) ==
    /\ stage[k][c] = "taken"
    /\ stage' = [stage EXCEPT ![k][c] = "write"]
    /\ snap' = [snap EXCEPT ![k][c] = content[c]]
    /\ EndPreparation(k, c)
    /\ UNCHANGED <<want, epochVars, deferredRevivals, place, loading, loaded, content, dirty,
                   marking, pending, lightVars, took, handled, passVars, stop, disk, latest,
                   failures>>

(* prepare_chunk_save found the chunk promoted to Full meanwhile: left for *)
(* the next round.  Generation has ended when the shutdown saves.          *)
PreparationFails(k, c) ==
    /\ stage[k][c] = "taken" /\ stop \in {"running", "joining"} /\ failures < MaxFailures
    /\ failures' = failures + 1
    /\ EndSave(k, c)
    /\ dirty' = [dirty EXCEPT ![c] = @ \/ took[k][c]]
    /\ EndPreparation(k, c)
    /\ UNCHANGED <<want, epochVars, deferredRevivals, place, loading, loaded, content, marking,
                   pending, lightVars, passVars, stop, disk, latest>>

(* Mutant of WriteChunk: saved entities are never acknowledged.            *)
WriteUnacknowledged(k, c) ==
    /\ stage[k][c] = "write"
    /\ EndSave(k, c)
    /\ disk' = [disk EXCEPT ![c] = snap[k][c]]
    /\ UNCHANGED <<want, epochVars, deferredRevivals, holderVars, content, dirty, marking,
                   pending, lightVars, passVars, stop, latest, failures>>

(* save_chunk_data succeeded; on_chunk_saved acknowledges the entities.    *)
WriteChunk(k, c) ==
    /\ stage[k][c] = "write"
    /\ EndSave(k, c)
    /\ disk' = [disk EXCEPT ![c] = snap[k][c]]
    /\ pending' = [pending EXCEPT ![c] = @ \ handled[k][c]]
    /\ UNCHANGED <<want, epochVars, deferredRevivals, holderVars, content, dirty, marking,
                   lightVars, passVars, stop, latest, failures>>

(* save_chunk_data failed: mark_chunk_dirty_for_save_retry.                *)
WriteFails(k, c) ==
    /\ stage[k][c] = "write" /\ failures < MaxFailures
    /\ EndSave(k, c)
    /\ dirty' = [dirty EXCEPT ![c] = TRUE]
    /\ passFailed' = (passFailed \/ k = "pass")
    /\ failures' = failures + 1
    /\ UNCHANGED <<want, epochVars, deferredRevivals, holderVars, content, marking, pending,
                   lightVars, pass, held, passTodo, passes, stop, disk, latest>>

-----------------------------------------------------------------------------
(* save_requested begins a save_all_chunks pass; the save lock admits one  *)
(* at a time.                                                              *)
RequestSave ==
    /\ AutoSave /\ stop = "running" /\ pass = "idle" /\ passes < MaxPasses
    /\ pass' = "flush" /\ passFailed' = FALSE /\ passes' = passes + 1
    /\ UNCHANGED <<want, epochVars, deferredRevivals, holderVars, content, dirty, marking,
                   pending, lightVars, saveVars, held, passTodo, stop, disk, latest, failures>>

(* Mutant of PassFlushLight: updates in flight are not waited for.         *)
PassFlushQueued ==
    /\ \/ pass = "flush" /\ (\A c \in Chunks : ~ lightPending[c]) /\ pass' = "drain"
       \/ pass = "drain" /\ pass' = "chunks"
    /\ UNCHANGED <<want, epochVars, deferredRevivals, holderVars, content, dirty, marking,
                   pending, lightVars, saveVars, held, passTodo, passFailed, passes, stop, disk,
                   latest, failures>>

(* flush_queued_light_changes_for_save, for all chunks.                    *)
PassFlushLight ==
    /\ \/ /\ pass = "flush" /\ \A c \in Chunks : ~ lightPending[c]
          /\ pass' = "drain"
       \/ /\ pass = "drain"
          /\ pass' = IF \A c \in Chunks : lightFlying[c] = 0 THEN "chunks" ELSE "flush"
    /\ UNCHANGED <<want, epochVars, deferredRevivals, holderVars, content, dirty, marking,
                   pending, lightVars, saveVars, held, passTodo, passFailed, passes, stop, disk,
                   latest, failures>>

(* The holders are collected from one map, then from the other.            *)
PassCollect ==
    /\ \/ /\ pass = "chunks" /\ pass' = "unloads"
          /\ held' = {c \in Chunks : place[c] = "active"}
          /\ UNCHANGED passTodo
       \/ /\ pass = "unloads" /\ pass' = "each"
          /\ held' = held \cup {c \in Chunks : place[c] = "unloading"}
          /\ passTodo' = held'
    /\ UNCHANGED <<want, epochVars, deferredRevivals, holderVars, content, dirty, marking,
                   pending, lightVars, saveVars, passFailed, passes, stop, disk, latest,
                   failures>>

PassEnds ==
    /\ pass = "each" /\ passTodo = {} /\ \A c \in Chunks : stage["pass"][c] = "none"
    /\ pass' = "idle" /\ held' = {}
    /\ stop' = IF stop = "saving" THEN "halted" ELSE stop
    /\ UNCHANGED <<want, epochVars, deferredRevivals, holderVars, content, dirty, marking,
                   pending, lightVars, saveVars, passTodo, passFailed, passes, disk, latest,
                   failures>>

(* World::cleanup, called when the game thread has stopped: no further     *)
(* autosave is admitted, and the running tasks are joined.                 *)
Cleanup ==
    /\ stop = "running" /\ marking = {}
    /\ stop' = "joining"
    /\ UNCHANGED <<want, epochVars, deferredRevivals, holderVars, content, dirty, marking,
                   pending, lightVars, saveVars, passVars, disk, latest, failures>>

(* Mutants of TasksJoined: save tasks are not joined; a prepared epoch,    *)
(* which nobody will commit any more, is waited for.                       *)
GenerationJoined ==
    /\ stop = "joining" /\ pass = "idle" /\ epoch \in {"idle", "ready"}
    /\ \A c \in Chunks : ~ loading[c]
    /\ stop' = "saving" /\ pass' = "flush" /\ passFailed' = FALSE
    /\ UNCHANGED <<want, epochVars, deferredRevivals, holderVars, content, dirty, marking,
                   pending, lightVars, saveVars, held, passTodo, passes, disk, latest, failures>>

EpochCommitted ==
    /\ stop = "joining" /\ pass = "idle" /\ epoch = "idle"
    /\ \A c \in Chunks : ~ loading[c] /\ stage["unload"][c] = "none"
    /\ stop' = "saving" /\ pass' = "flush" /\ passFailed' = FALSE
    /\ UNCHANGED <<want, epochVars, deferredRevivals, holderVars, content, dirty, marking,
                   pending, lightVars, saveVars, held, passTodo, passes, disk, latest, failures>>

(* wait_for_background_tasks returned; the last pass begins.               *)
TasksJoined ==
    /\ stop = "joining" /\ pass = "idle" /\ epoch \in {"idle", "ready"}
    /\ \A c \in Chunks : ~ loading[c] /\ stage["unload"][c] = "none"
    /\ stop' = "saving" /\ pass' = "flush" /\ passFailed' = FALSE
    /\ UNCHANGED <<want, epochVars, deferredRevivals, holderVars, content, dirty, marking,
                   pending, lightVars, saveVars, held, passTodo, passes, disk, latest, failures>>

-----------------------------------------------------------------------------
Save(k, c) ==
    \/ TakeDirty(k, c)
    \/ NothingToSave(k, c)
    \/ Snapshot(k, c)
    \/ PreparationFails(k, c)
    \/ WriteChunk(k, c)
    \/ WriteFails(k, c)

EpochTask ==
    \/ ApplyTickets
    \/ \E c \in Chunks : KeepUnloading(c) \/ SpawnSave(c) \/ Finalize(c)
    \/ FinishEpoch

Pass == RequestSave \/ PassFlushLight \/ PassCollect \/ PassEnds

Next ==
    \/ \E c \in Chunks :
           \/ TicketChange(c)
           \/ Edit(c)
           \/ MarkUnsaved(c)
           \/ RemoveLiveEntity(c)
           \/ QueueLightChange(c)
           \/ DrainLight(c)
           \/ PropagateLight(c)
           \/ PutBackLight(c)
           \/ FinishLoad(c)
           \/ AbortLoad(c)
           \/ FlushLight(c)
           \/ BeginPreparation(c)
           \/ \E k \in Kinds : Save(k, c)
    \/ StartEpoch \/ EpochTask \/ Commit
    \/ Pass
    \/ Cleanup \/ TasksJoined

Spec == Init /\ [][Next]_vars

(* What the program's schedulers guarantee: the game loop ticks, and a     *)
(* task that can go on does.  A light update that is put back again and    *)
(* again gets its turn at the gate: windows are reserved for the duration  *)
(* of one computation.  Players and operators guarantee nothing.           *)
Fairness ==
    /\ WF_vars(StartEpoch \/ Commit)
    /\ WF_vars(EpochTask)
    /\ WF_vars(PassFlushLight \/ PassCollect \/ PassEnds)
    /\ WF_vars(TasksJoined)
    /\ \A c \in Chunks :
           /\ WF_vars(MarkUnsaved(c))
           /\ WF_vars(DrainLight(c)) /\ SF_vars(PropagateLight(c))
           /\ WF_vars(FinishLoad(c) \/ AbortLoad(c))
           /\ WF_vars(FlushLight(c) \/ BeginPreparation(c))
           /\ \A k \in Kinds : WF_vars(Save(k, c))

FairSpec == Spec /\ Fairness

-----------------------------------------------------------------------------
(* No change is lost: as long as the chunk is in memory it is the newest   *)
(* version, and process_unloads drops it only when that version is on disk *)
(* (and so is what the next load returns).                                 *)
NoLostUpdate ==
    \A c \in Chunks : IF loaded[c] THEN content[c] = latest[c] ELSE disk[c] = latest[c]

(* "Ensure all modified chunks are persisted" (save_all_chunks): when      *)
(* World::cleanup has returned and reported no error, everything is saved. *)
ShutdownSavesAll ==
    stop = "halted" /\ ~ passFailed => \A c \in Chunks : disk[c] = latest[c]

(* The assertions on save_lifecycle hold (begin_unloading, the end of a    *)
(* preparation): active holders are ACTIVE, unloading ones are not, and    *)
(* PREPARING is the state of exactly one running preparation.              *)
LifecycleMatchesMap ==
    \A c \in Chunks :
        /\ place[c] = "active" => lifecycle[c] = "ACTIVE"
        /\ place[c] = "unloading" => lifecycle[c] # "ACTIVE"
        /\ place[c] # "none" =>
               (lifecycle[c] = "PREPARING" <=> stage["unload"][c] \in {"reserved", "taken"})

(* A light update always finds the chunk it was queued for, although it    *)
(* may be applied long after the chunk began to unload.                    *)
LightKeepsHolder ==
    \A c \in Chunks : LightTouches(c) => place[c] # "none" /\ loaded[c]

(* A chunk that stays wanted ends up in the active map for good, even when *)
(* its revival had to be deferred because a save was being prepared.       *)
WantedComesBack ==
    \A c \in Chunks : <>[](want[c] /\ stop = "running") => <>[](place[c] = "active")

(* A chunk nobody wants is saved and dropped in the end: process_unloads   *)
(* neither keeps it for ever nor saves it over and over.                   *)
UnloadsFinish ==
    \A c \in Chunks : <>[](~ want[c] /\ stop = "running") => <>[](place[c] = "none")

(* World::cleanup returns: joining the tasks and flushing light never      *)
(* waits for something that cannot happen any more.                        *)
CleanupReturns == stop = "joining" ~> stop = "halted"
=============================================================================
