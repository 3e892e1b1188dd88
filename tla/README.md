# Verification of Foton

Foton is a Minecraft: Java Edition server written in Rust. This directory holds
TLA+ models of the parts of it that decide whether a world survives: how chunks
are kept on disk, how the chunk map moves them between memory and disk while the
game goes on, how tickets, generation and readiness decide what is loaded and what
ticks, and how scheduled ticks survive all of it. The models are checked by TLC on small instances, and the most
important results are proved by TLAPS for every instance.

## The system and its parts

| Part | State | Operations | Hard about it |
|---|---|---|---|
| Region files (`chunk_saver/region_manager.rs`, `format.rs`) | open region handles: table in memory, reference count, dirty flag, file length; the file | acquire, load, save, release, close_all, open with validation | failing writes, crashes, a lock given up to decode, reuse of sectors |
| Chunk map (`chunk/chunk_map/`) | the maps `chunks` and `unloading_chunks`, deferred revivals | commit of an epoch, process_unloads, save_chunk, save_all_chunks | save tasks, the epoch task, generation tasks and the game thread run at once |
| Chunk holder (`chunk/chunk_holder.rs`) | save lifecycle, published status, levels | begin_unloading, try_begin_save_preparation, try_revive_from_unloading, the Empty step | compare-and-swap races between revival and save |
| Scheduling epochs (`chunk/chunk_scheduler.rs`) | coordinator idle / running / ready, ticket operation log, revisions | queue, take_boundary_step, finish_epoch, publish | what is prepared in one epoch is applied at the boundary of the next |
| Tickets (`chunk_ticket_manager.rs`, `chunk_request.rs`) | tickets, levels per chunk, requests, views, timed tickets | add, remove, expire, run_all_updates | operations queued while an epoch runs; who owns a ticket |
| Generation (`chunk_generation_task.rs`, `chunk_pyramid.rs`) | task per holder, dependency waits, priorities | schedule, run, cancel | cancellation races, waits on neighbours |
| Readiness (`full_chunk_readiness.rs`) | neighbourhood counts, ticking readiness | publish, demote, reconcile | a cached index that must agree with the map |
| Light updates (`light_updates.rs`, `light_update_state.rs`, `light/work_gate.rs`) | queued and in-flight updates, reserved windows | queue, drain, propagate, put back, flush | updates applied long after they were queued |
| Entity manager (`entity/manager/`) | live entities, save-pending entities by chunk | load, unload, remove, acknowledge | entities that exist only until the next save |
| World (`world/mod.rs`) | autosave admission, save lock, level data | request_save, cleanup | shutdown against work in flight |
| Server (`server/`) | players, worlds, tick workers | run loop, admission, world change, shutdown | ordering of joins at shutdown |
| Scheduled ticks (`world/tick_scheduler/`) | two queues per chunk, an index of deadlines, the running batch | schedule, collect, run, unpack, pack, unregister | saves read queues and batch while the batch runs; a cached index |
| Players and inventories, login, commands, Bedrock and plugin bridges | | | planned or left out, see below |
| Block behaviour, physics, world generation, protocol, registries | block data, tables | | numeric or generated, left out |

The parts meet as follows. Tickets ask for chunks; an epoch turns them into
changes and, at the boundary between two ticks, the game thread commits these by
creating, reviving or unloading holders. A new holder's generation task acquires
its region, loads the chunk and takes it, with its neighbours, through the steps of
the pyramid. A chunk that becomes Full is published to the readiness index; it
ticks when its neighbours are there as well. process_unloads, part of the epoch task, looks at
every unloading holder and keeps it, spawns a save task for it or drops it, which
releases its region. Autosaves and the shutdown run save_all_chunks over both
maps and end with close_all on the regions.

What makes them correct: a chunk reads back as it was last saved; no change is
ever dropped with its holder; a clean shutdown leaves everything on disk; a
wanted chunk comes back and is generated; a step of generation sees neighbours
that are far enough; an owner's ticket holds from the moment its revision counts
as committed and goes when the owner does; a chunk ticks only among loaded
neighbours, and ticks when it can; a scheduled tick runs at its turn or is saved;
shutdown ends. The hazards behind each of these are
listed with their source lines in `PROJECT.json`.

## Modules

| Module | What it models |
|---|---|
| `SectorAlloc` | chunk table entries and `find_free_sectors` as a relation |
| `Ordering` | sorting a finite set and filtering a list, said by ranks |
| `OrderingTheorems` | proofs about it: least elements, recursion over the naturals, enumerations |
| `SectorScan` | the loop of `find_free_sectors`, compared with that relation |
| `SectorScanProofs` | proofs about it |
| `RegionFiles` | `RegionManager` and how holders use it |
| `RegionFilesProofs` | proofs about it: types, tables, what is read back; references, reopening, loads |
| `ChunkPersistence` | holders, epochs, saves, light flushes, autosave and shutdown |
| `ChunkPersistenceProofs` | proofs about it |
| `ChunkPyramid` | the tables of generation steps, their accumulated dependencies and the levels derived from them |
| `PyramidCheck` | these on the server's own pyramid, against a closure |
| `ChunkGeneration` | generation tasks, producers, waiters, offers, commits that revoke them |
| `ChunkGenerationProofs` | proofs about it |
| `TicketLevels` | what a set of tickets asks of every chunk, and what an update reports |
| `TicketLog` | abstract: one sequence of submissions, a committed prefix |
| `ChunkTickets` | operation log, epochs, revisions and the owners of tickets; implements `TicketLog` |
| `ChunkTicketsProofs` | proofs about it |
| `FullReadiness` | the index of Full chunks, readiness and the ticking snapshot |
| `FullReadinessProofs` | proofs about it |
| `ScheduledTicks` | tick queues, deadline index, collection, batches, saves of ticks |
| `ScheduledTicksProofs` | proofs about it |
| `MCRegionFiles`, `MCChunkPersistence`, `MCChunkGeneration`, `MCChunkTickets`, `MCFullReadiness` | their small instances |
| `MCAlgorithms` | the instance of `SectorScan`, `PyramidCheck` and `ScheduledTicks`: a behaviour is about one of the three, and of scheduled ticks about two saved chunks or one new one |

`PROJECT.json` maps every definition to the lines it stands for. Definitions
called *mutant* are deliberately wrong variants of a definition: each property is
shown to fail when its mutant takes the definition's place.

### RegionFiles

`open`, `header`, `count`, `dirty` and `fileSectors` are the fields of the
`RegionHandle`s in the manager's map; `durable`, `sector` and `fileLen` are the
file: table, data sectors and length. `phase`, `data` and `expected` follow each
chunk holder through acquire, load, decode and release. Every operation holds the
lock of the map of regions throughout, so it is one action, except `load_chunk`,
which gives the lock up to decode (`LoadRead`, then `LoadDecoded` or
`LoadCorrupt`). A payload is a sequence of sectors that carry chunk, version and
part number, so that a torn or overwritten payload decodes to nothing. A failed
payload write destroys a prefix of the sectors it aimed at; a failed table write
leaves any mixture of old and new entries. Sizes are in sectors, and the table
keeps them modulo `SizeWrap`, as its 24-bit field does. `Crash` loses everything
but the file. `written` and `committed` are ghosts: the version named by the
newest table and by the table on disk; `suspect` collects the regions whose table
was behind at a crash, for which the design promises nothing.

`LiveSave` says whether autosaves, and with them `close_all`, run while the world
is played.

### ChunkPersistence

A chunk's data is a version number, `latest` the newest, `disk` the saved one.
Storage is taken at the promise `RegionFiles` checks: a load returns the last
save. `place` says which map holds the holder; `lifecycle` is its
`save_lifecycle`; `stage`, `took`, `handled` and `snap` are the local state of the
save task (`"unload"`) or of save_all_chunks (`"pass"`) working on it: flush,
reserve, take the dirty flag, snapshot, write. The actions between these stages
are exactly the points where other threads can come in. `Edit` and `MarkUnsaved`
are separate because set_block_state changes the block first and sets the flag as
its last step. Ticket levels are reduced to loaded or not, and statuses to "has
data that is persisted". `AutoSave` admits passes before the shutdown.

The model does not follow failures of generation tasks other than giving up, nor
save tasks cancelled by a runtime that shuts down before cleanup has joined them.

### ChunkPyramid and PyramidCheck

A status is its index, dependencies are the sequence of statuses needed at
distance 0, 1, 2, ... `Build` folds the requirements of each step as
`chunk_pyramid.rs` does. `PyramidCheck` walks every cell a task visits (level,
target, layer, distance) of the pyramid the server is built with.
`NeededRadius` there is the reference: how far the closure of the direct
dependencies reaches.

### ChunkGeneration

`place`, `level`, `current`, `started` and `published` are fields of the holders;
`task` is what a `ChunkGenerationTask` and the future that drives it know: target,
layer, cancellation, and one future per holder of the layer (`own`, `poll`,
`asleep`, `ready`, `failed`); `producer` is the spawned work that holds a claim:
acquire, load or step, publish. A task number is used again when nothing refers
to the old task. Chunks lie on a line. `Offer` and `Install` are the two halves of
schedule_chunk_generation_task_b, between which the game thread may commit;
`CommitLoad` and `CommitUnload` change one holder each. A waiter checks, then
sleeps (`PollWaiter`), so that a revocation in between can be missed unless the
code wakes it.

### TicketLevels, TicketLog and ChunkTickets

`TicketLevels` gives levels by their definition: the strongest over all tickets,
one weaker per chunk of distance. As the server does, each update
computes them afresh and reports only what changed since the one before. `ChunkTickets` has three kinds of
owners: request handles, players' views and timed tickets, whose kinds are a
parameter. `operations` and `taken` are batches, one per revision; an epoch takes
the queue, applies it batch by batch, and what it prepared is committed chunk by
chunk before its revision is published. `asked` and `wanted` are ghosts: tickets
and levels after each submission. `ImplementsLog` maps this to `TicketLog` with
`INSTANCE ... WITH`: the abstract log does not know queues or epochs, only that
submissions have an order, that what is held moves towards what some prefix asks
for, and that a revision counts as committed only after it is reached.

### FullReadiness

`level`, `stage` and `readiness` are the holder's; `contributors`, `near` and `wide` are the
index with its counters for radius 1 and 2; `publications` is the queue the
generation threads fill. A commit is `Prepare` (changes are known; readiness is
taken away), one of `Relevel`, `Unload`, `Revive`, `Defer`, `Create` or `Skip` per
changed chunk, `Drain` and `Reconcile`. Publication is three steps of the
generation thread (`Initialize`, `QueuePublication`, `Finalize`), each of which may
fall anywhere in a commit.

### ScheduledTicks

Each chunk's queues go from the lists of a proto chunk (`pending`) through
promotion or loading, registration and unpacking to live queues (`live`), and back
into a saved list. `head` and `deadlines` are the cached heads and the index of
them; `active` the chunks that tick, in rank order. A game tick is `TickTime`, then for blocks and for fluids `TakeDue`,
`DrainTurn` for each turn of a chunk, `EndCollection`, `MarkChanged`, and
`BeginBatch`, `RunTick`, `EndBatch`; scheduling of new ticks happens inside
`RunTick` as well as outside, also into a chunk that has begun to unload while the
caller held it. A save is `TakeDirty`, `Pack`, `AddBlocks`, `AddFluids`, each under
another lock, between which the batch goes on, and then `Write` or `WriteFails`, which
sets the dirty flag again. There are two savers, the save task of an unloading chunk
and the pass of save_all_chunks; each works through a save of its own, and the two may
overlap at every stage and write in either order. The preparation guard (`Preparing`)
only keeps a chunk from being revived before its unload save has its snapshot. A
tick's ghost id survives saving and loading. Three more ghosts describe what overlap
can do: `newest` is the saver whose save of the chunk began last, `overwritten` the
clean chunks whose newest save was overwritten by an older one and that no save has
begun on since, `lost` the ticks with which such a chunk was unloaded and which its
file does not have. `plan` is a ghost: what `Choosing`, the
reference, gives at the moment a collection starts. Queues are sorted and filtered with
`Ordering`, whose definitions the proofs can reason about.

## Runs

| Run | Instance | Result |
|---|---|---|
| `algorithms` | every valid table of up to 3 chunks in 6 data sectors, requests up to 3; every cell of the server's pyramid; scheduled ticks of one new or two saved chunks | the scan is the relation and its slot is free; accumulated dependencies are the closure, layers cover dependencies, ticket levels permit their tasks; deadlines exact, ticks collected in order, owed ticks kept |
| `region_io` | 2 chunks, 1 region, payloads of 1 or 2 sectors, 2 saves each, one crash, autosaves | sound tables, chunks read back and load as last saved, up-to-date regions reopen |
| `region_refs` | a holder, its successor and a holder of another chunk, one crash, no autosave | exact reference counts; no regeneration over an intact chunk |
| `region_autosave` | autosaves on | **violation**, see below |
| `region_commit_point` | no crash needed | **violation** |
| `persist_unload` | 1 chunk, 3 versions, one failure, one light update, no autosave | nothing lost, shutdown saves all |
| `persist_live` | 1 chunk, an autosave, fairness | lifecycle assertions hold, light updates keep their chunk; revivals, unloading and cleanup come to an end |
| `persist_stale_save` | 1 chunk, an autosave | **violation** |
| `generation` | 2 chunks, 3 statuses, 3 tasks of which 2 run, 2 ticket changes, one storage error, fairness | steps run over generated neighbours, claims form a chain, waiters are woken, one task drives a chunk; tasks end, a wanted chunk is generated |
| `generation_forgotten` | the same with 3 ticket changes and no error | **violation** |
| `tickets` | a row of 3 chunks, one request, one player, spawn and portal tickets, 3 submissions, fairness | implements the log, tickets have owners, committed requests stay loaded, every submission commits |
| `readiness` | 3 chunks of the plane (neighbours, and one at distance 2), a chunk replaced once | counters exact, tickers have neighbours, nobody is left behind, the snapshot is current |

Bounds. Two chunks of one region are what overlap, sector reuse and a shared
reference count need; regions do not interact except in close_all, which treats
each alone. Two saves per chunk are needed before sectors that the table on disk
still names can be reused; in `region_io` the file is bounded at three data
sectors, so that payloads of one or two sectors contend for them, and elsewhere at
one sector more than two copies of one chunk and one of the other need. Two holders per chunk suffice for a late release. In
`ChunkPersistence` chunks interact only through the epoch (one set of changes), the
pass (one at a time) and the save lock, so the runs have one; `NothingLost` is
proved for any number. Three versions let a chunk be saved, changed during a save and changed again afterwards. One
failure, light update or autosave gives every operation the chance to meet one.

A step that needs a neighbour one status behind is all the structure the
generation tasks react to, and two chunks have both sides of it; the third task is
the successor of a cancelled one, and the load that fails is met by a waiter as
well as by the task that claimed it. `PyramidCheck` uses the real table. In
`tickets` the player's and the portal's tickets coincide, so that a removal can
take the wrong one; three submissions are one committed, one in the running epoch
and one behind it. `readiness` leaves out chunks whose part another of the same
square plays, and lowers the two thresholds by them; one replaced holder lets
publications of an old holder meet its successor. `ScheduledTicks` has up to two
keys of a kind in a chunk, a limit of 2 ticks per game tick, so that a batch is cut
short, and two saves, so that one packed early is followed by another, or an unload
save meets a pass on the revived chunk. The new chunk, on which these saves run, has
ticks of one priority; priorities matter to the collection and vary in the world of two
saved chunks.

The chunk map runs switch deadlock checking off: once cleanup has returned the
world has stopped. So does `algorithms`, where a table that is fully scanned or a
game time at its bound ends the behaviour. The others check it.

Fairness. `persist_live`: the game loop keeps ticking until cleanup
(weak fairness of StartEpoch and Commit); a Tokio or Rayon task that can go on
does (weak fairness of the epoch task, save tasks, loads and passes); a light
update that may be put back repeatedly gets its turn at the work gate (strong
fairness of PropagateLight), as windows are reserved only for the duration of one
computation. `generation`: the game loop keeps
scheduling (weak fairness of Scheduling) and refilling its slots (Refill), and every
producer and every task that can go on does (weak fairness of each), as Tokio and
Rayon poll what was woken. A producer's fairness says nothing about its success:
loads fail and steps panic. `tickets`: the boundary between two ticks and the epoch
task (weak fairness of Boundary and of Epoch). Gameplay and operators are never
fair: tickets, edits, autosaves, failures and shutdown may or may not come.

## What the violations show

* `persist_stale_save`: the save of an unloading chunk releases the holder when it
  has its snapshot. The chunk is revived and edited, an autosave writes the newer
  version, and the slow write of the older snapshot lands last. The dirty flag is
  clear, so shutdown does not save the chunk again: the edit is lost although
  cleanup reports success. Scheduled ticks that only the newer version had are lost the
  same way when the chunk is unloaded.
* `region_autosave`: an autosave ends with `close_all`, which drops a region
  between a loader's `acquire_chunk` and `load_chunk`; the load answers "no chunk"
  and terrain is regenerated over the saved chunk.
* `region_commit_point`: the old copy of a chunk is protected until the table is
  written only against the next save. The one after that may reuse its sectors,
  because free sectors are derived from the table in memory.
* `generation_forgotten`: an offer is answered NotNeeded while the chunk's doomed
  task is still its current one. The task then notices, gives up and clears itself,
  and the chunk stays wanted and ungenerated until its level changes again.

The passing runs and the proofs state what holds apart from these: without
autosaves (`AutoSave`, `LiveSave` false) where they are the cause, with regions
that were behind at a crash excepted, and with payloads below the wrap of the
24-bit size field: `encode_chunk` admits a payload of exactly 2^24 bytes, whose size
the table would store as 0. `OwedTicksAreKept` runs with autosaves and overlapping
saves and excepts exactly the ticks in `lost`, those that the order of writes of
`persist_stale_save` loses; without the exception TLC finds that order in the same
instance. `WantedIsGenerated` excepts behaviours in
which a ticket was given up, as in `generation_forgotten`, or storage failed.

## Proofs

`OrderingTheorems` holds what the proofs about sorting and loops share. The prover has
no induction over data, so each fact is a minimal counterexample in Nat: a non-empty set
of naturals has a least element, from which follow induction up to a bound (`UpTo`), the
existence of a function given by recursion (`Recursion`), and that the ranks of a strict
order on a finite set are exactly 0 .. n - 1, so that `InOrder` enumerates the set
(`RanksEnumerate`) and is the only one to do so (`OneEnumeration`).

`SectorScanProofs`:

* `ScanIsTheRelation` and `ScanHandsOutFreeRuns`: `ScanSpec => []ScanAgreesWithRelation`
  and `ScanSpec => []ScanResultIsFree`. The invariant of the behaviour (`ScanInv`) says
  that runs are valid and disjoint; that of the loop, that the cursor after n iterations
  is the end of the furthest run passed, or the slot found. The region proofs use the
  relation `IsFreeSlot`, and so hold of the loop.

`RegionFilesProofs`:

* `TypeCorrect`: `Spec => []TypeOK`.
* `StorageSafe`: if all payload sizes are below `SizeWrap`, then
  `Spec => [](TablesNeverOverlap /\ ReadsBackLastSave)`, with autosaves, failing
  writes and crashes. The inductive invariant adds that entries fit the file
  (`EntriesFit`) and that a region whose handle is clean has its table on disk
  (`CleanIsDurable`): only then does closing a handle without writing, which
  `release_chunk` and `close_all` do, lose nothing. That a slot found by
  `find_free_sectors` meets no entry is the lemma everything about saves rests on.
* `TablesStayDisjoint`: the first half of it, `Spec => []TablesNeverOverlap`.

About the holders that use the regions, in the same module:

* `ReferencesAreCounted`: without autosaves, `Spec => []ReferencesCounted`. It is
  inductive as it stands; what each step does to the set of holders yet to release,
  and so to its cardinality, is one lemma per direction.
* `RegionsAlwaysReopen`: with payloads below `SizeWrap`, `Spec => []RegionsReopen`.
  The inductive invariant (`ViewsWhole`) is about what a reader would find, the table
  on disk or that of the open handle, against the length the file really has and not
  the length the handle remembers.
* `LoadsAreCurrent`: with payloads below `SizeWrap`, `Spec => []LoadsLastSave`. The
  lock is given up between reading and decoding; what carries the load over it is
  `OneLiveHolder`: the chunk of a holder that loads has no other holder in a
  phase in which it could save or clear it.
* `SavedIsNeverRegenerated`: without autosaves and with payloads below `SizeWrap`,
  `Spec => NeverRegeneratesSaved`, an action property. It uses all of the above, that
  a payload found corrupt still is when its slot is cleared, and that nothing loads
  once the world has stopped.

`ChunkPersistenceProofs`:

* `PersistenceTyped`: `Spec => []TypeOK`.
* `NothingLost`: without autosaves, `Spec => []NoLostUpdate`, for any set of
  chunks and any bounds. The inductive invariant says, for each chunk whose newest
  version is not on disk, who remembers it: the dirty flag, the game thread about
  to set it, an entity left over from that version, a save that has taken the flag,
  or a snapshot of it waiting to be written. It needs that a chunk has at most one
  save at a time, which is what autosaves break, and that a save acknowledges only
  entities its snapshot contains.
* `LifecycleHolds`: `Spec => []LifecycleMatchesMap`, with autosaves as well. Added to
  make it inductive: a chunk without a holder has no save task for unloading, and what
  process_unloads has yet to visit is still unloading, so that no commit comes between
  its visit and the reservation.
* `LightFindsItsChunk`: `Spec => []LightKeepsHolder`, inductive as it stands: the
  guards of `process_unloads` look at queued and flying updates.
* `ShutdownIsComplete`: without autosaves, `Spec => []ShutdownSavesAll`. On top of the
  invariant of `NothingLost`: after the last flush nothing changes any more (`Quiet`),
  the pass has every holder (`Collected`), and what it is through with is on disk or
  the pass is writing it (`Behind`).

`ChunkGenerationProofs`:

* `GenerationTyped`: `Spec => []TypeOK`, with the shapes of tasks it needs: a live
  task has a target, a square and a current layer inside it, an installed task is its
  chunk's.
* `StepsFindTheirDependencies`, `ClaimsComeInOrder`, `NoWaiterIsForgotten`,
  `EachChunkHasOneDriver`: `DependenciesReady`, `ClaimsFollowParents`,
  `WaitersAreWoken` and `OneTaskDrives` are invariants. They share one inductive
  invariant (`GenInv`), because each needs the others: the holders of a task's square
  stay in the map as long as the task keeps them (`SquaresKept`, `SavesInv`); what a
  task has seen finished is still published, and what it waits for is still under way
  or will wake it (`Reliance`); a producer's claim is one status above what is
  published, with its dependencies supplied (`WorkInv`). That layers of the
  accumulated dependencies supply what a step needs directly is `WellFormed`, the only
  thing assumed of the pyramid. TLC evaluates it on the pyramid of the run and, as
  part of `LayersCoverDependencies`, on the server's own.

`ChunkTicketsProofs`:

* `TicketsTyped`: `Spec => []TypeOK`.
* `SchedulingImplementsLog`: `Spec => ImplementsLog`. The inductive invariant says
  that the manager's tickets are those of the prefix it has applied, that what the
  epoch took and what is queued follow in order, and that the pass's changes lead
  from the levels held to the levels computed; the last needs that levels depend on
  tickets alone.
* `NoTicketLeaks`: tickets applied, followed by those on their way, are exactly those
  of the living owners. That kinds of timed tickets differ in strength is needed, as
  a batch removes by position and strength.
* `RequestsAreKept`: a committed request keeps its chunks, because every later
  prefix still contains its tickets and a stronger level is never weakened by more
  of them.

`FullReadinessProofs`:

* `ReadinessTyped`: `Spec => []TypeOK`.
* `IndexExact`: contributors are Full holders of the map and every counter is a
  cardinality. The counters are updated by differences, so this is the lemma about
  cardinalities of arrivals and departures, and the invariant that each chunk's
  contribution is still true when it is subtracted.
* `TickingIsSafe`: a chunk that may tick has its whole neighbourhood, outside a
  commit. The inductive invariant adds what `Prepare` has already taken away for
  chunks still to be changed, and that publications drained are of holders in the map.
* `SnapshotNeverStale`: `Spec => []SnapshotIsCurrent`. The list is rebuilt only when a
  commit or a reconciliation marks it; the inductive invariant says that it is current
  or marked, and why each change that is not marked leaves the list as it was.
* `NobodyIsLeftBehind`: `Spec => []NobodyLeftBehind`. The inductive invariant
  (`LookInv`) names, for each chunk that the index, the activation or the readiness is
  behind for, the look that is still to come: a publication, queued or drained, or the
  dirty centres the commit still has to reconcile.

`ScheduledTicksProofs`:

* `NoDeadlineIsLost`: from a new world, or from one whose chunks were saved with any lists of block ticks,
  `[][TickNext]_tickVars` keeps `DeadlinesExact`, for any chunks, keys, limits and
  bounds. `DeadlinesExact` speaks of moments at which the phase lock is free; the
  inductive invariant (`IndexInv`) says what holds inside a collection: queues taken
  from the index have no cached head, every other queue has its own, a chunk that is
  not registered has empty queues, and ticking chunks stay registered until the next
  reconciliation, so that nobody touches a taken queue.
* `NoOwedTickIsLost`: from the same worlds, `OwedTicksAreKept` is an invariant. Where a
  tick may be found says little about why it stays there, so the inductive invariant
  (`OwedInv`) says what a save has to know, and says it of the newest save, whatever an
  older one still has to write: what the queues of a registered chunk hold is on disk if
  its dirty flag is clear and the newest save is over, and in the newest save's snapshot
  if that has read the queues and the flag is still clear (`CleanIsSaved`). Between the
  two lies a save that has taken the flag and not read yet, which may be behind. A write
  of an older save while the newest is under way does no harm, as that one will write
  too or set the flag; after it, on a clean chunk, it makes the chunk `overwritten`,
  which is the exception in both invariant and property until a save begins again. Only
  registered chunks are saved, what has started is no longer owed, and an
  unloading chunk is registered, so that unregistering it drops only what is on disk.
* `CollectionFollowsReference`: `CollectsInOrder` is an invariant. The reference is a
  sequence of single choices, the code takes runs. The inductive invariant
  (`CollectInv`) puts a collection on the reference's track: there is a sequence of
  choices that ends in the plan and that passes through what has been collected with
  what is still due; chunks that were not taken out of the index have nothing due, which
  is where `IndexInv` comes in; and the queue taken from last cannot go on, because it is
  empty or another head is strictly earlier, so that the reference's preference for the
  queue at hand does not matter at the start of a turn. A turn of n ticks is then n
  choices of the same queue.

Apart from the hypotheses named with them (no autosaves, payloads below `SizeWrap`),
the theorems assume of the constants only what the `ASSUME`s of the modules say. The
autosave hypotheses are not for convenience: `persist_stale_save` and
`region_autosave` show what goes wrong without them.

Only model-checked:

* AccumulatedIsClosure, LayersCoverDependencies and TicketPermitsTask: statements
  about one constant table, for which TLC's enumeration is complete. The proofs about
  generation assume of a pyramid only `WellFormed`, which is among what is enumerated.
* All liveness, as fairness and ENABLED are beyond the prover.

## Plan

1. Done: region files and chunk persistence; tickets and epochs with their
   refinement; generation and its pyramid; readiness; scheduled ticks; the theorems
   above.
2. LightGate: windows, put-back and the order of updates.
3. EntityManager: the full life of an entity across unload, revival and reload.
4. World and server shutdown, player data, player admission; the login state
   machine; the Geyser supervisor.

## Not modelled

Most of the source is game rules: blocks, entities, world generation, redstone and
physics, inventories and recipes, commands, and the natives that expose them to
plugins. It is sequential code on block data, whose correctness is agreement with
the original game and for which there is no specification other than itself. Packets
and registries are generated tables; payload conversion (`chunk_saver/storage`, bit
packing, NBT) and utilities convert data. Noise and light are numeric, and out of a
model checker's reach. None of it has the concurrency, failures and ordering this
development is about.

Of the parts that are modelled:

* region manager: backups of incompatible versions, directory synchronisation and
  bulk-write mode;
* chunk map: player tracking, block-entity unloading, failures of generation other
  than those of `ChunkGeneration`;
* tickets: arena, dragon and forced-chunk tickets, and teleport tickets, which unlike the
  other timed ones are queued after the lock on them is given up; the file of timed tickets, which
  appears only as any initial set of them; an epoch that panics, which leaves the
  coordinator Running for ever. RemovePlayer submits just after it gives up the lock
  on views and is one action here;
* generation: the work of the steps on block data, priorities among pending tasks,
  the light window; `can_load_without_generation`, which the task never takes because
  `needs_generation` starts out true;
* readiness: post-processing that fails, and the rebuild of the index after a failed
  reconciliation, which `IndexIsSound` shows is not reached;
* scheduled ticks: queries for ticks of the current batch, saving and unloading of
  chunks that never became Full, wrap-around of game time. `Schedule` is for published
  chunks, which are registered before they are published; the branch of schedule_block
  for a container before publication serves chunks without a world. Ticks of generation
  steps go to the pending lists (`SchedulePending`) with delay zero, as WorldGenRegion
  drops the delay; their order is their place in the list, and the counter they advance
  here is only for the ghost id: it leaves a gap in the orders of live ticks. Adding a tick and setting the dirty flag is
  one action: a save that takes the flag in between finds it set again afterwards, and
  the caller holds on to the chunk, so that it is not dropped in between. A crash between collection
  and the end of a batch loses its ticks, as it loses every change since the last save.
