-------------------------- MODULE ChunkGeneration --------------------------
(***************************************************************************)
(* How chunks are brought to the status their ticket level asks for.       *)
(*                                                                         *)
(* A scheduling epoch offers every holder whose level changed to           *)
(* schedule_chunk_generation_task_b, which makes it a ChunkGenerationTask  *)
(* over the square of holders the target depends on.  A running task goes  *)
(* through the statuses as layers: it applies the step of the layer to     *)
(* every holder of the layer's square and waits for all of them.  The      *)
(* first task to apply a step to a holder claims it and spawns the         *)
(* producer that loads or generates it; the others wait for the claim.     *)
(* Meanwhile the game thread commits level changes, one holder at a time,  *)
(* and revokes what tasks, producers and waiters rely on.                  *)
(*                                                                         *)
(* Chunks lie on a line (one row of the squares); a status is its index;   *)
(* a level counts from FULL_CHUNK downwards, and Unloaded is None.  Tasks  *)
(* are numbered, and a number is used again when nothing refers to it.     *)
(* Saves are reduced to the latch that stands in the way of a revival:     *)
(* ChunkPersistence has the rest.                                          *)
(***************************************************************************)
EXTENDS ChunkPyramid, FiniteSets

CONSTANTS
    Requirements,       \* of the generation pyramid
    Chunks,             \* positions: an interval of naturals
    Tickets,            \* the sets of tickets gameplay may hold: <<position, level>>
    MaxTasks,           \* bound: generation tasks alive at once
    MaxRunning,         \* max_running_generation_tasks
    MaxFailures,        \* bound: storage errors
    MaxMoves            \* bound: ticket changes

Pyramid == Build(Requirements)
Full == FullIndex(Pyramid)
Unloaded == MaxLevel(Pyramid) + 1
StructureStarts == 1    \* chunks below this status are not saved

ASSUME GenerationAssumption ==
    /\ WellFormed(Pyramid)
    /\ Chunks \subseteq Nat /\ Chunks # {} /\ IsFiniteSet(Chunks)
    /\ \A T \in Tickets : T \subseteq Chunks \X (0 .. MaxLevel(Pyramid))
    /\ {} \in Tickets
    /\ MaxTasks \in Nat \ {0} /\ MaxRunning \in Nat \ {0}
    /\ MaxFailures \in Nat /\ MaxMoves \in Nat

VARIABLES
    applied,            \* levels the ticket manager last reported
    epoch,              \* progress of the scheduling epoch and of its commit
    changed,            \* changes not committed yet
    offers,             \* holders_to_schedule, with the retries
    parked,             \* deferred_generation_schedules
    deferredRevivals,   \* deferred_revivals
    installing,         \* the task pushed and not yet made the holder's own
    unvisited,          \* unloading chunks process_unloads has yet to look at
    place,              \* the map that has the chunk's holder, if any
    level,              \* ChunkHolder.load_level
    published,          \* ChunkHolder.published_status
    started,            \* ChunkHolder.started_work
    current,            \* ChunkHolder.generation_task
    saving,             \* progress of the holder's save_chunk
    disk,               \* the status of the chunk in storage
    task,               \* the generation tasks
    producer,           \* the producer working on the holder
    refill,             \* permit of generation_refill_notify
    failures, moves,    \* counters for the bounds
    shrunk              \* ghost: a ticket has been given up

ticketVars == <<moves, shrunk>>
epochVars == <<applied, epoch, changed, offers, parked, deferredRevivals, installing, unvisited>>
holderVars == <<place, level, published, started, current>>
saveVars == <<saving, disk>>
workVars == <<task, producer, refill, failures>>
vars == <<ticketVars, epochVars, holderVars, saveVars, workVars>>

TaskIds == 1 .. MaxTasks
NoTask == 0
None == -1
Statuses == 0 .. Full
Futures == {"none", "own", "poll", "asleep", "ready", "failed"}

Distance(c, d) == IF c < d THEN d - c ELSE c - d
Square(c, r) == {d \in Chunks : Distance(c, d) <= r}

(* try_new: the square a task for `target` keeps.                          *)
CacheOf(c, target) == Square(c, LayerRadius(Pyramid, target, 0))

FreeTask ==
    [at |-> None, target |-> None, pc |-> "done", cancelled |-> FALSE, scheduled |-> None,
     todo |-> {}, future |-> [c \in Chunks |-> "none"]]
NoProducer == [status |-> None, stage |-> "none", cache |-> {}]

Tasks ==
    [at : Chunks \cup {None}, target : Statuses \cup {None},
     pc : {"done", "pending", "wait", "layer"}, cancelled : BOOLEAN,
     scheduled : Statuses \cup {None}, todo : SUBSET Chunks, future : [Chunks -> Futures]]
Producers ==
    [status : Statuses \cup {None}, cache : SUBSET Chunks,
     stage : {"none", "acquire", "load", "step", "abandon"}]

TypeOK ==
    /\ shrunk \in BOOLEAN
    /\ applied \in [Chunks -> 0 .. Unloaded] /\ level \in [Chunks -> 0 .. Unloaded]
    /\ epoch \in {"offers", "unloads", "commit"}
    /\ changed \subseteq Chunks /\ offers \subseteq Chunks /\ parked \subseteq Chunks
    /\ deferredRevivals \subseteq Chunks /\ unvisited \subseteq Chunks
    /\ installing \in TaskIds \cup {NoTask} /\ current \in [Chunks -> TaskIds \cup {NoTask}]
    /\ place \in [Chunks -> {"none", "active", "unloading"}]
    /\ published \in [Chunks -> Statuses \cup {None}]
    /\ started \in [Chunks -> Statuses \cup {None}]
    /\ disk \in [Chunks -> Statuses \cup {None}]
    /\ saving \in [Chunks -> {"no", "queued", "preparing"}]
    /\ task \in [TaskIds -> Tasks] /\ producer \in [Chunks -> Producers]
    /\ refill \in BOOLEAN /\ failures \in 0 .. MaxFailures /\ moves \in 0 .. MaxMoves

-----------------------------------------------------------------------------
(* Tickets and levels.                                                     *)

(* Propagation: a ticket's level rises by one per chunk of distance.       *)
LevelAt(T, c) ==
    Min({Unloaded} \cup {t[2] + Distance(t[1], c) : t \in T})

(* highest_allowed_status.                                                 *)
Allowed(c) == IF level[c] = Unloaded THEN None ELSE GenerationStatus(Pyramid, level[c])

(* The map at rest with the tickets T: holders where they reach, each at   *)
(* its status and not yet saved.                                           *)
Init ==
    /\ moves = 0 /\ shrunk = FALSE
    /\ level \in {[c \in Chunks |-> LevelAt(T, c)] : T \in Tickets} /\ applied = level
    /\ epoch = "offers" /\ changed = {} /\ offers = {} /\ parked = {}
    /\ deferredRevivals = {} /\ installing = NoTask /\ unvisited = {}
    /\ place = [c \in Chunks |-> IF level[c] = Unloaded THEN "none" ELSE "active"]
    /\ published = [c \in Chunks |-> Allowed(c)] /\ started = published
    /\ current = [c \in Chunks |-> NoTask]
    /\ saving = [c \in Chunks |-> "no"]
    /\ disk = [c \in Chunks |-> None]
    /\ task = [t \in TaskIds |-> FreeTask] /\ producer = [c \in Chunks |-> NoProducer]
    /\ refill = FALSE /\ failures = 0

-----------------------------------------------------------------------------
(* Scheduling: the epoch's own thread.                                     *)

Live(t) == task[t].pc # "done"

(* The task frees its number unless a holder has it, or will, as its own.  *)
Finished(T, t, owners) == IF t = installing \/ \E c \in Chunks : owners[c] = t
                          THEN [T EXCEPT ![t] = [@ EXCEPT !.pc = "done"]]
                          ELSE [T EXCEPT ![t] = FreeTask]

(* ChunkGenerationTask::cancel.                                            *)
Cancel(T, t) == IF t = NoTask THEN T
                ELSE IF T[t].pc = "done" THEN [T EXCEPT ![t] = FreeTask]
                ELSE [T EXCEPT ![t] = [@ EXCEPT !.cancelled = TRUE]]

(* Mutant of NotNeeded: any work on the holder will do.                    *)
NotNeededOnceStarted(c, s) == s > Allowed(c) \/ current[c] # NoTask \/ started[c] >= 0

(* schedule_chunk_generation_task_b and its early returns: nothing to do   *)
(* for the holder at this status.                                          *)
NotNeeded(c, s) ==
    \/ s > Allowed(c)
    \/ published[c] >= s
    \/ current[c] # NoTask /\ task[current[c]].target >= s

Offer(c) ==
    /\ epoch = "offers" /\ installing = NoTask /\ c \in offers
    /\ LET s == Allowed(c) IN
       \/ /\ NotNeeded(c, s)
          /\ offers' = offers \ {c}
          /\ UNCHANGED <<parked, installing, task>>
       \/ /\ ~ NotNeeded(c, s)
          /\ \E d \in CacheOf(c, s) : place[d] # "active"
          /\ offers' = offers \ {c} /\ parked' = parked \cup {c}
          /\ UNCHANGED <<installing, task>>
       \/ /\ ~ NotNeeded(c, s)
          /\ \A d \in CacheOf(c, s) : place[d] = "active"
          /\ \E t \in TaskIds :
                /\ task[t] = FreeTask /\ \A u \in 1 .. (t - 1) : task[u] # FreeTask
                /\ installing' = t
                /\ task' = [task EXCEPT ![t] = [FreeTask EXCEPT !.at = c, !.target = s,
                                                                 !.pc = "pending"]]
          /\ UNCHANGED <<offers, parked>>
    /\ UNCHANGED <<ticketVars, applied, epoch, changed, deferredRevivals, unvisited,
                   holderVars, saveVars, producer, refill, failures>>

(* Mutant of Install: the task it replaces is left running.                *)
InstallBeside ==
    /\ installing # NoTask
    /\ LET c == task[installing].at IN
       /\ current' = [current EXCEPT ![c] = installing]
       /\ offers' = offers \ {c}
    /\ installing' = NoTask /\ refill' = TRUE
    /\ UNCHANGED <<ticketVars, applied, epoch, changed, parked, deferredRevivals, unvisited,
                   place, level, published, started, saveVars, task, producer, failures>>

(* reschedule_chunk_task_b, after the task was pushed.                     *)
Install ==
    /\ installing # NoTask
    /\ LET c == task[installing].at IN
       /\ task' = Cancel(task, current[c])
       /\ current' = [current EXCEPT ![c] = installing]
       /\ offers' = offers \ {c}
    /\ installing' = NoTask /\ refill' = TRUE
    /\ UNCHANGED <<ticketVars, applied, epoch, changed, parked, deferredRevivals, unvisited,
                   place, level, published, started, saveVars, producer, failures>>

(* All offers made: notify the refill loop and look at the unloads, except *)
(* the staged revivals.                                                    *)
EndOffers ==
    /\ epoch = "offers" /\ offers = {} /\ installing = NoTask
    /\ epoch' = "unloads" /\ refill' = TRUE
    /\ unvisited' = {c \in Chunks \ deferredRevivals :
                        place[c] = "unloading" /\ ~ (c \in changed /\ applied[c] # Unloaded)}
    /\ UNCHANGED <<ticketVars, applied, changed, offers, parked, deferredRevivals, installing,
                   holderVars, saveVars, task, producer, failures>>

(* Arc::strong_count: somebody besides the map keeps the holder.           *)
Referenced(c) ==
    \/ \E t \in TaskIds : task[t].at # None /\ c \in CacheOf(task[t].at, task[t].target)
    \/ \E d \in Chunks : c \in producer[d].cache
    \/ c \in parked \/ saving[c] # "no"

Dirty(c) == published[c] >= StructureStarts /\ disk[c] # published[c]

(* process_unloads, for one unloading holder: keep, save or drop it.       *)
VisitUnloading(c) ==
    /\ epoch = "unloads" /\ c \in unvisited
    /\ unvisited' = unvisited \ {c}
    /\ \/ /\ Referenced(c)
          /\ UNCHANGED <<place, published, started, saving>>
       \/ /\ ~ Referenced(c) /\ Dirty(c)
          /\ saving' = [saving EXCEPT ![c] = "queued"]
          /\ UNCHANGED <<place, published, started>>
       \/ /\ ~ Referenced(c) /\ ~ Dirty(c)
          /\ place' = [place EXCEPT ![c] = "none"]
          /\ published' = [published EXCEPT ![c] = None]
          /\ started' = [started EXCEPT ![c] = None]
          /\ UNCHANGED saving
    /\ UNCHANGED <<ticketVars, applied, epoch, changed, offers, parked, deferredRevivals,
                   installing, level, current, disk, workVars>>

(* finish_epoch; and, at the next tick, take_boundary_step and             *)
(* merge_deferred_revivals.                                                *)
EndUnloads ==
    /\ epoch = "unloads" /\ unvisited = {}
    /\ epoch' = "commit" /\ changed' = changed \cup deferredRevivals /\ deferredRevivals' = {}
    /\ UNCHANGED <<ticketVars, applied, offers, parked, installing, unvisited,
                   holderVars, saveVars, workVars>>

(* prepare_chunk_save_on_pool reserves the holder, unless it was revived.  *)
ReserveForSave(c) ==
    /\ saving[c] = "queued"
    /\ saving' = [saving EXCEPT ![c] = IF place[c] = "unloading" THEN "preparing" ELSE "no"]
    /\ UNCHANGED <<ticketVars, epochVars, holderVars, disk, workVars>>

(* The snapshot is taken and written, and the holder released.             *)
Saved(c) ==
    /\ saving[c] = "preparing"
    /\ saving' = [saving EXCEPT ![c] = "no"]
    /\ disk' = [disk EXCEPT ![c] = published[c]]
    /\ UNCHANGED <<ticketVars, epochVars, holderVars, workVars>>

-----------------------------------------------------------------------------
(* The commit: the game thread, between two ticks.                         *)

(* Mutant of Woken: the notification is lost.                              *)
Unnoticed(T, c) == T

(* wake_all_watchers: waiters on the holder look again.                    *)
Woken(T, c) ==
    [t \in TaskIds |-> IF T[t].future[c] = "asleep"
                       THEN [T[t] EXCEPT !.future = [@ EXCEPT ![c] = "poll"]] ELSE T[t]]

(* update_chunk_level with a level: an active or new or revived holder,    *)
(* which is offered to the next epoch, or a revival put off.               *)
CommitLoad(c) ==
    /\ epoch = "commit" /\ c \in changed /\ applied[c] # Unloaded
    /\ changed' = changed \ {c}
    /\ IF place[c] = "unloading" /\ saving[c] = "preparing"
       THEN /\ deferredRevivals' = deferredRevivals \cup {c}
            /\ UNCHANGED <<place, level, offers>>
       ELSE /\ place' = [place EXCEPT ![c] = "active"]
            /\ level' = [level EXCEPT ![c] = applied[c]]
            /\ offers' = offers \cup {c}
            /\ UNCHANGED deferredRevivals
    /\ UNCHANGED <<ticketVars, applied, epoch, parked, installing, unvisited, published, started,
                   current, saveVars, workVars>>

(* update_chunk_level without one: an active holder is moved to unloading, *)
(* its task is cancelled and the waiters are woken.                        *)
CommitUnload(c) ==
    /\ epoch = "commit" /\ c \in changed /\ applied[c] = Unloaded
    /\ changed' = changed \ {c}
    /\ IF place[c] = "active"
       THEN /\ place' = [place EXCEPT ![c] = "unloading"]
            /\ level' = [level EXCEPT ![c] = Unloaded]
            /\ task' = Woken(Cancel(task, current[c]), c)
            /\ current' = [current EXCEPT ![c] = NoTask]
       ELSE UNCHANGED <<place, level, task, current>>
    /\ UNCHANGED <<ticketVars, applied, epoch, offers, parked, deferredRevivals, installing,
                   unvisited, published, started, saveVars, producer, refill, failures>>

(* spawn_scheduling_epoch: the next epoch applies the tickets gameplay now *)
(* holds, and takes the parked chunks that still have a level.             *)
EndCommit(T) ==
    LET levels == [c \in Chunks |-> LevelAt(T, c)] IN
    /\ epoch = "commit" /\ changed = {}
    /\ epoch' = "offers"
    /\ applied' = levels
    /\ changed' = {c \in Chunks : levels[c] # applied[c]}
    /\ moves' = (IF levels = applied THEN moves ELSE moves + 1) /\ moves' <= MaxMoves
    /\ shrunk' = (shrunk \/ \E c \in Chunks : levels[c] > applied[c])
    /\ offers' = offers \cup {c \in parked : level[c] # Unloaded} /\ parked' = {}
    /\ UNCHANGED <<deferredRevivals, installing, unvisited, holderVars, saveVars, workVars>>

-----------------------------------------------------------------------------
(* Generation tasks.                                                       *)

Pending == {t \in TaskIds : task[t].pc = "pending"}
Running == {t \in TaskIds : task[t].pc \in {"wait", "layer"}}

(* run_generation_tasks_b: forget cancelled tasks, fill the free slots.    *)
Refill ==
    /\ refill /\ refill' = FALSE
    /\ LET waiting == {t \in Pending : ~ task[t].cancelled}
           slots == MaxRunning - Cardinality(Running)
       IN  \E S \in SUBSET waiting :
              /\ Cardinality(S) = Smaller(Cardinality(waiting), slots)
              /\ task' = [t \in TaskIds |->
                             IF t \in S THEN [task[t] EXCEPT !.pc = "wait"]
                             ELSE IF t \in Pending \ waiting THEN FreeTask ELSE task[t]]
    /\ UNCHANGED <<ticketVars, epochVars, holderVars, saveVars, producer, failures>>

LayerDone(t) == \A c \in Chunks : task[t].future[c] \notin {"own", "poll", "asleep"}

(* schedule_next_layer, up to the loop of schedule_layer.                  *)
NextLayer(k) ==
    [k EXCEPT !.pc = "layer", !.scheduled = k.scheduled + 1,
              !.todo = Square(k.at, LayerRadius(Pyramid, k.target, k.scheduled + 1)),
              !.future = FreeTask.future]

(* Mutant of Advance: a step that failed is taken for done.                *)
AdvanceRegardless(t) ==
    /\ task[t].pc = "wait" /\ ~ task[t].cancelled /\ LayerDone(t)
    /\ task[t].scheduled < task[t].target
    /\ task' = [task EXCEPT ![t] = NextLayer(@)]
    /\ UNCHANGED <<ticketVars, epochVars, holderVars, saveVars, producer, refill, failures>>

(* run: every future of the layer is in.  One that failed cancels the task. *)
Advance(t) ==
    /\ task[t].pc = "wait" /\ ~ task[t].cancelled /\ LayerDone(t)
    /\ task[t].scheduled < task[t].target
    /\ task' = [task EXCEPT ![t] =
                  IF \E c \in Chunks : @.future[c] = "failed"
                  THEN [@ EXCEPT !.cancelled = TRUE] ELSE NextLayer(@)]
    /\ UNCHANGED <<ticketVars, epochVars, holderVars, saveVars, producer, refill, failures>>

(* run: cancelled, or the last layer is in; clear_generation_task_if_current *)
(* and the permit's drop.                                                  *)
Finish(t) ==
    /\ task[t].pc = "wait"
    /\ task[t].cancelled \/ (LayerDone(t) /\ task[t].scheduled = task[t].target)
    /\ LET c == task[t].at
           owners == IF current[c] = t THEN [current EXCEPT ![c] = NoTask] ELSE current
       IN  /\ current' = owners
           /\ task' = Finished(task, t, owners)
    /\ refill' = TRUE
    /\ UNCHANGED <<ticketVars, epochVars, place, level, published, started, saveVars,
                   producer, failures>>

(* The task after its future for `c` became `f`.                           *)
WithFuture(k, c, f) ==
    [k EXCEPT !.future = [@ EXCEPT ![c] = f], !.todo = @ \ {c},
              !.pc = IF k.todo = {c} THEN "wait" ELSE k.pc]

(* schedule_layer and apply_step, for the next holder of the layer: give   *)
(* up, wait for another task's claim, or claim the step and spawn its      *)
(* producer.                                                               *)
ApplyStep(t) ==
    /\ task[t].pc = "layer"
    /\ LET c == Min(task[t].todo)
           s == task[t].scheduled
       IN  \/ /\ task[t].cancelled \/ s > Allowed(c)
              /\ task' = [task EXCEPT ![t] = [@ EXCEPT !.cancelled = TRUE, !.todo = {},
                                                       !.pc = "wait"]]
              /\ UNCHANGED <<started, producer>>
           \/ /\ ~ task[t].cancelled /\ s <= Allowed(c) /\ started[c] >= s
              /\ task' = [task EXCEPT ![t] = WithFuture(@, c, "poll")]
              /\ UNCHANGED <<started, producer>>
           \/ /\ ~ task[t].cancelled /\ s <= Allowed(c) /\ started[c] = s - 1
              /\ started' = [started EXCEPT ![c] = s]
              /\ producer' = [producer EXCEPT ![c] =
                                [status |-> s, stage |-> IF s = 0 THEN "acquire" ELSE "step",
                                 cache |-> CacheOf(task[t].at, task[t].target)]]
              /\ task' = [task EXCEPT ![t] = WithFuture(@, c, "own")]
    /\ UNCHANGED <<ticketVars, epochVars, place, level, published, current, saveVars,
                   refill, failures>>

(* await_claimed_chunk_status, one turn of its loop.                       *)
PollWaiter(t, c) ==
    /\ task[t].future[c] = "poll"
    /\ LET s == task[t].scheduled
           f == IF published[c] >= s THEN "ready"
                ELSE IF s > Allowed(c) \/ started[c] < s THEN "failed" ELSE "asleep"
       IN  task' = [task EXCEPT ![t].future[c] = f]
    /\ UNCHANGED <<ticketVars, epochVars, holderVars, saveVars, producer, refill, failures>>

-----------------------------------------------------------------------------
(* Producers: the spawned half of apply_step.                              *)

(* The producer ends: its owner has the answer, the waiters look again.    *)
Answered(T, c, f) ==
    [t \in TaskIds |-> IF T[t].future[c] = "own"
                       THEN [T[t] EXCEPT !.future = [@ EXCEPT ![c] = f]] ELSE T[t]]

To(c, stage) == [producer EXCEPT ![c] = [@ EXCEPT !.stage = stage]]

(* mark_status_work_published, the new status, notify_waiters; the end of  *)
(* the producer.                                                           *)
Publish(c, s) ==
    /\ started' = [started EXCEPT ![c] = Larger(@, s)]
    /\ published' = [published EXCEPT ![c] = Larger(@, s)]
    /\ producer' = [producer EXCEPT ![c] = NoProducer]
    /\ task' = Woken(Answered(task, c, "ready"), c)

(* apply_empty_step, up to the load: an error, a holder that lost its      *)
(* level, a chunk in storage, or one to generate.                          *)
Acquire(c) ==
    /\ producer[c].stage = "acquire"
    /\ \/ /\ failures < MaxFailures /\ failures' = failures + 1
          /\ producer' = To(c, "abandon")
       \/ /\ UNCHANGED failures
          /\ producer' = To(c, IF Allowed(c) < 0 THEN "abandon"
                               ELSE IF disk[c] # None THEN "load" ELSE "step")
    /\ UNCHANGED <<ticketVars, epochVars, holderVars, saveVars, task, refill>>

(* apply_existing_empty_step: an error, a payload discarded as corrupt, a  *)
(* holder that lost its level, or the status it was saved with.            *)
Load(c) ==
    /\ producer[c].stage = "load"
    /\ \/ /\ failures < MaxFailures /\ failures' = failures + 1
          /\ producer' = To(c, "abandon")
          /\ UNCHANGED <<started, published, disk, task>>
       \/ /\ failures < MaxFailures /\ failures' = failures + 1
          /\ disk' = [disk EXCEPT ![c] = None]
          /\ producer' = To(c, IF Allowed(c) < 0 THEN "abandon" ELSE "step")
          /\ UNCHANGED <<started, published, task>>
       \/ /\ Allowed(c) < 0
          /\ producer' = To(c, "abandon")
          /\ UNCHANGED <<started, published, disk, task, failures>>
       \/ /\ Allowed(c) >= 0
          /\ Publish(c, disk[c])
          /\ UNCHANGED <<disk, failures>>
    /\ UNCHANGED <<ticketVars, epochVars, place, level, current, saving, refill>>

(* run_step_task and finish_generation_status.                             *)
StepDone(c) ==
    /\ producer[c].stage = "step"
    /\ Publish(c, producer[c].status)
    /\ UNCHANGED <<ticketVars, epochVars, place, level, current, saveVars, refill, failures>>

(* A step that panics ends its producer all the same.                      *)
StepPanics(c) ==
    /\ producer[c].stage = "step" /\ failures < MaxFailures
    /\ failures' = failures + 1 /\ producer' = To(c, "abandon")
    /\ UNCHANGED <<ticketVars, epochVars, holderVars, saveVars, task, refill>>

(* Mutants of RollbackIndex: the holder forgets what it had, or goes back  *)
(* one status too far.                                                     *)
RollbackToNothing(c) == None
RollbackBelow(c) == published[c] - 1

(* release_status_work_claim: back to what is published.                   *)
RollbackIndex(c) == published[c]

(* Mutant of Abandon: nobody is told.                                      *)
AbandonSilently(c) ==
    /\ producer[c].stage = "abandon"
    /\ started' = [started EXCEPT ![c] = RollbackIndex(c)]
    /\ producer' = [producer EXCEPT ![c] = NoProducer]
    /\ task' = Answered(task, c, "failed")
    /\ UNCHANGED <<ticketVars, epochVars, place, level, published, current, saveVars,
                   refill, failures>>

(* StatusWorkClaim::drop of a producer that gave up.                       *)
Abandon(c) ==
    /\ producer[c].stage = "abandon"
    /\ started' = [started EXCEPT ![c] = RollbackIndex(c)]
    /\ producer' = [producer EXCEPT ![c] = NoProducer]
    /\ task' = Woken(Answered(task, c, "failed"), c)
    /\ UNCHANGED <<ticketVars, epochVars, place, level, published, current, saveVars,
                   refill, failures>>

-----------------------------------------------------------------------------
Scheduling ==
    \/ Install \/ EndOffers \/ EndUnloads \/ \E T \in Tickets : EndCommit(T)
    \/ \E c \in Chunks : Offer(c) \/ VisitUnloading(c) \/ CommitLoad(c) \/ CommitUnload(c)
TaskStep(t) == Advance(t) \/ Finish(t) \/ ApplyStep(t) \/ \E c \in Chunks : PollWaiter(t, c)
Produce(c) == Acquire(c) \/ Load(c) \/ StepDone(c) \/ StepPanics(c) \/ Abandon(c)

Next ==
    \/ Install \/ EndOffers \/ EndUnloads \/ Refill \/ \E T \in Tickets : EndCommit(T)
    \/ \E c \in Chunks :
          \/ Offer(c) \/ VisitUnloading(c) \/ CommitLoad(c) \/ CommitUnload(c)
          \/ ReserveForSave(c) \/ Saved(c)
          \/ Acquire(c) \/ Load(c) \/ StepDone(c) \/ StepPanics(c) \/ Abandon(c)
    \/ \E t \in TaskIds :
          Advance(t) \/ Finish(t) \/ ApplyStep(t) \/ \E c \in Chunks : PollWaiter(t, c)

Spec == Init /\ [][Next]_vars

(* Threads and spawned tasks run when they can: the epoch's worker and the *)
(* tick that commits it, which take turns, the refill loop, tasks and      *)
(* producers.                                                              *)
FairSpec ==
    /\ Spec /\ WF_vars(Scheduling) /\ WF_vars(Refill)
    /\ \A c \in Chunks : WF_vars(Produce(c))
    /\ \A t \in TaskIds : WF_vars(TaskStep(t))

-----------------------------------------------------------------------------
(* Properties.                                                             *)

(* A producer works on a chunk only while every chunk its step depends on  *)
(* has the status the pyramid asks for (apply_step, schedule_layer): no    *)
(* unload, revival, abandoned claim or shared neighbour in between.        *)
DependenciesReady ==
    \A c \in Chunks : producer[c].stage = "step" =>
        LET direct == Step(Pyramid, producer[c].status).direct IN
        \A d \in Chunks : Distance(c, d) < Len(direct) =>
            published[d] >= direct[Distance(c, d) + 1]

(* claim_status_work's panic and the assertions of apply_generated_step    *)
(* and store_and_publish_chunk_status are out of reach: a step is applied  *)
(* to a holder whose parent status was started, and the first data of a    *)
(* holder is installed once.                                               *)
ClaimsFollowParents ==
    /\ \A t \in TaskIds : task[t].pc = "layer" /\ ~ task[t].cancelled =>
          \A c \in task[t].todo : started[c] >= task[t].scheduled - 1
    /\ \A c \in Chunks : producer[c].status = 0 => published[c] = None
    /\ \A c \in Chunks : started[c] # published[c] => producer[c].status = started[c]

(* await_claimed_chunk_status never sleeps through what it waits for: as   *)
(* long as a waiter sleeps, the work it waits for is claimed and alive.    *)
WaitersAreWoken ==
    \A t \in TaskIds, c \in Chunks : task[t].future[c] = "asleep" =>
        producer[c].status = task[t].scheduled /\ published[c] < task[t].scheduled

(* A chunk is driven by one task: any other is cancelled or not yet        *)
(* installed (reschedule_chunk_task_b, cancel_generation_task), and the    *)
(* holders of a task's square outlive it.                                  *)
OneTaskDrives ==
    \A t \in TaskIds : Live(t) /\ ~ task[t].cancelled =>
        /\ t = installing \/ current[task[t].at] = t
        /\ \A c \in CacheOf(task[t].at, task[t].target) : place[c] # "none"

(* No task hangs: once tickets rest, every task reaches its target or is   *)
(* cancelled, and leaves its permit and its holder (run,                   *)
(* RunningGenerationTaskPermit).                                           *)
TasksEnd == <>[](\A t \in TaskIds : ~ Live(t))

(* Unless tickets are given up on the way or storage fails, every chunk    *)
(* gets the status its ticket level allows, at last.                       *)
WantedIsGenerated ==
    <>[](shrunk \/ failures > 0
         \/ \A c \in Chunks : applied[c] # Unloaded =>
                published[c] >= GenerationStatus(Pyramid, applied[c]))

(* A chunk at a Full level that is not Full yet is on somebody's list: it  *)
(* has a task, or is offered, parked or about to be committed.  Otherwise  *)
(* it would "sit at its old status forever instead of being retried".      *)
NeverForgotten ==
    \A c \in Chunks :
        place[c] = "active" /\ Allowed(c) = Full /\ published[c] < Full /\ failures = 0 =>
            \/ current[c] # NoTask
            \/ c \in offers \cup parked \cup changed \cup deferredRevivals
=============================================================================
