--------------------------- MODULE ScheduledTicks ---------------------------
(***************************************************************************)
(* Scheduled block and fluid ticks (world/tick_scheduler): each chunk owns *)
(* two queues from its first generation step to its unloading; the world   *)
(* indexes the deadlines of the heads of the chunks that tick.  A game     *)
(* tick drains what is due into a batch and runs it, while saves on other  *)
(* threads read the queues and the batch.                                  *)
(*                                                                         *)
(* A tick carries a ghost id that its saved form keeps.  Both kinds of     *)
(* queue go through the same code; the drain of a tick's fluids follows    *)
(* that of its blocks.                                                     *)
(***************************************************************************)
EXTENDS Integers, Sequences, FiniteSets, SequencesExt, Ordering

CONSTANTS
    Chunks,       \* chunk positions
    Keys,         \* (position, type) pairs: records [chunk, kind, name]
    Priorities,   \* TickPriority, a set of integers
    NoHead,       \* None, the head of an empty queue; a deadline is an integer
    MaxPerTick,   \* MAX_SCHEDULED_TICKS_PER_TICK
    MaxDelay,     \* bound: delays of schedule calls
    MaxTime,      \* bound: game time
    MaxScheduled, \* bound: schedule calls
    MaxSaves      \* bound: saves begun

Kinds == {"block", "fluid"}
Queues == Chunks \X Kinds
Savers == {"unload", "pass"} \* save_chunk of process_unloads, save_all_chunks

ASSUME TickConstants ==
    /\ NoHead \notin Int /\ Chunks # {} /\ Priorities # {} /\ Priorities \subseteq Int
    /\ Keys \subseteq [chunk : Chunks, kind : Kinds, name : Nat]
    /\ MaxPerTick \in Nat \ {0} /\ MaxDelay \in Nat /\ MaxTime \in Nat
    /\ MaxScheduled \in Nat /\ MaxSaves \in Nat

VARIABLES
    place,      \* "none", "map", "unloading": where the chunk's holder is
    lifecycle,  \* ChunkTickContainerLifecycle; "absent" before the chunk exists,
                \* "outside" if no ticket ever reaches it
    pending,    \* pending_ticks of each queue, <<>> once unpacked
    live,       \* ticks of each queue, ordered by DrainsBefore
    scheduled,  \* scheduled keys of each queue
    head,       \* block_head and fluid_head of the registered chunks
    deadlines,  \* active_block_deadlines and active_fluid_deadlines
    active,     \* the chunks of the ticking snapshot, in rank order
    now,        \* game time
    nextOrder,  \* next_sub_tick_order, and the ghost ids
    step,       \* what the game thread is doing
    kind,       \* the kind of tick it is at
    taken,      \* the chunks take_due took out of the index
    batch,      \* ticks collected
    cursor,     \* next_index of the published batch
    dirty,      \* dirty flag of each chunk
    save,       \* each saver's save of each chunk: "none", "taken", "packed",
                \* "blocks", "write"
    snap,       \* what it has read of each queue
    disk,       \* the saved list of each queue
    saves,      \* saves begun
    newest,     \* ghost: the saver whose save of the chunk began last
    overwritten,\* ghost: clean chunks whose newest save an older one overwrote
    lost,       \* ghost: ids of ticks dropped with an overwritten chunk
    owed,       \* ghost: ids of ticks accepted and neither run nor withdrawn
    plan        \* ghost: what the collection should choose

containers == <<place, lifecycle, pending, live, scheduled>>
index == <<head, deadlines, active>>
game == <<step, kind, taken, batch, cursor, plan>>
history == <<newest, overwritten, lost>>
saving == <<dirty, save, snap, disk, saves, history>>
tickVars == <<containers, index, game, saving, now, nextOrder, owed>>

QueueOf(key) == <<key.chunk, key.kind>>

\* intra_tick_drain_order, as "not after"
IntraTickOrder(a, b) ==
    a.priority < b.priority \/ (a.priority = b.priority /\ a.order <= b.order)

\* QueuedTick::cmp: deadline, then intra-tick order, then insertion
DrainsBefore(a, b) ==
    \/ a.trigger < b.trigger
    \/ /\ a.trigger = b.trigger
       /\ IF IntraTickOrder(a, b) /\ IntraTickOrder(b, a) THEN a.id < b.id
          ELSE IntraTickOrder(a, b)

Sorted(ticks) == InOrder(ticks, DrainsBefore)

HeadOf(ticks) ==
    IF ticks = {} THEN NoHead
    ELSE (CHOOSE t \in ticks : \A u \in ticks : t.trigger <= u.trigger).trigger

ActiveSet == {active[i] : i \in DOMAIN active}
Rank(c) == CHOOSE i \in DOMAIN active : active[i] = c
PhaseFree == step # "drain"

\* set_head: the index follows the head of one queue
SetHead(q, t) ==
    /\ head' = [head EXCEPT ![q] = t]
    /\ deadlines' =
        IF q[1] \notin ActiveSet THEN deadlines
        ELSE [deadlines EXCEPT ![q[2]] =
                (@ \ {<<head[q], q[1]>>}) \cup
                (IF t = NoHead THEN {} ELSE {<<t, q[1]>>})]

-----------------------------------------------------------------------------
(* Chunks come, generate, load and go. *)

Empty(c) == [q \in Queues |-> IF q[1] = c THEN <<>> ELSE pending[q]]

IdsIn(c) == {t.id : t \in UNION {ToSet(pending[<<c, k>>]) \cup live[<<c, k>>] : k \in Kinds}}
SavedIds(c) == {t.id : t \in UNION {ToSet(disk[<<c, k>>]) : k \in Kinds}}

\* A chunk that was never saved starts as a proto chunk with pending lists
NewProto(c) ==
    /\ lifecycle[c] = "absent"
    /\ place' = [place EXCEPT ![c] = "map"]
    /\ lifecycle' = [lifecycle EXCEPT ![c] = "proto"]
    /\ UNCHANGED <<pending, live, scheduled, index, game, saving, now, nextOrder, owed>>

\* schedule_pending: a generation step's tick, with delay zero
SchedulePending(key, priority) ==
    /\ lifecycle[key.chunk] = "proto" /\ nextOrder < MaxScheduled
    /\ nextOrder' = nextOrder + 1
    /\ key \notin scheduled[QueueOf(key)]
    /\ scheduled' = [scheduled EXCEPT ![QueueOf(key)] = @ \cup {key}]
    /\ pending' = [pending EXCEPT ![QueueOf(key)] =
                    Append(@, [id |-> nextOrder, key |-> key, delay |-> 0, priority |-> priority])]
    /\ owed' = owed \cup {nextOrder}
    /\ UNCHANGED <<place, lifecycle, live, index, game, saving, now>>

\* remove_pending_matching: a later step settles the block and withdraws its tick
RemovePending(key) ==
    LET q == QueueOf(key)
        others == {i \in DOMAIN pending[q] : pending[q][i].key # key}
    IN  /\ lifecycle[key.chunk] = "proto" /\ key.kind = "block" /\ key \in scheduled[q]
        /\ pending' = [pending EXCEPT ![q] = AtPlaces(@, others)]
        /\ scheduled' = [scheduled EXCEPT ![q] = @ \ {key}]
        /\ owed' = owed \ {pending[q][i].id : i \in DOMAIN pending[q] \ others}
        /\ UNCHANGED <<place, lifecycle, live, index, game, saving, now, nextOrder>>

\* promote_to_full
PromoteToFull(c) ==
    /\ lifecycle[c] = "proto"
    /\ lifecycle' = [lifecycle EXCEPT ![c] = "unpublished"]
    /\ UNCHANGED <<place, pending, live, scheduled, index, game, saving, now, nextOrder, owed>>

\* from_saved_ticks and register_chunk: a Full chunk on disk is installed with
\* its saved lists pending, and registered before it is published
LoadFull(c) ==
    /\ PhaseFree /\ lifecycle[c] = "finalized"
    /\ place' = [place EXCEPT ![c] = "map"]
    /\ lifecycle' = [lifecycle EXCEPT ![c] = "registered"]
    /\ pending' = [q \in Queues |-> IF q[1] = c THEN disk[q] ELSE pending[q]]
    /\ scheduled' = [q \in Queues |->
                        IF q[1] = c THEN {t.key : t \in ToSet(disk[q])} ELSE scheduled[q]]
    /\ UNCHANGED <<live, index, game, saving, now, nextOrder, owed>>

\* register_chunk, for a chunk that was generated; it is new to the disk
Register(c) ==
    /\ PhaseFree /\ lifecycle[c] = "unpublished"
    /\ lifecycle' = [lifecycle EXCEPT ![c] = "registered"]
    /\ head' = [q \in Queues |-> IF q[1] = c THEN HeadOf(live[q]) ELSE head[q]]
    /\ dirty' = [dirty EXCEPT ![c] = TRUE]
    /\ UNCHANGED <<place, pending, live, scheduled, deadlines, active, game,
                   save, snap, disk, saves, history, now, nextOrder, owed>>

\* TickList::unpack of one queue: saved order becomes negative sub-tick order
Unpacked(q) ==
    live[q] \cup
      {[id |-> pending[q][i].id, key |-> pending[q][i].key,
        trigger |-> now + pending[q][i].delay, priority |-> pending[q][i].priority,
        order |-> (i - 1) - Len(pending[q])] : i \in DOMAIN pending[q]}

\* unpack_chunk: the chunk becomes ready to tick for the first time
Unpack(c) ==
    LET own(q) == q[1] = c
        heads == [q \in Queues |-> IF own(q) THEN HeadOf(Unpacked(q)) ELSE head[q]]
    IN  /\ step = "idle" /\ lifecycle[c] = "registered" /\ place[c] = "map"
        /\ \E k \in Kinds : pending[<<c, k>>] # <<>>
        /\ live' = [q \in Queues |-> IF own(q) THEN Unpacked(q) ELSE live[q]]
        /\ pending' = Empty(c)
        /\ head' = heads
        /\ deadlines' = [k \in Kinds |->
              IF c \notin ActiveSet THEN deadlines[k]
              ELSE (deadlines[k] \ {<<head[<<c, k>>], c>>}) \cup
                   {<<t, c>> : t \in {heads[<<c, k>>]} \ {NoHead}}]
        /\ UNCHANGED <<place, lifecycle, scheduled, active, game, saving, now, nextOrder, owed>>

\* reconcile_active_chunks, at a boundary: the chunks that are Full, unpacked
\* and within simulation distance, in the order the chunk map yields them
Reconcile(chunks) ==
    /\ step = "idle"
    /\ \A i \in DOMAIN chunks :
          /\ lifecycle[chunks[i]] = "registered" /\ place[chunks[i]] = "map"
          /\ \A k \in Kinds : pending[<<chunks[i], k>>] = <<>>
    /\ active' = chunks
    /\ deadlines' = [k \in Kinds |->
          {<<head[<<c, k>>], c>> : c \in {d \in ToSet(chunks) : head[<<d, k>>] # NoHead}}]
    /\ UNCHANGED <<containers, head, game, saving, now, nextOrder, owed>>

\* A commit moves a chunk that has stopped ticking to unloading_chunks, or back
BeginUnloading(c) ==
    /\ step = "idle" /\ c \notin ActiveSet /\ lifecycle[c] = "registered" /\ place[c] = "map"
    /\ place' = [place EXCEPT ![c] = "unloading"]
    /\ UNCHANGED <<lifecycle, pending, live, scheduled, index, game, saving, now, nextOrder, owed>>

\* ChunkSavePreparationGuard: from before the flag is taken until the snapshot
\* is complete
Preparing(c) == save["unload"][c] \in {"taken", "packed", "blocks"}

\* try_revive_from_unloading refuses a holder whose save is being prepared, not
\* one that is being written
Revive(c) ==
    /\ step = "idle" /\ place[c] = "unloading" /\ ~Preparing(c)
    /\ place' = [place EXCEPT ![c] = "map"]
    /\ UNCHANGED <<lifecycle, pending, live, scheduled, index, game, saving, now, nextOrder, owed>>

\* unregister_chunk, once process_unloads finds the chunk clean and no save
\* holding on to it
Unregister(c) ==
    /\ PhaseFree /\ place[c] = "unloading" /\ ~dirty[c]
    /\ \A k \in Savers : save[k][c] = "none"
    /\ place' = [place EXCEPT ![c] = "none"]
    /\ lifecycle' = [lifecycle EXCEPT ![c] = "finalized"]
    /\ pending' = Empty(c)
    /\ live' = [q \in Queues |-> IF q[1] = c THEN {} ELSE live[q]]
    /\ scheduled' = [q \in Queues |-> IF q[1] = c THEN {} ELSE scheduled[q]]
    /\ head' = [q \in Queues |-> IF q[1] = c THEN NoHead ELSE head[q]]
    /\ deadlines' = [k \in Kinds |-> {d \in deadlines[k] : d[2] # c}]
    /\ lost' = IF c \in overwritten THEN lost \cup (IdsIn(c) \ SavedIds(c)) ELSE lost
    /\ overwritten' = overwritten \ {c}
    /\ UNCHANGED <<active, game, dirty, save, snap, disk, saves, newest, now, nextOrder, owed>>

-----------------------------------------------------------------------------
(* Scheduling a live tick. *)

\* World::schedule_block_tick and schedule_fluid_tick on a published chunk, from
\* a callback or another thread, which holds on to a holder that may since have
\* begun to unload; a key that is already scheduled is ignored, but consumes an
\* order
Schedule(key, delay, priority) ==
    LET q == QueueOf(key)
        t == [id |-> nextOrder, key |-> key, trigger |-> now + delay,
              priority |-> priority, order |-> nextOrder]
    IN  /\ PhaseFree /\ nextOrder < MaxScheduled
        /\ lifecycle[key.chunk] = "registered"
        /\ nextOrder' = nextOrder + 1
        /\ IF key \in scheduled[q]
           THEN UNCHANGED <<live, scheduled, head, deadlines, dirty, owed>>
           ELSE /\ live' = [live EXCEPT ![q] = @ \cup {t}]
                /\ scheduled' = [scheduled EXCEPT ![q] = @ \cup {key}]
                /\ SetHead(q, HeadOf(live[q] \cup {t}))
                /\ dirty' = [dirty EXCEPT ![key.chunk] = TRUE]
                /\ owed' = owed \cup {nextOrder}
        /\ UNCHANGED <<place, lifecycle, pending, active, game, save, snap, disk, saves,
                       history, now>>

-----------------------------------------------------------------------------
(* A game tick: tick_time, then collect and execute blocks, then fluids. *)

TickTime ==
    /\ step = "idle" /\ now < MaxTime
    /\ now' = now + 1
    /\ step' = IF active = <<>> THEN "idle" ELSE "collect"
    /\ kind' = "block"
    /\ UNCHANGED <<containers, index, taken, batch, cursor, plan, saving, nextOrder, owed>>

\* The due part of a chunk's queue, in drain order
Due(c, k) == Sorted({t \in live[<<c, k>>] : t.trigger <= now})

\* What the collection is meant to choose: again and again the least head of
\* all queues, staying with the queue it took from last when heads are equal
NextChoice(chosen) ==
    LET heads == {c \in ActiveSet : chosen.left[c] # <<>>}
        least == {c \in heads : \A d \in heads :
                    IntraTickOrder(Head(chosen.left[c]), Head(chosen.left[d]))}
        same == {c \in least : chosen.taken # <<>> /\ Last(chosen.taken).key.chunk = c}
        among == IF same = {} THEN least ELSE same
        next == CHOOSE c \in among : \A d \in among : Rank(c) <= Rank(d)
    IN  IF heads = {} THEN chosen
        ELSE [taken |-> Append(chosen.taken, Head(chosen.left[next])),
              left |-> [chosen.left EXCEPT ![next] = Tail(@)]]

Choosing(k) ==
    LET choice[n \in 0..MaxPerTick] ==
          IF n = 0 THEN [taken |-> <<>>, left |-> [c \in ActiveSet |-> Due(c, k)]]
          ELSE NextChoice(choice[n - 1])
    IN  choice

Chosen(k) == Choosing(k)[MaxPerTick].taken

\* collect_ticks takes the phase lock; take_due removes the due containers from
\* the index
TakeDue ==
    LET due == {d \in deadlines[kind] : d[1] <= now}
        chunks == {d[2] : d \in due}
    IN  /\ step = "collect"
        /\ step' = "drain" /\ taken' = chunks /\ batch' = <<>>
        /\ deadlines' = [deadlines EXCEPT ![kind] = @ \ due]
        /\ head' = [q \in Queues |-> IF q[1] \in chunks /\ q[2] = kind THEN NoHead ELSE head[q]]
        /\ plan' = Chosen(kind)
        /\ UNCHANGED <<containers, active, kind, cursor, saving, now, nextOrder, owed>>

\* prepare_ready_containers: those whose head is due
Ready == {c \in taken : Due(c, kind) # <<>>}

\* ReadyContainer::cmp: the best container, by its head and then by rank
Best(c) ==
    \A d \in Ready \ {c} :
        LET a == Head(Due(c, kind))  b == Head(Due(d, kind))
        IN  /\ IntraTickOrder(a, b)
            /\ IntraTickOrder(b, a) => Rank(c) < Rank(d)

\* Mutant: the best container is drained as far as it is due
RunLengthUnopposed(c) ==
    IF Len(Due(c, kind)) + Len(batch) <= MaxPerTick THEN Len(Due(c, kind))
    ELSE MaxPerTick - Len(batch)

\* How many ticks the best container yields before another one's head comes
\* first or the batch is full
RunLength(c) ==
    LET due == Due(c, kind)
        goesOn(i) == \A d \in Ready \ {c} : IntraTickOrder(due[i], Head(Due(d, kind)))
        runs == {n \in 1..Len(due) : /\ Len(batch) + n <= MaxPerTick
                                     /\ \A i \in 2..n : goesOn(i)}
    IN  CHOOSE n \in runs : \A m \in runs : m <= n

\* One turn of collect_registered_ticks
DrainTurn(c) ==
    LET q == <<c, kind>>
        run == SubSeq(Due(c, kind), 1, RunLength(c))
    IN  /\ step = "drain" /\ Len(batch) < MaxPerTick /\ c \in Ready /\ Best(c)
        /\ batch' = batch \o run
        /\ live' = [live EXCEPT ![q] = @ \ ToSet(run)]
        /\ scheduled' = [scheduled EXCEPT ![q] = @ \ {t.key : t \in ToSet(run)}]
        /\ UNCHANGED <<place, lifecycle, pending, index, step, kind, taken, cursor, plan,
                       saving, now, nextOrder, owed>>

\* Mutant: containers that the limit cut off are forgotten
HeadUpdatesOfDrained == taken \ Ready

\* Every container taken gets a head update, drained or left over at the limit
HeadUpdates == taken

\* The taken containers' heads go back into the index, which releases the lock
EndCollection ==
    LET mine(q) == q[1] \in HeadUpdates /\ q[2] = kind
        heads == [q \in Queues |-> IF mine(q) THEN HeadOf(live[q]) ELSE head[q]]
    IN  /\ step = "drain" /\ (Ready = {} \/ Len(batch) >= MaxPerTick)
        /\ head' = heads
        /\ deadlines' = [deadlines EXCEPT ![kind] = @ \cup
              {<<heads[<<c, kind>>], c>> : c \in {d \in HeadUpdates : heads[<<d, kind>>] # NoHead}}]
        /\ step' = "drained" /\ taken' = {}
        /\ UNCHANGED <<containers, active, kind, batch, cursor, plan, saving, now, nextOrder, owed>>

\* collect_scheduled_block_ticks marks the chunks the batch came from
MarkChanged ==
    /\ step = "drained"
    /\ dirty' = [c \in Chunks |-> dirty[c] \/ \E i \in DOMAIN batch : batch[i].key.chunk = c]
    /\ step' = "marked"
    /\ UNCHANGED <<containers, index, kind, taken, batch, cursor, plan, save, snap, disk,
                   saves, history, now, nextOrder, owed>>

\* BlockTickBatchGuard::new publishes the batch
BeginBatch ==
    /\ step = "marked" /\ step' = "run" /\ cursor' = 0
    /\ UNCHANGED <<containers, index, kind, taken, batch, plan, saving, now, nextOrder, owed>>

\* start, then the callback: it may change the chunk, or find nothing to do
RunTick(changes) ==
    /\ step = "run" /\ cursor < Len(batch)
    /\ cursor' = cursor + 1
    /\ owed' = owed \ {batch[cursor + 1].id}
    /\ dirty' = [dirty EXCEPT ![batch[cursor + 1].key.chunk] = @ \/ changes]
    /\ UNCHANGED <<containers, index, step, kind, taken, batch, plan, save, snap, disk,
                   saves, history, now, nextOrder>>

EndBatch ==
    /\ step = "run" /\ cursor = Len(batch)
    /\ batch' = <<>> /\ cursor' = 0 /\ plan' = <<>>
    /\ step' = IF kind = "block" THEN "collect" ELSE "idle"
    /\ kind' = "fluid"
    /\ UNCHANGED <<containers, index, taken, saving, now, nextOrder, owed>>

-----------------------------------------------------------------------------
(* Saves: take the dirty flag, pack the queues, add what is still to run,  *)
(* write.  Each saver works through a chunk's save by itself; nothing but  *)
(* the preparation guard keeps the two apart.                              *)

\* take_dirty, at the start of a save; entities may force one of a clean chunk.
\* process_unloads saves unloading chunks, and none that a save holds on to; a
\* pass visits the chunks of both maps, one at a time
TakeDirty(k, c) ==
    /\ lifecycle[c] = "registered" /\ save[k][c] = "none" /\ saves < MaxSaves
    /\ IF k = "unload" THEN place[c] = "unloading" ELSE \A d \in Chunks : save[k][d] = "none"
    /\ saves' = saves + 1
    /\ save' = [save EXCEPT ![k][c] = "taken"]
    /\ dirty' = [dirty EXCEPT ![c] = FALSE]
    /\ newest' = [newest EXCEPT ![c] = k] /\ overwritten' = overwritten \ {c}
    /\ UNCHANGED <<containers, index, game, snap, disk, lost, now, nextOrder, owed>>

\* TickListPackingSnapshot::pack: live ticks follow the pending ones, in sub-tick
\* order and then by insertion
PacksBefore(a, b) == a.order < b.order \/ (a.order = b.order /\ a.id < b.id)

Packed(q) ==
    LET byOrder == InOrder(live[q], PacksBefore)
    IN  pending[q] \o [i \in DOMAIN byOrder |->
            [id |-> byOrder[i].id, key |-> byOrder[i].key,
             delay |-> byOrder[i].trigger - now, priority |-> byOrder[i].priority]]

\* ChunkTickContainer::snapshot reads queues and clock under the container's lock
Pack(k, c) ==
    /\ save[k][c] = "taken"
    /\ save' = [save EXCEPT ![k][c] = "packed"]
    /\ snap' = [snap EXCEPT ![k] = [q \in Queues |-> IF q[1] = c THEN Packed(q) ELSE @[q]]]
    /\ UNCHANGED <<containers, index, game, dirty, disk, saves, history, now, nextOrder, owed>>

\* not_yet_started, for one chunk, as saved ticks of delay zero
NotYetStarted(q) ==
    LET rest == IF step = "run" /\ kind = q[2] THEN (cursor + 1)..Len(batch) ELSE {}
        own == AtPlaces(batch, {i \in rest : batch[i].key.chunk = q[1]})
    IN  [i \in DOMAIN own |-> [id |-> own[i].id, key |-> own[i].key, delay |-> 0,
                               priority |-> own[i].priority]]

\* pending_block_ticks_in_chunk
AddBlocks(k, c) ==
    /\ save[k][c] = "packed"
    /\ save' = [save EXCEPT ![k][c] = "blocks"]
    /\ snap' = [snap EXCEPT ![k][<<c, "block">>] = @ \o NotYetStarted(<<c, "block">>)]
    /\ UNCHANGED <<containers, index, game, dirty, disk, saves, history, now, nextOrder, owed>>

\* pending_fluid_ticks_in_chunk, which completes the snapshot
AddFluids(k, c) ==
    /\ save[k][c] = "blocks"
    /\ save' = [save EXCEPT ![k][c] = "write"]
    /\ snap' = [snap EXCEPT ![k][<<c, "fluid">>] = @ \o NotYetStarted(<<c, "fluid">>)]
    /\ UNCHANGED <<containers, index, game, dirty, disk, saves, history, now, nextOrder, owed>>

\* A save of c that began after k's is over, and the chunk is clean
Outrun(k, c) == newest[c] # k /\ save[newest[c]][c] = "none" /\ ~dirty[c]

EndSave(k, c) ==
    /\ save[k][c] = "write"
    /\ save' = [save EXCEPT ![k][c] = "none"]
    /\ snap' = [snap EXCEPT ![k] = [q \in Queues |-> IF q[1] = c THEN <<>> ELSE @[q]]]

\* Mutant: the flag is cleared when the save is done
WriteAndClear(k, c) ==
    /\ EndSave(k, c)
    /\ disk' = [q \in Queues |-> IF q[1] = c THEN snap[k][q] ELSE disk[q]]
    /\ overwritten' = IF Outrun(k, c) THEN overwritten \cup {c} ELSE overwritten
    /\ dirty' = [dirty EXCEPT ![c] = FALSE]
    /\ UNCHANGED <<containers, index, game, saves, newest, lost, now, nextOrder, owed>>

\* save_chunk_data: the snapshot replaces what the file held, whichever save
\* wrote that
Write(k, c) ==
    /\ EndSave(k, c)
    /\ disk' = [q \in Queues |-> IF q[1] = c THEN snap[k][q] ELSE disk[q]]
    /\ overwritten' = IF Outrun(k, c) THEN overwritten \cup {c} ELSE overwritten
    /\ UNCHANGED <<containers, index, game, dirty, saves, newest, lost, now, nextOrder, owed>>

\* mark_chunk_dirty_for_save_retry
WriteFails(k, c) ==
    /\ EndSave(k, c)
    /\ dirty' = [dirty EXCEPT ![c] = TRUE]
    /\ UNCHANGED <<containers, index, game, disk, saves, history, now, nextOrder, owed>>

-----------------------------------------------------------------------------
NothingLoaded ==
    /\ place = [c \in Chunks |-> "none"]
    /\ pending = [q \in Queues |-> <<>>] /\ live = [q \in Queues |-> {}]
    /\ scheduled = [q \in Queues |-> {}]
    /\ head = [q \in Queues |-> NoHead] /\ deadlines = [k \in Kinds |-> {}] /\ active = <<>>
    /\ step = "idle" /\ kind = "block" /\ taken = {} /\ batch = <<>> /\ cursor = 0 /\ plan = <<>>
    /\ dirty = [c \in Chunks |-> FALSE] /\ save = [k \in Savers |-> [c \in Chunks |-> "none"]]
    /\ snap = [k \in Savers |-> [q \in Queues |-> <<>>]]
    /\ newest = [c \in Chunks |-> "pass"] /\ overwritten = {} /\ lost = {}
    /\ now \in 0..MaxTime

\* A world whose chunks are new or out of reach; scheduling into a chunk that
\* is not there has consumed some orders
NewWorld ==
    /\ NothingLoaded
    /\ lifecycle \in [Chunks -> {"absent", "outside"}]
    /\ disk = [q \in Queues |-> <<>>] /\ saves = 0
    /\ nextOrder \in 0..MaxScheduled /\ owed = {}

\* SavedTick, in the lists of one queue
SavedTicks(q) == [id : Nat, key : {key \in Keys : QueueOf(key) = q}, delay : Int,
                  priority : Priorities]

\* A world whose chunks were saved with block ticks, and are saved no more; the
\* ghost ids number the ticks
SavedWorld(lists) ==
    /\ NothingLoaded
    /\ lifecycle = [c \in Chunks |-> "finalized"]
    /\ disk = [q \in Queues |-> IF q[2] = "block" THEN lists[q[1]] ELSE <<>>]
    /\ saves = MaxSaves
    /\ owed = UNION {{t.id : t \in ToSet(lists[c])} : c \in Chunks}
    /\ nextOrder = Cardinality(owed) /\ nextOrder \in Nat /\ owed = 0..(nextOrder - 1)
    /\ \A c \in Chunks : lists[c] \in Seq(SavedTicks(<<c, "block">>))

ChunkStep ==
    \/ \E c \in Chunks : \/ NewProto(c) \/ PromoteToFull(c) \/ LoadFull(c) \/ Register(c)
                         \/ Unpack(c) \/ BeginUnloading(c) \/ Revive(c) \/ Unregister(c)
    \/ \E key \in Keys : RemovePending(key)
    \/ \E chunks \in SetToAllKPermutations(Chunks) : Reconcile(chunks)

ScheduleStep ==
    \E key \in Keys, p \in Priorities :
        \/ SchedulePending(key, p)
        \/ \E delay \in 0..MaxDelay : Schedule(key, delay, p)

GameStep ==
    \/ TickTime \/ TakeDue \/ EndCollection \/ MarkChanged \/ BeginBatch \/ EndBatch
    \/ \E c \in Chunks : DrainTurn(c)
    \/ \E changes \in BOOLEAN : RunTick(changes)

SaveStep ==
    \E k \in Savers, c \in Chunks :
        \/ TakeDirty(k, c) \/ Pack(k, c) \/ AddBlocks(k, c) \/ AddFluids(k, c)
        \/ Write(k, c) \/ WriteFails(k, c)

TickNext == ChunkStep \/ ScheduleStep \/ GameStep \/ SaveStep
TickSpec == NewWorld /\ [][TickNext]_tickVars

-----------------------------------------------------------------------------
(***************************************************************************)
(* The index of heads and deadlines is exact whenever the phase lock is    *)
(* free: a registered queue's head is its earliest deadline, and the set   *)
(* of deadlines holds the heads of the ticking chunks and nothing else.    *)
(* set_head, take_due and unregister_chunk assert parts of it; a deadline  *)
(* that is missing is a queue that never runs again.                       *)
(***************************************************************************)
DeadlinesExact ==
    PhaseFree =>
      /\ \A q \in Queues : lifecycle[q[1]] = "registered" => head[q] = HeadOf(live[q])
      /\ \A k \in Kinds : deadlines[k] =
            {<<head[<<c, k>>], c>> : c \in {d \in ActiveSet : head[<<d, k>>] # NoHead}}

(***************************************************************************)
(* A collection chooses what the module documentation says: only the heads *)
(* of the ready queues compete, by priority and sub-tick order, a tie      *)
(* stays with the queue at hand, and the limit cuts the sequence off.  The *)
(* reference repeats single choices over the queues of all ticking chunks; *)
(* the code drains runs of the queues its deadline index gives it.         *)
(***************************************************************************)
CollectsInOrder == step \in {"drained", "marked", "run"} => batch = plan

(***************************************************************************)
(* A tick that was accepted and has not started is somewhere it will be    *)
(* found: in its chunk's queues, in the batch, or, once the chunk is       *)
(* unloaded, in what was last saved of it - whichever saves raced with the *)
(* ticks that were collected, run and scheduled meanwhile, and whichever   *)
(* of them failed.  There is one exception, and the code has it: a save    *)
(* may write after a newer save of the same chunk has ended and left the   *)
(* flag clear, as the run persist_stale_save of ChunkPersistence shows.    *)
(* If that chunk is unloaded before another save of it begins, its ticks   *)
(* that the older save does not have are the ones lost.                    *)
(***************************************************************************)
OwedTicksAreKept ==
    \A id \in owed \ lost :
        \/ \E q \in Queues :
              \/ \E t \in ToSet(pending[q]) \cup live[q] : t.id = id
              \/ lifecycle[q[1]] = "finalized" /\ \E t \in ToSet(disk[q]) : t.id = id
        \/ \E i \in DOMAIN batch : batch[i].id = id
=============================================================================
