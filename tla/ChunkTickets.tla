---------------------------- MODULE ChunkTickets ----------------------------
(***************************************************************************)
(* From a ticket to a chunk's level (chunk/chunk_scheduler.rs,             *)
(* chunk_request.rs, chunk_ticket_manager.rs and the parts of chunk_map    *)
(* that own tickets).                                                      *)
(*                                                                         *)
(* Gameplay threads queue ticket operations under a short lock; a batch    *)
(* gets one revision.  A background epoch takes the queue, applies it to   *)
(* the ticket manager, which only that epoch owns, and computes the level  *)
(* changes.  The thread driving the world commits a prepared epoch between *)
(* two ticks, chunk by chunk, publishes the epoch's revision and starts    *)
(* the next one.  Three kinds of owners hold tickets: requests, which wait *)
(* for their revision; players, whose ticket follows their view; and timed *)
(* tickets, which gameplay refreshes and a countdown removes.              *)
(*                                                                         *)
(* `held` is what the boundary last asked of a position.  A chunk whose    *)
(* old holder is still being saved gets there later: see ChunkPersistence. *)
(***************************************************************************)
EXTENDS TicketLevels, Sequences, FiniteSets

CONSTANTS
    Requests,       \* request handles
    Asks,           \* Asks[r]: the positions r names
    RequestTicket,  \* ChunkTicket::loading(level of the requested status)
    Players,
    Views,          \* pairs <<center, ticket>> a player may have
    Kinds,          \* kinds of timed tickets
    TimedTicket,    \* TimedTicket[k]: the ticket of kind k
    Timeout,        \* Timeout[k]: its countdown, in ticks
    SpawnKind,      \* the kind whose countdown never ends (i64::MAX)
    Places,         \* where gameplay places timed tickets
    MaxRevision     \* bound: batches submitted

(* No view; a request that holds no ticket waits for no revision.          *)
NoView == <<>>
Inactive == 0

(* Which sources a request, a view and a timed ticket stand for.           *)
RequestSources(r) == {<<p, RequestTicket>> : p \in Asks[r]}
TimedSource(e) == <<e[2], TimedTicket[e[1]]>>

Entries == Kinds \X Places

ASSUME OwnersAssumption ==
    /\ IsFiniteSet(Requests) /\ IsFiniteSet(Players) /\ IsFiniteSet(Entries)
    /\ \A r \in Requests : RequestSources(r) \subseteq Sources
    /\ Views \subseteq Sources
    /\ Places \subseteq Positions
    /\ Timeout \in [Kinds -> Nat]
    /\ SpawnKind \in Kinds
    /\ \A k \in Kinds : TimedTicket[k] \in Tickets
    /\ \A k, l \in Kinds : TimedTicket[k] = TimedTicket[l] => k = l
    /\ MaxRevision \in Nat

VARIABLES
    requests,       \* the revision each active request waits for
    views,          \* each player's last tracking view
    timed,          \* countdown of each timed ticket that exists
    operations,     \* PendingChunkTicketOperations::operations, by batch
    nextRevision,
    phase,          \* where the coordinator and the epoch stand
    taken,          \* what the running epoch took from the queue
    tickets,        \* ChunkTicketManager::tickets
    levels,         \* its load and simulation levels
    dirty,
    applied,        \* the epoch's applied_revision
    changes,        \* the epoch's change list
    held,           \* the levels committed to the chunk map
    committed,      \* committed_revision
    asked,          \* history: asked[r + 1] are the tickets of the first r batches
    wanted          \* history: wanted[r + 1] are the levels they ask for

owners == <<requests, views, timed>>
queue == <<operations, nextRevision, asked, wanted>>
manager == <<tickets, levels, dirty, applied, changes, taken>>
vars == <<owners, queue, phase, manager, held, committed>>

Batch == [add : SUBSET Sources, remove : SUBSET Sources]

TypeOK ==
    /\ requests \in [Requests -> Inactive .. MaxRevision]
    /\ views \in [Players -> {NoView} \cup Views]
    /\ DOMAIN timed \subseteq Entries
    /\ \A e \in DOMAIN timed : timed[e] \in 0 .. Timeout[e[1]]
    /\ nextRevision \in 0 .. MaxRevision
    /\ \A i \in DOMAIN operations : operations[i].batch \in Batch
    /\ \A i \in DOMAIN taken : taken[i].batch \in Batch
    /\ phase \in {"Idle", "Spawned", "Applying", "Ready", "Committing"}
    /\ tickets \in [Sources -> Nat]
    /\ levels \in [Positions -> Level] /\ held \in [Positions -> Level]
    /\ dirty \in BOOLEAN
    /\ applied \in 0 .. nextRevision /\ committed \in 0 .. applied
    /\ changes \subseteq [pos : Positions, level : Level]

(* A restart restores the timed tickets and activates them in the manager  *)
(* before the coordinator exists; everything else starts empty.            *)
Init ==
    /\ requests = [r \in Requests |-> Inactive]
    /\ views = [u \in Players |-> NoView]
    /\ \E restored \in SUBSET Entries :
        /\ timed = [e \in restored |-> Timeout[e[1]]]
        /\ tickets = [s \in Sources |-> Cardinality({e \in restored : TimedSource(e) = s})]
        /\ dirty = (restored # {})
    /\ operations = <<>> /\ nextRevision = 0 /\ asked = <<tickets>> /\ wanted = <<Levels(tickets)>>
    /\ phase = "Idle" /\ taken = <<>>
    /\ levels = Unloaded /\ held = Unloaded
    /\ applied = 0 /\ committed = 0 /\ changes = {}

-----------------------------------------------------------------------------
(* queue_ticket_operation and queue_ticket_operations: one revision for    *)
(* the batch.                                                              *)
Submit(batch) ==
    /\ nextRevision < MaxRevision
    /\ nextRevision' = nextRevision + 1
    /\ operations' = Append(operations, [revision |-> nextRevision + 1, batch |-> batch])
    /\ asked' = Append(asked, Apply(asked[nextRevision + 1], batch))
    /\ wanted' = Append(wanted, Levels(asked'[nextRevision + 2]))
    /\ UNCHANGED <<phase, manager, held, committed>>

NothingSubmitted == UNCHANGED <<queue, phase, manager, held, committed>>

(* ChunkRequestHandle::new and cancel or drop.                             *)
Request(r) ==
    /\ requests[r] = Inactive
    /\ Submit([add |-> RequestSources(r), remove |-> {}])
    /\ requests' = [requests EXCEPT ![r] = nextRevision + 1]
    /\ UNCHANGED <<views, timed>>

Release(r) ==
    /\ requests[r] # Inactive
    /\ Submit([add |-> {}, remove |-> RequestSources(r)])
    /\ requests' = [requests EXCEPT ![r] = Inactive]
    /\ UNCHANGED <<views, timed>>

(* update_player_status with a new view: the first one adds a ticket, a    *)
(* later one replaces it in one batch.                                     *)
UpdateView(u, v) ==
    /\ views[u] # v
    /\ Submit([add |-> {v}, remove |-> IF views[u] = NoView THEN {} ELSE {views[u]}])
    /\ views' = [views EXCEPT ![u] = v]
    /\ UNCHANGED <<requests, timed>>

RemovePlayer(u) ==
    /\ views[u] # NoView
    /\ Submit([add |-> {}, remove |-> {views[u]}])
    /\ views' = [views EXCEPT ![u] = NoView]
    /\ UNCHANGED <<requests, timed>>

(* Mutant of PlaceTimed: a refreshed ticket is queued again.               *)
PlaceTimedStacking(e) ==
    /\ timed' = [f \in DOMAIN timed \cup {e} |-> IF f = e THEN Timeout[e[1]] ELSE timed[f]]
    /\ Submit([add |-> {TimedSource(e)}, remove |-> {}])
    /\ UNCHANGED <<requests, views>>

(* place_portal_ticket, place_spawn_ticket and place_ender_pearl_ticket:   *)
(* add_or_reset, and the operation is queued with the timed tickets still  *)
(* locked.                                                                 *)
PlaceTimed(e) ==
    /\ timed' = [f \in DOMAIN timed \cup {e} |-> IF f = e THEN Timeout[e[1]] ELSE timed[f]]
    /\ \/ e \in DOMAIN timed /\ NothingSubmitted
       \/ e \notin DOMAIN timed /\ Submit([add |-> {TimedSource(e)}, remove |-> {}])
    /\ UNCHANGED <<requests, views>>

Without(gone) == [e \in DOMAIN timed \ gone |-> timed[e]]

RemoveSpawn(p) ==
    /\ <<SpawnKind, p>> \in DOMAIN timed
    /\ timed' = Without({<<SpawnKind, p>>})
    /\ Submit([add |-> {}, remove |-> {TimedSource(<<SpawnKind, p>>)}])
    /\ UNCHANGED <<requests, views>>

(* Mutant of Expired: the countdown is checked before it is decremented.   *)
ExpiredLate(aging) == {e \in aging : timed[e] < 0}

Expired(aging) == {e \in aging : timed[e] = 0}

(* tick_timed_tickets: a ticket ages unless the chunk under it has a save  *)
(* dependency (`busy`), and the expired ones go in one batch.              *)
Tick(busy) ==
    LET aging == {e \in DOMAIN timed : e[1] # SpawnKind /\ e[2] \notin busy}
        gone == Expired(aging)
        left == [e \in DOMAIN timed \ gone |-> IF e \in aging THEN timed[e] - 1 ELSE timed[e]]
    IN  /\ aging # {}
        /\ timed' = left
        /\ \/ gone = {} /\ NothingSubmitted
           \/ gone # {} /\ Submit([add |-> {}, remove |-> {TimedSource(e) : e \in gone}])
        /\ UNCHANGED <<requests, views>>

-----------------------------------------------------------------------------
(* advance_scheduling on an idle coordinator: the first epoch starts.      *)
StartEpoch ==
    /\ phase = "Idle"
    /\ phase' = "Spawned"
    /\ UNCHANGED <<owners, queue, manager, held, committed>>

(* apply_pending_ticket_operations: take the queue ...                     *)
TakePending ==
    /\ phase = "Spawned"
    /\ phase' = "Applying"
    /\ taken' = operations /\ operations' = <<>>
    /\ UNCHANGED <<owners, nextRevision, asked, wanted, tickets, levels, dirty, applied, changes,
                   held, committed>>

(* Mutant of ApplyNext: the revision is not advanced.                      *)
ApplyUncounted ==
    /\ phase = "Applying" /\ taken # <<>>
    /\ tickets' = Apply(tickets, Head(taken).batch)
    /\ dirty' = (dirty \/ tickets' # tickets)
    /\ taken' = Tail(taken)
    /\ UNCHANGED <<owners, queue, phase, levels, applied, changes, held, committed>>

(* ... and apply it in the order of submission.                            *)
ApplyNext ==
    /\ phase = "Applying" /\ taken # <<>>
    /\ tickets' = Apply(tickets, Head(taken).batch)
    /\ dirty' = (dirty \/ tickets' # tickets)
    /\ applied' = Head(taken).revision
    /\ taken' = Tail(taken)
    /\ UNCHANGED <<owners, queue, phase, levels, changes, held, committed>>

(* run_all_updates and take_changes, then finish_epoch.                    *)
FinishEpoch ==
    /\ phase = "Applying" /\ taken = <<>>
    /\ phase' = "Ready" /\ dirty' = FALSE
    /\ levels' = IF dirty THEN Levels(tickets) ELSE levels
    /\ changes' = IF dirty THEN Changes(levels, Levels(tickets)) ELSE {}
    /\ UNCHANGED <<owners, queue, tickets, applied, taken, held, committed>>

(* advance_scheduling on a prepared epoch: commit_scheduling_epoch, one    *)
(* chunk at a time, and the revision last.                                 *)
BeginCommit ==
    /\ phase = "Ready"
    /\ phase' = "Committing"
    /\ UNCHANGED <<owners, queue, manager, held, committed>>

CommitChunk ==
    /\ phase = "Committing"
    /\ \E c \in changes :
        /\ held' = [held EXCEPT ![c.pos] = c.level]
        /\ changes' = changes \ {c}
    /\ UNCHANGED <<owners, queue, phase, tickets, levels, dirty, applied, taken, committed>>

(* Mutants of Publish: the newest revision is published instead of the     *)
(* applied one; the revision is published before the chunks follow.        *)
PublishNewest ==
    /\ phase = "Committing" /\ changes = {}
    /\ committed' = nextRevision
    /\ phase' = "Spawned"
    /\ UNCHANGED <<owners, queue, manager, held>>

PublishFirst ==
    /\ phase = "Committing" /\ (changes = {} \/ committed # applied)
    /\ committed' = applied
    /\ phase' = IF changes = {} THEN "Spawned" ELSE phase
    /\ UNCHANGED <<owners, queue, manager, held>>

Publish ==
    /\ phase = "Committing" /\ changes = {}
    /\ committed' = applied
    /\ phase' = "Spawned"
    /\ UNCHANGED <<owners, queue, manager, held>>

-----------------------------------------------------------------------------
Loaded == {p \in Positions : held[p].load # NoLevel}

OwnerStep ==
    \/ \E r \in Requests : Request(r) \/ Release(r)
    \/ \E u \in Players : RemovePlayer(u) \/ (\E v \in Views : UpdateView(u, v))
    \/ \E e \in Entries : PlaceTimed(e)
    \/ \E p \in Places : RemoveSpawn(p)
    \/ \E busy \in SUBSET Loaded : Tick(busy)

Boundary == StartEpoch \/ BeginCommit \/ CommitChunk \/ Publish
Epoch == TakePending \/ ApplyNext \/ FinishEpoch

Next == OwnerStep \/ Boundary \/ Epoch

Spec == Init /\ [][Next]_vars

(* The world's thread calls advance_scheduling at every boundary, and the  *)
(* chunk runtime runs the epoch it spawned.                                *)
FairSpec == Spec /\ WF_vars(Boundary) /\ WF_vars(Epoch)

-----------------------------------------------------------------------------
(* Every ticket has its owner and every owner its ticket, once the queue   *)
(* is applied: placing, refreshing, expiring, moving a view and dropping a *)
(* handle neither leak a ticket nor remove one somebody else holds, also   *)
(* where two owners use the same ticket at the same position.              *)
Owners(s) ==
    Cardinality({r \in Requests : requests[r] # Inactive /\ s \in RequestSources(r)})
    + Cardinality({u \in Players : views[u] = s})
    + Cardinality({e \in DOMAIN timed : TimedSource(e) = s})

TicketsHaveOwners == \A s \in Sources : asked[nextRevision + 1][s] = Owners(s)

(* ChunkRequestHandle::poll: once the request's revision is committed the  *)
(* chunks it names are held at its level or better, also in the middle of  *)
(* a later commit, until the handle lets go.                               *)
RequestedStaysLoaded ==
    \A r \in Requests : requests[r] # Inactive /\ requests[r] <= committed =>
        \A p \in Asks[r] : held[p].load <= RequestTicket.load

(* Chunk scheduling implements TicketLog: the levels of the chunks follow  *)
(* the submissions in order, although the queue, the epoch, the change     *)
(* list and the commit each handle only a part, and a revision is          *)
(* published only when every chunk has what it asked for.                  *)
Log == INSTANCE TicketLog WITH
    LevelMaps <- [Positions -> Level],
    NothingHeld <- Unloaded,
    target <- IF phase = "Committing" THEN applied ELSE committed

ImplementsLog == Log!Spec

(* Every submitted batch is committed in the end, whatever else is queued  *)
(* while its epoch runs.                                                   *)
EverySubmissionCommits ==
    \A r \in 1 .. MaxRevision : nextRevision >= r ~> committed >= r
=============================================================================
