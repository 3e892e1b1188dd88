---------------------------- MODULE FullReadiness ----------------------------
(***************************************************************************)
(* Which chunks may tick (chunk/full_chunk_readiness.rs, the second half   *)
(* of chunk_map/generation_readiness.rs and commit_scheduling_epoch).      *)
(*                                                                         *)
(* A chunk ticks its blocks once it and the chunks around it are Full, and *)
(* its entities once a wider square is.  The server keeps an index of the  *)
(* Full chunks with a counter per chunk and radius, and maintains it from  *)
(* two sides: the level changes of a commit, and publications, which the   *)
(* generation threads queue when a chunk becomes Full.  The thread driving *)
(* the world first takes readiness away for what the changes will unload,  *)
(* then changes the chunks, then takes the queue and grants readiness.     *)
(***************************************************************************)
EXTENDS Integers, FiniteSets

CONSTANTS
    Positions,
    Near, Wide,     \* Near[p], Wide[p]: the squares of radius 1 and 2 around p
    BlockCount,     \* BLOCK_TICKING_FULL_COUNT
    EntityCount,    \* ENTITY_TICKING_FULL_COUNT
    LevelMaps,      \* the levels the tickets may ask for
    MaxHolders      \* bound: MaxHolders[p] holders of a position, one after the other

(* Load levels by what they allow, and simulation levels likewise.         *)
NotLoaded == 0
Loads == 1
IsFull == 2
BlockTicking == 3
EntityTicking == 4
Level == [load : NotLoaded .. EntityTicking, sim : 0 .. 2]
None == [load |-> NotLoaded, sim |-> 0]

ASSUME SquaresAssumption ==
    /\ Near \in [Positions -> SUBSET Positions] /\ Wide \in [Positions -> SUBSET Positions]
    /\ BlockCount \in Nat /\ EntityCount \in Nat
    /\ \A p \in Positions :
        /\ IsFiniteSet(Wide[p]) /\ p \in Near[p] /\ Near[p] \subseteq Wide[p]
        /\ Cardinality(Near[p]) <= BlockCount /\ Cardinality(Wide[p]) <= EntityCount
    /\ \A p, q \in Positions : (q \in Near[p] <=> p \in Near[q]) /\ (q \in Wide[p] <=> p \in Wide[q])
    /\ LevelMaps \subseteq [Positions -> Level]
    /\ MaxHolders \in [Positions -> Nat \ {0}]

(* Holders of a position are numbered; NoHolder is none.                   *)
NoHolder == 0

VARIABLES
    born,           \* holders the position has had
    chunks,         \* the active holder
    unloading,      \* the holder in unloading_chunks
    level,          \* the holder's load and simulation level
    stage,          \* how far its Full status is: made, initialized, queued
    readiness,      \* TickingReadiness: 0 Unready, 1 blocks, 2 entities
    activated,      \* its block entities are activated
    publications,   \* FullPublicationQueue::pending
    drained,        \* what the commit took from it
    contributors,   \* FullNeighborhoodIndex: the holder counted for a position
    near, wide,     \* its counters
    dirty,          \* its dirty centers
    pending,        \* its pending_readiness: the holder that may not be saved
    snapshot,       \* ticking_chunks
    rebuild,        \* the commit has to rebuild the snapshot
    held,           \* the levels the ticket manager last asked for
    deferred,       \* positions in deferred_revivals
    phase, changed, todo    \* the commit, its changes and those not yet made

holders == <<born, chunks, unloading, level, stage, activated>>
index == <<contributors, near, wide, dirty>>
queue == <<publications, drained>>
commit == <<phase, changed, todo, held, deferred>>
vars == <<holders, readiness, index, queue, pending, snapshot, rebuild, commit>>

Readiness == 0 .. 2
Exists(p) == chunks[p] # NoHolder \/ unloading[p] # NoHolder

Tickable == [pos : Positions, holder : Nat, random : BOOLEAN, entity : BOOLEAN]

TypeOK ==
    /\ born \in [Positions -> Nat]
    /\ \A p \in Positions : /\ born[p] <= MaxHolders[p]
                            /\ chunks[p] \in {NoHolder, born[p]} /\ unloading[p] \in {NoHolder, born[p]}
                            /\ chunks[p] = NoHolder \/ unloading[p] = NoHolder
    /\ level \in [Positions -> Level] /\ held \in [Positions -> Level]
    /\ stage \in [Positions -> {"Making", "Initialized", "Queued"}]
    /\ readiness \in [Positions -> Readiness]
    /\ activated \in [Positions -> BOOLEAN] /\ rebuild \in BOOLEAN
    /\ publications \subseteq Positions \X Nat
    /\ drained \subseteq Positions \X Nat
    /\ contributors \in [Positions -> Nat] /\ pending \in [Positions -> Nat]
    /\ near \in [Positions -> 0 .. BlockCount] /\ wide \in [Positions -> 0 .. EntityCount]
    /\ snapshot \subseteq Tickable
    /\ dirty \subseteq Positions /\ deferred \subseteq Positions
    /\ todo \subseteq changed /\ changed \subseteq Positions
    /\ phase \in {"Idle", "Committing", "Draining"}

Zero == [p \in Positions |-> 0]

Init ==
    /\ born = Zero /\ chunks = Zero /\ unloading = Zero
    /\ level = [p \in Positions |-> None] /\ held = level
    /\ stage = [p \in Positions |-> "Making"]
    /\ readiness = Zero /\ activated = [p \in Positions |-> FALSE]
    /\ publications = {} /\ drained = {}
    /\ contributors = Zero /\ near = Zero /\ wide = Zero /\ dirty = {} /\ pending = Zero
    /\ snapshot = {} /\ rebuild = FALSE /\ deferred = {}
    /\ phase = "Idle" /\ changed = {} /\ todo = {}

-----------------------------------------------------------------------------
(* Generation threads: the end of a step or a load gives the holder, which *)
(* may be unloading by now, its Full status (publish_full) ...             *)
Initialize(p) ==
    /\ Exists(p) /\ stage[p] = "Making"
    /\ stage' = [stage EXCEPT ![p] = "Initialized"]
    /\ UNCHANGED <<born, chunks, unloading, level, activated, readiness, index, queue, pending,
                   snapshot, rebuild, commit>>

(* ... and then tells the map.                                             *)
QueuePublication(p) ==
    /\ stage[p] = "Initialized"
    /\ stage' = [stage EXCEPT ![p] = "Queued"]
    /\ publications' = publications \cup {<<p, born[p]>>}
    /\ UNCHANGED <<born, chunks, unloading, level, activated, readiness, index, drained, pending,
                   snapshot, rebuild, commit>>

(* process_unloads, in the background between two commits: the holder is   *)
(* gone.  A generation thread still at work on it keeps it.                *)
Finalize(p) ==
    /\ phase = "Idle" /\ unloading[p] # NoHolder /\ stage[p] # "Initialized"
    /\ p \notin deferred /\ born[p] < MaxHolders[p]
    /\ unloading' = [unloading EXCEPT ![p] = NoHolder]
    /\ UNCHANGED <<born, chunks, level, stage, activated, readiness, index, queue, pending,
                   snapshot, rebuild, commit>>

-----------------------------------------------------------------------------
(* current_full_contributor and validate_full_publication ask the same of  *)
(* the active holder.                                                      *)
Contributes(p) == chunks[p] # NoHolder /\ level[p].load >= IsFull /\ stage[p] # "Making"

(* reconcile_contributor and remove_contributor_if_matches: `gone` leave   *)
(* the index and `new` enter it.  Each moves the counters of the squares   *)
(* around it.                                                              *)
Around(square, q, S) == Cardinality({p \in S : q \in square[p]})

(* Mutant of MovedCounts: a contributor that leaves is not subtracted.     *)
CountsOfArrivals(counts, square, gone, new) ==
    [q \in Positions |-> counts[q] + Around(square, q, new)]

MovedCounts(counts, square, gone, new) ==
    [q \in Positions |-> counts[q] - Around(square, q, gone) + Around(square, q, new)]

(* Mutant of Centers: only the chunk itself is looked at again.            *)
OwnCenters(S) == S

Centers(S) == UNION {Wide[p] : p \in S}

(* desired_ticking_readiness and target_ticking_readiness, for a level     *)
(* that may not be the holder's yet.                                       *)
Desired(load) == IF load >= EntityTicking THEN 2 ELSE IF load >= BlockTicking THEN 1 ELSE 0

Target(p, load, nearCount, wideCount) ==
    IF stage[p] = "Making" THEN 0
    ELSE IF load >= EntityTicking /\ wideCount = EntityCount THEN 2
    ELSE IF load >= BlockTicking /\ nearCount = BlockCount THEN 1
    ELSE 0

(* ticking_snapshot_membership.                                            *)
Membership(ready, sim) ==
    [block |-> sim >= 1 /\ ready # 0, random |-> sim = 2 /\ ready # 0, entity |-> sim = 2 /\ ready = 2]

(* update_pending_readiness.                                               *)
UpdatedPending(candidates, ready, load) ==
    [p \in Positions |-> IF p \notin candidates THEN pending[p]
                         ELSE IF ready[p] < Desired(load[p]) THEN chunks[p] ELSE NoHolder]

(* Mutant of Demoted: readiness is taken away after the chunks changed.    *)
DemotedLater(current, target) == current

(* apply_readiness_demotions, for one candidate.                           *)
Demoted(current, target) == IF current <= target THEN current ELSE target

-----------------------------------------------------------------------------
(* Mutant of Leaving: only a chunk that is unloaded leaves the index.      *)
LeavingUnloaded(changes, new) ==
    {p \in changes : new[p].load = NotLoaded /\ contributors[p] # NoHolder
                                             /\ contributors[p] = chunks[p]}

(* The contributors whose new level is no full one; a holder other than    *)
(* the one counted would be an error.                                      *)
Leaving(changes, new) ==
    {p \in changes : new[p].load < IsFull /\ contributors[p] # NoHolder
                                          /\ contributors[p] = chunks[p]}

(* Mutant of SimulationChanges: only readiness is believed to matter.      *)
NoSimulationChanges(changes, new) == FALSE

(* simulation_changes_ticking_snapshot.                                    *)
SimulationChanges(changes, new) ==
    \E p \in changes : chunks[p] # NoHolder
        /\ Membership(readiness[p], level[p].sim) # Membership(readiness[p], new[p].sim)

(* The start of commit_scheduling_epoch: merge_deferred_revivals, then     *)
(* simulation_changes_ticking_snapshot and                                 *)
(* prepare_ticking_readiness_demotions, before any chunk changes.          *)
Prepare(new) ==
    LET changes == {p \in Positions : new[p] # held[p]} \cup deferred
        leaving == Leaving(changes, new)
        touched == Centers(leaving) \cup changes
        candidates == {p \in touched : chunks[p] # NoHolder}
        load == [p \in Positions |-> IF p \in changes THEN new[p].load ELSE level[p].load]
        ready == [p \in Positions |->
                    IF p \in candidates
                    THEN Demoted(readiness[p], Target(p, load[p], near'[p], wide'[p]))
                    ELSE readiness[p]]
    IN  /\ phase = "Idle"
        /\ phase' = "Committing" /\ changed' = changes /\ todo' = changes
        /\ held' = new /\ deferred' = {}
        /\ contributors' = [p \in Positions |-> IF p \in leaving THEN NoHolder ELSE contributors[p]]
        /\ near' = MovedCounts(near, Near, leaving, {})
        /\ wide' = MovedCounts(wide, Wide, leaving, {})
        /\ dirty' = touched
        /\ readiness' = ready
        /\ pending' = UpdatedPending(candidates, ready, load)
        /\ rebuild' = \/ SimulationChanges(changes, new)
                      \/ \E p \in candidates :
                            Membership(readiness[p], level[p].sim) # Membership(ready[p], level[p].sim)
        /\ UNCHANGED <<holders, queue, snapshot>>

(* update_chunk_level for one change.                                      *)
Change(p) == phase = "Committing" /\ p \in todo /\ todo' = todo \ {p}

(* A chunk that is Full already is published again when it comes up to a   *)
(* full level (mutant: it is not).                                         *)
RepublishedNever(p, old) == publications

Republished(p, old) ==
    IF held[p].load >= IsFull /\ old < IsFull /\ stage[p] # "Making"
    THEN publications \cup {<<p, born[p]>>} ELSE publications

Relevel(p) ==
    /\ Change(p)
    /\ chunks[p] # NoHolder /\ held[p].load # NotLoaded
    /\ level' = [level EXCEPT ![p] = held[p]]
    /\ publications' = Republished(p, level[p].load)
    /\ UNCHANGED <<born, chunks, unloading, stage, activated, readiness, index, drained, pending,
                   snapshot, rebuild, phase, changed, held, deferred>>

Unload(p) ==
    /\ Change(p)
    /\ chunks[p] # NoHolder /\ held[p].load = NotLoaded
    /\ chunks' = [chunks EXCEPT ![p] = NoHolder]
    /\ unloading' = [unloading EXCEPT ![p] = chunks[p]]
    /\ level' = [level EXCEPT ![p] = None]
    /\ activated' = [activated EXCEPT ![p] = FALSE]
    /\ UNCHANGED <<born, stage, readiness, index, queue, pending, snapshot, rebuild, phase, changed,
                   held, deferred>>

Revive(p) ==
    /\ Change(p)
    /\ unloading[p] # NoHolder /\ held[p].load # NotLoaded
    /\ chunks' = [chunks EXCEPT ![p] = unloading[p]]
    /\ unloading' = [unloading EXCEPT ![p] = NoHolder]
    /\ level' = [level EXCEPT ![p] = held[p]]
    /\ publications' = Republished(p, NotLoaded)
    /\ UNCHANGED <<born, stage, activated, readiness, index, drained, pending, snapshot, rebuild,
                   phase, changed, held, deferred>>

(* A save is being prepared from the unloading holder: the change waits    *)
(* for a later commit.                                                     *)
Defer(p) ==
    /\ Change(p)
    /\ unloading[p] # NoHolder /\ held[p].load # NotLoaded
    /\ deferred' = deferred \cup {p}
    /\ UNCHANGED <<holders, readiness, index, queue, pending, snapshot, rebuild, phase, changed, held>>

Create(p) ==
    /\ Change(p)
    /\ ~ Exists(p) /\ held[p].load # NotLoaded
    /\ born' = [born EXCEPT ![p] = @ + 1]
    /\ chunks' = [chunks EXCEPT ![p] = born[p] + 1]
    /\ level' = [level EXCEPT ![p] = held[p]]
    /\ stage' = [stage EXCEPT ![p] = "Making"]
    /\ readiness' = [readiness EXCEPT ![p] = 0]
    /\ activated' = [activated EXCEPT ![p] = FALSE]
    /\ UNCHANGED <<unloading, index, queue, pending, snapshot, rebuild, phase, changed, held, deferred>>

Skip(p) ==
    /\ Change(p)
    /\ chunks[p] = NoHolder /\ held[p].load = NotLoaded
    /\ UNCHANGED <<holders, readiness, index, queue, pending, snapshot, rebuild, phase, changed,
                   held, deferred>>

(* reconcile_ticking_readiness_measured takes the publications first ...   *)
Drain ==
    /\ phase = "Committing" /\ todo = {}
    /\ phase' = "Draining"
    /\ drained' = publications /\ publications' = {}
    /\ UNCHANGED <<holders, readiness, index, pending, snapshot, rebuild, changed, todo, held, deferred>>

(* What rebuild_ticking_chunk_snapshot makes of the map.                   *)
Ticking(ready) ==
    {[pos |-> p, holder |-> chunks[p], random |-> Membership(ready[p], level[p].sim).random,
      entity |-> Membership(ready[p], level[p].sim).entity] :
        p \in {q \in Positions : chunks[q] # NoHolder /\ stage[q] # "Making"
                                 /\ Membership(ready[q], level[q].sim).block}}

(* apply_final_readiness: promotions and demotions, with the new counts.   *)
FinalReadiness(candidates) ==
    [p \in Positions |-> IF p \in candidates THEN Target(p, level[p].load, near'[p], wide'[p])
                         ELSE readiness[p]]

(* ... then looks at the chunks: contributors of the changed positions and *)
(* of the valid publications enter or leave the index, the published ones  *)
(* have their block entities activated, apply_final_readiness runs on the  *)
(* dirty centers, and the snapshot is rebuilt if it has to be.             *)
Reconcile ==
    LET published == {p \in Positions : chunks[p] # NoHolder /\ <<p, chunks[p]>> \in drained
                                        /\ Contributes(p)}
        looked == changed \cup published
        current == [p \in Positions |-> IF Contributes(p) THEN chunks[p] ELSE NoHolder]
        moved == {p \in looked : current[p] # contributors[p]}
        gone == {p \in moved : contributors[p] # NoHolder}
        new == {p \in moved : current[p] # NoHolder}
        touched == IF drained = {} /\ changed = {} THEN {} ELSE dirty \cup changed \cup Centers(moved)
        candidates == {p \in touched : chunks[p] # NoHolder}
        load == [p \in Positions |-> level[p].load]
        ready == FinalReadiness(candidates)
        stale == \E p \in candidates :
                    Membership(readiness[p], level[p].sim) # Membership(ready[p], level[p].sim)
    IN  /\ phase = "Draining"
        /\ phase' = "Idle" /\ changed' = {} /\ drained' = {} /\ dirty' = {}
        /\ contributors' = [p \in Positions |-> IF p \in looked THEN current[p] ELSE contributors[p]]
        /\ near' = MovedCounts(near, Near, gone, new)
        /\ wide' = MovedCounts(wide, Wide, gone, new)
        /\ activated' = [p \in Positions |-> activated[p] \/ p \in published]
        /\ readiness' = ready
        /\ pending' = UpdatedPending(candidates, ready, load)
        /\ snapshot' = IF rebuild \/ stale THEN Ticking(ready) ELSE snapshot
        /\ rebuild' = FALSE
        /\ UNCHANGED <<born, chunks, unloading, level, stage, publications, todo, held, deferred>>

-----------------------------------------------------------------------------
Generation == \E p \in Positions : Initialize(p) \/ QueuePublication(p) \/ Finalize(p)

Lifecycle ==
    \E p \in Positions : Relevel(p) \/ Unload(p) \/ Revive(p) \/ Defer(p) \/ Create(p) \/ Skip(p)

Next == Generation \/ (\E new \in LevelMaps : Prepare(new)) \/ Lifecycle \/ Drain \/ Reconcile

Spec == Init /\ [][Next]_vars

-----------------------------------------------------------------------------
(* A chunk ticks only with the square around it Full and held at a full    *)
(* level: in every state, also between two level changes of one commit     *)
(* that unloads part of the square.                                        *)
TickersHaveNeighbours ==
    \A p \in Positions :
        /\ readiness[p] >= 1 => \A q \in Near[p] : Contributes(q)
        /\ readiness[p] = 2 => \A q \in Wide[p] : Contributes(q)

(* The index never counts a holder that was replaced or is no longer Full, *)
(* and its counters are those of its contributors: the error paths that    *)
(* revoke all readiness and rebuild the index stay unused.                 *)
IndexIsSound ==
    \A p \in Positions :
        /\ contributors[p] # NoHolder => contributors[p] = chunks[p] /\ Contributes(p)
        /\ near[p] = Cardinality({q \in Near[p] : contributors[q] # NoHolder})
        /\ wide[p] = Cardinality({q \in Wide[p] : contributors[q] # NoHolder})

(* Between two commits, when every publication has been taken, the         *)
(* incremental index has left nobody behind: readiness, activation and the *)
(* save dependency are what rebuild_ticking_readiness would compute.       *)
Settled == phase = "Idle" /\ publications = {} /\ \A p \in Positions : Exists(p) => stage[p] # "Initialized"

RebuiltReadiness(p) ==
    Target(p, level[p].load, Cardinality({q \in Near[p] : Contributes(q)}),
           Cardinality({q \in Wide[p] : Contributes(q)}))

NobodyLeftBehind ==
    Settled => \A p \in Positions :
        /\ chunks[p] # NoHolder => readiness[p] = RebuiltReadiness(p)
        /\ Contributes(p) => activated[p]
        /\ pending[p] = IF readiness[p] < Desired(level[p].load) THEN chunks[p] ELSE NoHolder

(* The list the game loop ticks from, rebuilt only when a commit believes  *)
(* that it changed, is at every tick what a rebuild would give.            *)
SnapshotIsCurrent == phase = "Idle" => snapshot = Ticking(readiness)
=============================================================================
