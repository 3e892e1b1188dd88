------------------------- MODULE FullReadinessProofs -------------------------
(***************************************************************************)
(* Proofs about FullReadiness, for any chunks, squares, counts and levels. *)
(*                                                                         *)
(* That a ticking chunk has its square is not inductive by itself: the     *)
(* index has to be sound, the counters exact, and while the commit changes *)
(* chunk after chunk, the preparation must already have taken from the     *)
(* index and from readiness what the remaining changes will unload.        *)
(***************************************************************************)
EXTENDS FullReadiness, FiniteSetTheorems, TLAPS

HoldersInv ==
    /\ born \in [Positions -> Nat] /\ chunks \in [Positions -> Nat]
    /\ unloading \in [Positions -> Nat]
    /\ \A p \in Positions :
        /\ chunks[p] \in {NoHolder, born[p]} /\ unloading[p] \in {NoHolder, born[p]}
        /\ chunks[p] = NoHolder \/ unloading[p] = NoHolder
        /\ born[p] <= MaxHolders[p]
        /\ ~ Exists(p) => born[p] < MaxHolders[p]
    /\ level \in [Positions -> Level] /\ held \in [Positions -> Level]
    /\ stage \in [Positions -> {"Making", "Initialized", "Queued"}]
    /\ activated \in [Positions -> BOOLEAN]

CommitTypes ==
    /\ publications \subseteq Positions \X Nat /\ drained \subseteq Positions \X Nat
    /\ pending \in [Positions -> Nat] /\ rebuild \in BOOLEAN /\ snapshot \subseteq Tickable
    /\ dirty \subseteq Positions /\ deferred \subseteq Positions
    /\ todo \subseteq changed /\ changed \subseteq Positions
    /\ phase \in {"Idle", "Committing", "Draining"}

CountsInv ==
    /\ contributors \in [Positions -> Nat]
    /\ near \in [Positions -> Int] /\ wide \in [Positions -> Int]
    /\ \A p \in Positions :
        /\ near[p] = Cardinality({q \in Near[p] : contributors[q] # NoHolder})
        /\ wide[p] = Cardinality({q \in Wide[p] : contributors[q] # NoHolder})

ContributorsInv ==
    \A p \in Positions : contributors[p] # NoHolder => contributors[p] = chunks[p] /\ Contributes(p)

PreparedInv ==
    phase = "Committing" => \A p \in todo :
        /\ held[p].load < IsFull => contributors[p] = NoHolder
        /\ held[p].load = NotLoaded => readiness[p] = 0

DrainedInv == phase = "Draining" => todo = {}

TickInv ==
    /\ readiness \in [Positions -> Readiness]
    /\ \A p \in Positions :
        /\ chunks[p] = NoHolder => readiness[p] = 0
        /\ readiness[p] >= 1 => \A q \in Near[p] : contributors[q] # NoHolder
        /\ readiness[p] = 2 => \A q \in Wide[p] : contributors[q] # NoHolder

ReadyInv ==
    HoldersInv /\ CommitTypes /\ CountsInv /\ ContributorsInv /\ PreparedInv /\ DrainedInv
    /\ TickInv

-----------------------------------------------------------------------------
(* Counting.                                                               *)

LEMMA SquareFinite ==
    ASSUME NEW p \in Positions
    PROVE  /\ IsFiniteSet(Near[p]) /\ IsFiniteSet(Wide[p])
           /\ Near[p] \subseteq Positions /\ Wide[p] \subseteq Positions
  <1>1. IsFiniteSet(Wide[p]) /\ Near[p] \in SUBSET Wide[p]
    BY SquaresAssumption
  <1>2. IsFiniteSet(Near[p])
    BY <1>1, FS_Subset
  <1> QED  BY <1>1, <1>2, SquaresAssumption

(* Adding and subtracting what enters and leaves gives the new count.      *)
LEMMA CountMoves ==
    ASSUME NEW square \in {Near, Wide}, NEW q \in Positions, NEW C \in SUBSET Positions,
           NEW gone \in SUBSET C, NEW new \in SUBSET (Positions \ C)
    PROVE  /\ Cardinality(square[q] \cap C) - Around(square, q, gone) + Around(square, q, new)
                = Cardinality(square[q] \cap ((C \ gone) \cup new))
           /\ Cardinality(square[q] \cap ((C \ gone) \cup new)) \in Nat
  <1>0. IsFiniteSet(square[q]) /\ \A p \in Positions : q \in square[p] <=> p \in square[q]
    BY SquareFinite, SquaresAssumption
  <1> DEFINE D == (C \ gone) \cup new
             A == (square[q] \cap C)
             G == {p \in gone : q \in square[p]}
             N == {p \in new : q \in square[p]}
             B == (square[q] \cap D)
  <1>1. G \subseteq A /\ N \cap A = {} /\ N \subseteq square[q]
    BY <1>0
  <1>2. B = (A \ G) \cup N
    BY <1>0
  <1>3. A \in SUBSET square[q] /\ G \in SUBSET square[q] /\ N \in SUBSET square[q]
        /\ B \in SUBSET square[q]
    BY <1>1
  <1>4. IsFiniteSet(A) /\ IsFiniteSet(G) /\ IsFiniteSet(N) /\ IsFiniteSet(B)
    BY <1>0, <1>3, FS_Subset
  <1> HIDE DEF A, G, N, B
  <1>5. /\ Cardinality(A) \in Nat /\ Cardinality(G) \in Nat /\ Cardinality(N) \in Nat
        /\ Cardinality(B) \in Nat
    BY <1>4, FS_CardinalityType
  <1>6. IsFiniteSet(A \ G) /\ Cardinality(A \ G) = Cardinality(A) - Cardinality(G)
    <2>1. A \cap G = G
      BY <1>1
    <2> QED  BY <1>4, <2>1, FS_Difference
  <1>7. Cardinality(B) = Cardinality(A \ G) + Cardinality(N)
    <2>1. (A \ G) \cap N = {}
      BY <1>1
    <2>2. Cardinality((A \ G) \cup N) = Cardinality(A \ G) + Cardinality(N) - Cardinality((A \ G) \cap N)
      BY <1>4, <1>6, FS_Union
    <2>3. Cardinality({}) = 0
      BY FS_EmptySet
    <2>4. Cardinality((A \ G) \cap N) = 0
      BY <2>1, <2>3
    <2>5. Cardinality(A \ G) \in Int
      BY <1>5, <1>6
    <2>6. Cardinality((A \ G) \cup N) = Cardinality(A \ G) + Cardinality(N)
      BY <1>5, <2>2, <2>4, <2>5
    <2> QED  BY <1>2, <2>6
  <1>8. Around(square, q, gone) = Cardinality(G) /\ Around(square, q, new) = Cardinality(N)
    BY DEF Around, G, N
  <1>9. Cardinality(square[q] \cap C) = Cardinality(A)
        /\ Cardinality(square[q] \cap ((C \ gone) \cup new)) = Cardinality(B)
    BY DEF A, B
  <1> QED  BY <1>5, <1>6, <1>7, <1>8, <1>9

LEMMA MovedCountsExact ==
    ASSUME CountsInv, NEW gone \in SUBSET Positions, NEW new \in SUBSET Positions,
           \A p \in gone : contributors[p] # NoHolder, \A p \in new : contributors[p] = NoHolder,
           contributors' \in [Positions -> Nat],
           \A p \in Positions : contributors'[p] # NoHolder <=>
                                    \/ contributors[p] # NoHolder /\ p \notin gone
                                    \/ p \in new,
           near' = MovedCounts(near, Near, gone, new), wide' = MovedCounts(wide, Wide, gone, new)
    PROVE  CountsInv'
  <1> DEFINE C == {p \in Positions : contributors[p] # NoHolder}
             D == {p \in Positions : contributors'[p] # NoHolder}
  <1>1. gone \subseteq C /\ new \cap C = {} /\ D = (C \ gone) \cup new
    OBVIOUS
  <1>2. ASSUME NEW q \in Positions
        PROVE  /\ near'[q] = Cardinality({p \in Near[q] : contributors'[p] # NoHolder})
               /\ near'[q] \in Int
    <2>1. {p \in Near[q] : contributors[p] # NoHolder} = (Near[q] \cap C)
      BY SquareFinite
    <2>2. {p \in Near[q] : contributors'[p] # NoHolder} = (Near[q] \cap D)
      BY SquareFinite
    <2>3. near[q] = Cardinality(Near[q] \cap C)
      BY <2>1 DEF CountsInv
    <2>5. near'[q] = near[q] - Around(Near, q, gone) + Around(Near, q, new)
      BY DEF MovedCounts
    <2> HIDE DEF C, D
    <2>6. C \in SUBSET Positions /\ gone \in SUBSET C /\ new \in SUBSET (Positions \ C)
      BY <1>1 DEF C
    <2>7. /\ Cardinality(Near[q] \cap C) - Around(Near, q, gone) + Around(Near, q, new)
                = Cardinality(Near[q] \cap ((C \ gone) \cup new))
          /\ Cardinality(Near[q] \cap ((C \ gone) \cup new)) \in Nat
      BY <2>6, CountMoves
    <2>8. near'[q] = Cardinality(Near[q] \cap D) /\ near'[q] \in Int
      BY <1>1, <2>3, <2>5, <2>7
    <2> QED  BY <2>2, <2>8
  <1>3. ASSUME NEW q \in Positions
        PROVE  /\ wide'[q] = Cardinality({p \in Wide[q] : contributors'[p] # NoHolder})
               /\ wide'[q] \in Int
    <2>1. {p \in Wide[q] : contributors[p] # NoHolder} = (Wide[q] \cap C)
      BY SquareFinite
    <2>2. {p \in Wide[q] : contributors'[p] # NoHolder} = (Wide[q] \cap D)
      BY SquareFinite
    <2>3. wide[q] = Cardinality(Wide[q] \cap C)
      BY <2>1 DEF CountsInv
    <2>5. wide'[q] = wide[q] - Around(Wide, q, gone) + Around(Wide, q, new)
      BY DEF MovedCounts
    <2> HIDE DEF C, D
    <2>6. C \in SUBSET Positions /\ gone \in SUBSET C /\ new \in SUBSET (Positions \ C)
      BY <1>1 DEF C
    <2>7. /\ Cardinality(Wide[q] \cap C) - Around(Wide, q, gone) + Around(Wide, q, new)
                = Cardinality(Wide[q] \cap ((C \ gone) \cup new))
          /\ Cardinality(Wide[q] \cap ((C \ gone) \cup new)) \in Nat
      BY <2>6, CountMoves
    <2>8. wide'[q] = Cardinality(Wide[q] \cap D) /\ wide'[q] \in Int
      BY <1>1, <2>3, <2>5, <2>7
    <2> QED  BY <2>2, <2>8
  <1>4. near' \in [Positions -> Int] /\ wide' \in [Positions -> Int]
    <2>1. near' = [q \in Positions |-> near'[q]] /\ wide' = [q \in Positions |-> wide'[q]]
      BY DEF MovedCounts
    <2> QED  BY <2>1, <1>2, <1>3
  <1> QED  BY <1>2, <1>3, <1>4 DEF CountsInv

(* A counter at its limit has the whole square behind it.                  *)
FullSquares ==
    \A p \in Positions :
        /\ near[p] \in 0 .. BlockCount /\ wide[p] \in 0 .. EntityCount
        /\ near[p] = BlockCount => \A q \in Near[p] : contributors[q] # NoHolder
        /\ wide[p] = EntityCount => \A q \in Wide[p] : contributors[q] # NoHolder

LEMMA FullCountIsFullSquare == CountsInv => FullSquares
  <1> SUFFICES ASSUME CountsInv, NEW p \in Positions
               PROVE  /\ near[p] \in 0 .. BlockCount /\ wide[p] \in 0 .. EntityCount
                      /\ near[p] = BlockCount => \A q \in Near[p] : contributors[q] # NoHolder
                      /\ wide[p] = EntityCount => \A q \in Wide[p] : contributors[q] # NoHolder
    BY DEF FullSquares
  <1> DEFINE N == {q \in Near[p] : contributors[q] # NoHolder}
             W == {q \in Wide[p] : contributors[q] # NoHolder}
  <1>1. /\ IsFiniteSet(Near[p]) /\ IsFiniteSet(Wide[p])
        /\ N \in SUBSET Near[p] /\ W \in SUBSET Wide[p]
    BY SquareFinite
  <1>2. near[p] = Cardinality(N) /\ wide[p] = Cardinality(W)
    BY DEF CountsInv
  <1>3. /\ Cardinality(Near[p]) <= BlockCount /\ Cardinality(Wide[p]) <= EntityCount
        /\ BlockCount \in Nat /\ EntityCount \in Nat
    BY SquaresAssumption
  <1> HIDE DEF N, W
  <1>4. /\ IsFiniteSet(N) /\ Cardinality(N) <= Cardinality(Near[p])
        /\ Cardinality(Near[p]) = Cardinality(N) => Near[p] = N
    BY <1>1, FS_Subset
  <1>5. /\ IsFiniteSet(W) /\ Cardinality(W) <= Cardinality(Wide[p])
        /\ Cardinality(Wide[p]) = Cardinality(W) => Wide[p] = W
    BY <1>1, FS_Subset
  <1>6. /\ Cardinality(N) \in Nat /\ Cardinality(W) \in Nat
        /\ Cardinality(Near[p]) \in Nat /\ Cardinality(Wide[p]) \in Nat
    BY <1>1, <1>4, <1>5, FS_CardinalityType
  <1>7. near[p] = BlockCount => Near[p] = N
    BY <1>2, <1>3, <1>4, <1>6
  <1>8. wide[p] = EntityCount => Wide[p] = W
    BY <1>2, <1>3, <1>5, <1>6
  <1>9. near[p] \in 0 .. BlockCount /\ wide[p] \in 0 .. EntityCount
    BY <1>2, <1>3, <1>4, <1>5, <1>6
  <1> QED  BY <1>7, <1>8, <1>9 DEF N, W

LEMMA FullCountIsFullSquareNext == CountsInv' => FullSquares'
  BY FullCountIsFullSquare, PTL

-----------------------------------------------------------------------------
(* The steps that leave the index and readiness of the others alone.       *)

IndexUnchanged == UNCHANGED <<contributors, near, wide>>

LEMMA CountsUnchanged == CountsInv /\ IndexUnchanged => CountsInv'
  BY DEF CountsInv, IndexUnchanged

LEMMA GenerationKeeps ==
    ASSUME ReadyInv, NEW p \in Positions, Initialize(p) \/ QueuePublication(p) \/ Finalize(p)
    PROVE  ReadyInv'
  <1> USE DEF ReadyInv
  <1>1. /\ UNCHANGED <<contributors, near, wide, born, chunks, level, readiness, held, todo, phase>>
        /\ UNCHANGED <<drained, pending, rebuild, snapshot, dirty, deferred, changed, activated>>
    BY DEF Initialize, QueuePublication, Finalize, holders, index, queue, commit
  <1>2. HoldersInv'
    BY <1>1 DEF HoldersInv, Initialize, QueuePublication, Finalize, Exists, NoHolder
  <1>3. CommitTypes'
    BY <1>1 DEF HoldersInv, CommitTypes, Initialize, QueuePublication, Finalize, queue
  <1>4. CountsInv'
    BY <1>1, CountsUnchanged DEF IndexUnchanged
  <1>5. \A q \in Positions : stage'[q] = "Making" => stage[q] = "Making"
    BY <1>1 DEF HoldersInv, Initialize, QueuePublication, Finalize
  <1>6. ContributorsInv'
    BY <1>1, <1>5 DEF ContributorsInv, Contributes
  <1>7. PreparedInv' /\ DrainedInv' /\ TickInv'
    BY <1>1 DEF PreparedInv, DrainedInv, TickInv
  <1> QED  BY <1>2, <1>3, <1>4, <1>6, <1>7

(* One chunk changes its level or its map.                                 *)
LEMMA LifecycleKeeps ==
    ASSUME ReadyInv, NEW p \in Positions,
           Relevel(p) \/ Unload(p) \/ Revive(p) \/ Defer(p) \/ Create(p) \/ Skip(p)
    PROVE  ReadyInv'
  <1> USE DEF ReadyInv
  <1>1. /\ UNCHANGED <<contributors, near, wide, held, phase, drained, pending, rebuild, snapshot>>
        /\ UNCHANGED <<dirty, changed>>
        /\ p \in todo /\ todo' = todo \ {p} /\ phase = "Committing"
    BY DEF Relevel, Unload, Revive, Defer, Create, Skip, Change, holders, index, queue, commit
  <1>2. HoldersInv'
    <2>1. CASE Relevel(p)
      BY <2>1, <1>1 DEF HoldersInv, Relevel, Exists, NoHolder
    <2>2. CASE Unload(p)
      BY <2>2, <1>1 DEF HoldersInv, Unload, Exists, NoHolder, None, Level, NotLoaded, EntityTicking
    <2>3. CASE Revive(p)
      BY <2>3, <1>1 DEF HoldersInv, Revive, Exists, NoHolder
    <2>4. CASE Defer(p) \/ Skip(p)
      BY <2>4, <1>1 DEF HoldersInv, Defer, Skip, holders, Exists
    <2>5. CASE Create(p)
      <3>1. born[p] < MaxHolders[p] /\ unloading[p] = NoHolder /\ born[p] \in Nat
            /\ MaxHolders[p] \in Nat
        BY <2>5, SquaresAssumption DEF HoldersInv, Create, Exists
      <3>2. born'[p] = born[p] + 1 /\ chunks'[p] = born'[p] /\ born'[p] # NoHolder
            /\ born'[p] \in Nat /\ born'[p] <= MaxHolders[p]
        BY <2>5, <3>1 DEF HoldersInv, Create, NoHolder
      <3>3. /\ born' \in [Positions -> Nat] /\ chunks' \in [Positions -> Nat]
            /\ unloading' \in [Positions -> Nat]
            /\ level' \in [Positions -> Level] /\ held' \in [Positions -> Level]
            /\ stage' \in [Positions -> {"Making", "Initialized", "Queued"}]
            /\ activated' \in [Positions -> BOOLEAN]
        BY <2>5, <1>1, <3>1 DEF HoldersInv, Create
      <3>4. \A q \in Positions \ {p} : UNCHANGED <<born[q], chunks[q], unloading[q]>>
        BY <2>5 DEF HoldersInv, Create
      <3>5. UNCHANGED unloading
        BY <2>5 DEF Create
      <3> QED  BY <3>1, <3>2, <3>3, <3>4, <3>5 DEF HoldersInv, Exists
    <2> QED  BY <2>1, <2>2, <2>3, <2>4, <2>5
  <1>3. CommitTypes'
    <2>1. publications' \subseteq Positions \X Nat
      <3>1. publications' \in {publications, publications \cup {<<p, born[p]>>}}
        BY DEF Relevel, Unload, Revive, Defer, Create, Skip, Republished, queue
      <3> QED  BY <3>1 DEF CommitTypes, HoldersInv
    <2>2. deferred' \subseteq Positions
      BY DEF Relevel, Unload, Revive, Defer, Create, Skip, CommitTypes
    <2> QED  BY <1>1, <2>1, <2>2 DEF CommitTypes
  <1>4. CountsInv'
    BY <1>1, CountsUnchanged DEF IndexUnchanged
  <1>5. \A q \in Positions \ {p} : UNCHANGED <<chunks[q], level[q], stage[q], readiness[q]>>
    BY DEF HoldersInv, TickInv, Relevel, Unload, Revive, Defer, Create, Skip, holders
  <1>6. readiness' \in [Positions -> Readiness] /\ readiness'[p] \in {0, readiness[p]}
    BY DEF TickInv, Readiness, Relevel, Unload, Revive, Defer, Create, Skip
  <1>7. contributors[p] # NoHolder =>
            contributors[p] = chunks'[p] /\ chunks'[p] # NoHolder /\ level'[p].load >= IsFull
            /\ stage'[p] # "Making"
    <2> SUFFICES ASSUME contributors[p] # NoHolder
                 PROVE  contributors[p] = chunks'[p] /\ chunks'[p] # NoHolder
                        /\ level'[p].load >= IsFull /\ stage'[p] # "Making"
      OBVIOUS
    <2>1. /\ contributors[p] = chunks[p] /\ chunks[p] # NoHolder /\ level[p].load >= IsFull
          /\ stage[p] # "Making" /\ unloading[p] = NoHolder
      BY DEF ContributorsInv, Contributes, HoldersInv
    <2>2. ~ (held[p].load < IsFull) /\ held[p].load \in 0 .. 4
      BY <1>1 DEF PreparedInv, HoldersInv, Level, NotLoaded, EntityTicking
    <2>3. held[p].load # NotLoaded /\ held[p].load >= IsFull
      BY <2>2 DEF IsFull, NotLoaded
    <2>4. ~ Unload(p) /\ ~ Revive(p) /\ ~ Defer(p) /\ ~ Create(p) /\ ~ Skip(p)
      BY <2>1, <2>3 DEF Unload, Revive, Defer, Create, Skip, Exists
    <2>5. Relevel(p)
      BY <2>4
    <2> QED  BY <2>1, <2>3, <2>5 DEF Relevel, HoldersInv
  <1>8. ContributorsInv'
    BY <1>1, <1>5, <1>7 DEF ContributorsInv, Contributes
  <1>9. PreparedInv' /\ DrainedInv'
    BY <1>1, <1>5 DEF PreparedInv, DrainedInv, CommitTypes
  <1>10. chunks'[p] = NoHolder => readiness'[p] = 0
    <2>1. CASE held[p].load = NotLoaded
      BY <2>1, <1>1, <1>6 DEF PreparedInv
    <2>2. CASE held[p].load # NotLoaded
      <3>1. CASE Relevel(p)
        BY <3>1 DEF Relevel
      <3>2. CASE Revive(p)
        BY <3>2 DEF Revive, HoldersInv
      <3>3. CASE Defer(p)
        BY <3>3 DEF Defer, holders, TickInv
      <3>4. CASE Create(p)
        BY <3>4 DEF Create, HoldersInv, NoHolder
      <3> QED  BY <2>2, <3>1, <3>2, <3>3, <3>4 DEF Unload, Skip
    <2> QED  BY <2>1, <2>2
  <1>11. TickInv'
    <2>1. ASSUME NEW q \in Positions
          PROVE  /\ chunks'[q] = NoHolder => readiness'[q] = 0
                 /\ readiness'[q] \in {0, readiness[q]}
      BY <1>5, <1>6, <1>10 DEF TickInv
    <2> QED  BY <1>1, <1>6, <2>1 DEF TickInv, Readiness
  <1> QED  BY <1>2, <1>3, <1>4, <1>8, <1>9, <1>11

LEMMA DrainKeeps == ReadyInv /\ Drain => ReadyInv'
  <1> SUFFICES ASSUME ReadyInv, Drain PROVE ReadyInv'
    OBVIOUS
  <1> USE DEF ReadyInv
  <1>1. /\ UNCHANGED <<holders, readiness, contributors, near, wide, dirty, pending, snapshot, rebuild>>
        /\ UNCHANGED <<changed, todo, held, deferred>>
        /\ phase' = "Draining" /\ drained' = publications /\ publications' = {}
    BY DEF Drain, index
  <1>2. HoldersInv'
    BY <1>1 DEF HoldersInv, holders, Exists
  <1>3. CommitTypes'
    BY <1>1 DEF CommitTypes
  <1>4. CountsInv'
    BY <1>1, CountsUnchanged DEF IndexUnchanged
  <1>5. ContributorsInv' /\ PreparedInv' /\ DrainedInv' /\ TickInv'
    BY <1>1 DEF ContributorsInv, Contributes, PreparedInv, DrainedInv, TickInv, holders, Drain
  <1> QED  BY <1>2, <1>3, <1>4, <1>5

-----------------------------------------------------------------------------
(* The start and the end of a commit.                                      *)

LEMMA TargetNeedsSquare ==
    ASSUME NEW p \in Positions, NEW load \in 0 .. 4, NEW n \in 0 .. BlockCount,
           NEW w \in 0 .. EntityCount
    PROVE  /\ Target(p, load, n, w) \in Readiness
           /\ Target(p, load, n, w) = 2 => w = EntityCount
           /\ Target(p, load, n, w) = 1 => n = BlockCount
           /\ load = NotLoaded => Target(p, load, n, w) = 0
  BY DEF Target, Readiness, EntityTicking, BlockTicking, NotLoaded

LEMMA CentersArePositions ==
    ASSUME NEW S \in SUBSET Positions PROVE Centers(S) \subseteq Positions
  BY SquareFinite DEF Centers

LEMMA PrepareKeeps ==
    ASSUME ReadyInv, NEW new \in LevelMaps, Prepare(new)
    PROVE  ReadyInv'
  <1> DEFINE changes == {p \in Positions : new[p] # held[p]} \cup deferred
             leaving == Leaving(changes, new)
             touched == Centers(leaving) \cup changes
             candidates == {p \in touched : chunks[p] # NoHolder}
             load == [p \in Positions |-> IF p \in changes THEN new[p].load ELSE level[p].load]
             ready == [p \in Positions |->
                         IF p \in candidates
                         THEN Demoted(readiness[p], Target(p, load[p], near'[p], wide'[p]))
                         ELSE readiness[p]]
  <1>1. /\ phase' = "Committing" /\ changed' = changes /\ todo' = changes
        /\ held' = new /\ deferred' = {} /\ dirty' = touched
        /\ contributors' = [p \in Positions |-> IF p \in leaving THEN NoHolder ELSE contributors[p]]
        /\ near' = MovedCounts(near, Near, leaving, {})
        /\ wide' = MovedCounts(wide, Wide, leaving, {})
        /\ readiness' = ready
        /\ pending' = UpdatedPending(candidates, ready, load)
        /\ UNCHANGED <<holders, queue, snapshot>>
    BY DEF Prepare
  <1>2. rebuild' \in BOOLEAN
    BY DEF Prepare
  <1>3. changes \subseteq Positions /\ leaving \subseteq changes
        /\ new \in [Positions -> Level]
    BY SquaresAssumption DEF ReadyInv, CommitTypes, Leaving
  <1>4. touched \subseteq Positions
    <2>1. leaving \subseteq Positions
      BY <1>3
    <2> HIDE DEF leaving, changes
    <2> QED  BY <1>3, <2>1, CentersArePositions
  <1>5. \A p \in leaving : contributors[p] # NoHolder
    BY DEF Leaving
  <1>6. \A p \in Positions : load[p] \in 0 .. 4
    BY <1>3 DEF ReadyInv, HoldersInv, Level, NotLoaded, EntityTicking
  <1>7. CountsInv'
    <2> HIDE DEF leaving
    <2>1. leaving \in SUBSET Positions /\ {} \in SUBSET Positions
      BY <1>3
    <2>2. contributors' \in [Positions -> Nat]
      BY <1>1 DEF ReadyInv, CountsInv, NoHolder
    <2>3. \A p \in Positions : contributors'[p] # NoHolder <=>
                                    \/ contributors[p] # NoHolder /\ p \notin leaving
                                    \/ p \in {}
      BY <1>1
    <2> QED  BY <1>1, <1>5, <2>1, <2>2, <2>3, MovedCountsExact DEF ReadyInv
  <1>8. FullSquares'
    BY <1>7, FullCountIsFullSquareNext
  <1> HIDE DEF changes, leaving, touched, candidates, load
  <1>9. ASSUME NEW p \in Positions
        PROVE  /\ Target(p, load[p], near'[p], wide'[p]) \in Readiness
               /\ Target(p, load[p], near'[p], wide'[p]) = 2 => wide'[p] = EntityCount
               /\ Target(p, load[p], near'[p], wide'[p]) = 1 => near'[p] = BlockCount
               /\ load[p] = NotLoaded => Target(p, load[p], near'[p], wide'[p]) = 0
    <2>1. near'[p] \in 0 .. BlockCount /\ wide'[p] \in 0 .. EntityCount /\ load[p] \in 0 .. 4
      BY <1>6, <1>8 DEF FullSquares
    <2> QED  BY <2>1, TargetNeedsSquare
  <1>10. ASSUME NEW p \in Positions
         PROVE  /\ readiness'[p] \in Readiness /\ readiness'[p] <= readiness[p]
                /\ p \in candidates => readiness'[p] <= Target(p, load[p], near'[p], wide'[p])
                /\ p \notin candidates => readiness'[p] = readiness[p]
    BY <1>1, <1>9 DEF Demoted, ReadyInv, TickInv, Readiness
  <1>11. HoldersInv'
    BY <1>1, <1>3 DEF ReadyInv, HoldersInv, holders, Exists
  <1>12. CommitTypes'
    <2>1. pending' \in [Positions -> Nat]
      BY <1>1 DEF UpdatedPending, ReadyInv, CommitTypes, HoldersInv, NoHolder
    <2> QED  BY <1>1, <1>2, <1>3, <1>4, <2>1 DEF ReadyInv, CommitTypes, queue
  <1>13. ContributorsInv'
    BY <1>1 DEF ReadyInv, ContributorsInv, Contributes, holders
  <1>14. PreparedInv'
    <2>1. ASSUME NEW p \in changes
          PROVE  /\ new[p].load < IsFull => contributors'[p] = NoHolder
                 /\ new[p].load = NotLoaded => readiness'[p] = 0
      <3>1. p \in Positions
        BY <1>3
      <3>2. new[p].load < IsFull => contributors'[p] = NoHolder
        BY <1>1, <3>1 DEF leaving, Leaving, ReadyInv, ContributorsInv
      <3>3. ASSUME new[p].load = NotLoaded PROVE readiness'[p] = 0
        <4>1. load[p] = NotLoaded
          BY <3>1, <3>3 DEF load
        <4>2. CASE p \in candidates
          BY <3>1, <4>1, <4>2, <1>9, <1>10 DEF Readiness
        <4>3. CASE p \notin candidates
          <5>1. chunks[p] = NoHolder
            BY <4>3 DEF candidates, touched
          <5> QED  BY <3>1, <4>3, <5>1, <1>10 DEF ReadyInv, TickInv
        <4> QED  BY <4>2, <4>3
      <3> QED  BY <3>2, <3>3
    <2> QED  BY <1>1, <2>1 DEF PreparedInv
  <1>15. TickInv'
    <2>1. readiness' \in [Positions -> Readiness]
      BY <1>1, <1>10
    <2>2. ASSUME NEW p \in Positions
          PROVE  /\ chunks'[p] = NoHolder => readiness'[p] = 0
                 /\ readiness'[p] >= 1 => \A q \in Near[p] : contributors'[q] # NoHolder
                 /\ readiness'[p] = 2 => \A q \in Wide[p] : contributors'[q] # NoHolder
      <3>1. UNCHANGED chunks
        BY <1>1 DEF holders
      <3>2. chunks'[p] = NoHolder => readiness'[p] = 0
        BY <3>1, <1>10 DEF ReadyInv, TickInv, Readiness
      <3>3. CASE p \in candidates
        <4>1. readiness'[p] >= 1 => \/ wide'[p] = EntityCount
                                    \/ near'[p] = BlockCount
          BY <3>3, <1>9, <1>10 DEF Readiness
        <4>2. readiness'[p] = 2 => wide'[p] = EntityCount
          BY <3>3, <1>9, <1>10 DEF Readiness
        <4>3. wide'[p] = EntityCount => \A q \in Wide[p] : contributors'[q] # NoHolder
          BY <1>8 DEF FullSquares
        <4>4. near'[p] = BlockCount => \A q \in Near[p] : contributors'[q] # NoHolder
          BY <1>8 DEF FullSquares
        <4>5. Near[p] \subseteq Wide[p]
          BY SquaresAssumption
        <4> QED  BY <3>2, <4>1, <4>2, <4>3, <4>4, <4>5
      <3>4. CASE p \notin candidates
        <4>1. CASE chunks[p] = NoHolder
          BY <3>1, <3>2, <4>1
        <4>2. CASE chunks[p] # NoHolder
          <5>1. p \notin Centers(leaving)
            BY <3>4, <4>2 DEF candidates, touched
          <5>2. ASSUME NEW q \in Wide[p] PROVE q \in Positions /\ q \notin leaving
            <6>1. q \in Positions /\ p \in Wide[q]
              BY SquaresAssumption
            <6> QED  BY <5>1, <6>1 DEF Centers
          <5>3. ASSUME NEW q \in Wide[p] PROVE contributors'[q] = contributors[q]
            BY <1>1, <5>2
          <5>4. Near[p] \subseteq Wide[p]
            BY SquaresAssumption
          <5>5. readiness'[p] = readiness[p]
            BY <3>4, <1>10
          <5> QED  BY <3>2, <5>3, <5>4, <5>5 DEF ReadyInv, TickInv
        <4> QED  BY <4>1, <4>2
      <3> QED  BY <3>3, <3>4
    <2> QED  BY <2>1, <2>2 DEF TickInv
  <1>16. DrainedInv'
    BY <1>1 DEF DrainedInv
  <1> QED  BY <1>7, <1>11, <1>12, <1>13, <1>14, <1>15, <1>16 DEF ReadyInv

(* Every contributor is still what it was counted for, so the end of a     *)
(* commit only adds to the index.                                          *)
LEMMA ReconcileKeeps == ReadyInv /\ Reconcile => ReadyInv'
  <1> SUFFICES ASSUME ReadyInv, Reconcile PROVE ReadyInv'
    OBVIOUS
  <1> DEFINE published == {p \in Positions : chunks[p] # NoHolder /\ <<p, chunks[p]>> \in drained
                                             /\ Contributes(p)}
             looked == changed \cup published
             current == [p \in Positions |-> IF Contributes(p) THEN chunks[p] ELSE NoHolder]
             moved == {p \in looked : current[p] # contributors[p]}
             gone == {p \in moved : contributors[p] # NoHolder}
             new == {p \in moved : current[p] # NoHolder}
             touched == IF drained = {} /\ changed = {} THEN {} ELSE dirty \cup changed \cup Centers(moved)
             candidates == {p \in touched : chunks[p] # NoHolder}
             load == [p \in Positions |-> level[p].load]
             ready == FinalReadiness(candidates)
             stale == \E p \in candidates :
                        Membership(readiness[p], level[p].sim) # Membership(ready[p], level[p].sim)
  <1>1. /\ phase' = "Idle" /\ changed' = {} /\ drained' = {} /\ dirty' = {}
        /\ contributors' = [p \in Positions |-> IF p \in looked THEN current[p] ELSE contributors[p]]
        /\ near' = MovedCounts(near, Near, gone, new)
        /\ wide' = MovedCounts(wide, Wide, gone, new)
        /\ activated' = [p \in Positions |-> activated[p] \/ p \in published]
        /\ readiness' = ready
        /\ pending' = UpdatedPending(candidates, ready, load)
        /\ snapshot' = IF rebuild \/ stale THEN Ticking(ready) ELSE snapshot
        /\ rebuild' = FALSE
        /\ UNCHANGED <<born, chunks, unloading, level, stage, publications, todo, held, deferred>>
    BY DEF Reconcile
  <1>2. phase = "Draining"
    BY DEF Reconcile
  <1>3. looked \subseteq Positions /\ todo \subseteq changed
    BY DEF ReadyInv, CommitTypes
  <1>4. \A p \in Positions : contributors[p] # NoHolder => current[p] = contributors[p]
    BY DEF ReadyInv, ContributorsInv
  <1>5. gone = {} /\ new \subseteq Positions /\ \A p \in new : contributors[p] = NoHolder
    BY <1>3, <1>4
  <1>6. contributors' \in [Positions -> Nat]
    BY <1>1 DEF ReadyInv, CountsInv, HoldersInv, NoHolder
  <1>7. \A p \in Positions : contributors'[p] # NoHolder <=>
                                    \/ contributors[p] # NoHolder /\ p \notin gone
                                    \/ p \in new
    BY <1>1, <1>4, <1>5
  <1>8. CountsInv'
    <2> HIDE DEF gone, new
    <2> QED  BY <1>1, <1>5, <1>6, <1>7, MovedCountsExact DEF ReadyInv
  <1>9. FullSquares'
    BY <1>8, FullCountIsFullSquareNext
  <1>10. todo = {}
    BY <1>2 DEF ReadyInv, DrainedInv
  <1> HIDE DEF published, looked, moved, gone, new, touched, candidates, load
  <1>11. ASSUME NEW p \in Positions
         PROVE  /\ Target(p, load[p], near'[p], wide'[p]) \in Readiness
                /\ Target(p, load[p], near'[p], wide'[p]) = 2 => wide'[p] = EntityCount
                /\ Target(p, load[p], near'[p], wide'[p]) = 1 => near'[p] = BlockCount
    <2>1. near'[p] \in 0 .. BlockCount /\ wide'[p] \in 0 .. EntityCount
      BY <1>9 DEF FullSquares
    <2>2. load[p] \in 0 .. 4
      BY DEF load, ReadyInv, HoldersInv, Level, NotLoaded, EntityTicking
    <2> QED  BY <2>1, <2>2, TargetNeedsSquare
  <1>12. ASSUME NEW p \in Positions
         PROVE  /\ readiness'[p] \in Readiness
                /\ p \in candidates => readiness'[p] = Target(p, load[p], near'[p], wide'[p])
                /\ p \notin candidates => readiness'[p] = readiness[p]
    BY <1>1, <1>11 DEF ReadyInv, TickInv, FinalReadiness, load
  <1>13. HoldersInv'
    BY <1>1 DEF ReadyInv, HoldersInv, Exists
  <1>14. CommitTypes'
    <2>1. pending' \in [Positions -> Nat]
      BY <1>1 DEF UpdatedPending, ReadyInv, CommitTypes, HoldersInv, NoHolder
    <2>2. Ticking(ready) \subseteq Tickable
      <3> HIDE DEF ready
      <3>1. ASSUME NEW r, NEW sim
            PROVE  /\ Membership(r, sim).random \in BOOLEAN
                   /\ Membership(r, sim).entity \in BOOLEAN
        BY DEF Membership
      <3>2. ASSUME NEW t \in Ticking(ready) PROVE t \in Tickable
        <4>1. PICK p \in Positions :
                t = [pos |-> p, holder |-> chunks[p],
                     random |-> Membership(ready[p], level[p].sim).random,
                     entity |-> Membership(ready[p], level[p].sim).entity]
          BY <3>2 DEF Ticking
        <4>2. chunks[p] \in Nat
          BY DEF ReadyInv, HoldersInv
        <4> QED  BY <3>1, <4>1, <4>2, Zenon DEF Tickable
      <3> QED  BY <3>2
    <2>3. snapshot' \subseteq Tickable
      BY <1>1, <2>2 DEF ReadyInv, CommitTypes
    <2> QED  BY <1>1, <1>10, <2>1, <2>3 DEF ReadyInv, CommitTypes
  <1>15. ContributorsInv'
    <2>1. ASSUME NEW p \in Positions, contributors'[p] # NoHolder
          PROVE  contributors'[p] = chunks[p] /\ Contributes(p)
      BY <1>1, <2>1 DEF ReadyInv, ContributorsInv
    <2> QED  BY <1>1, <2>1 DEF ContributorsInv, Contributes
  <1>16. PreparedInv' /\ DrainedInv'
    BY <1>1 DEF PreparedInv, DrainedInv
  <1>17. TickInv'
    <2>1. readiness' \in [Positions -> Readiness]
      BY <1>1, <1>12 DEF FinalReadiness
    <2>2. ASSUME NEW p \in Positions
          PROVE  /\ chunks'[p] = NoHolder => readiness'[p] = 0
                 /\ readiness'[p] >= 1 => \A q \in Near[p] : contributors'[q] # NoHolder
                 /\ readiness'[p] = 2 => \A q \in Wide[p] : contributors'[q] # NoHolder
      <3>1. Near[p] \subseteq Wide[p] /\ Wide[p] \subseteq Positions
        BY SquaresAssumption
      <3>2. chunks'[p] = NoHolder => readiness'[p] = 0
        BY <1>1, <1>12 DEF ReadyInv, TickInv, candidates
      <3>3. CASE p \in candidates
        <4>1. readiness'[p] >= 1 => wide'[p] = EntityCount \/ near'[p] = BlockCount
          BY <3>3, <1>11, <1>12 DEF Readiness
        <4>2. readiness'[p] = 2 => wide'[p] = EntityCount
          BY <3>3, <1>11, <1>12 DEF Readiness
        <4>3. wide'[p] = EntityCount => \A q \in Wide[p] : contributors'[q] # NoHolder
          BY <1>9 DEF FullSquares
        <4>4. near'[p] = BlockCount => \A q \in Near[p] : contributors'[q] # NoHolder
          BY <1>9 DEF FullSquares
        <4> QED  BY <3>1, <3>2, <4>1, <4>2, <4>3, <4>4
      <3>4. CASE p \notin candidates
        <4>1. readiness'[p] = readiness[p]
          BY <3>4, <1>12
        <4>2. \A q \in Positions : contributors[q] # NoHolder => contributors'[q] # NoHolder
          BY <1>5, <1>7
        <4> QED  BY <3>1, <3>2, <4>1, <4>2 DEF ReadyInv, TickInv
      <3> QED  BY <3>3, <3>4
    <2> QED  BY <2>1, <2>2 DEF TickInv
  <1> QED  BY <1>8, <1>13, <1>14, <1>15, <1>16, <1>17 DEF ReadyInv

-----------------------------------------------------------------------------
LEMMA InitReady == Init => ReadyInv
  <1> SUFFICES ASSUME Init PROVE ReadyInv
    OBVIOUS
  <1> USE DEF Init, Zero, NoHolder
  <1>1. HoldersInv
    BY SquaresAssumption DEF HoldersInv, Exists, None, Level, NotLoaded, EntityTicking
  <1>2. CommitTypes /\ PreparedInv /\ DrainedInv
    BY DEF CommitTypes, PreparedInv, DrainedInv
  <1>3. CountsInv
    <2>1. Cardinality({}) = 0
      BY FS_EmptySet
    <2>2. \A p \in Positions : /\ {q \in Near[p] : contributors[q] # NoHolder} = {}
                               /\ {q \in Wide[p] : contributors[q] # NoHolder} = {}
      BY SquareFinite
    <2> QED  BY <2>1, <2>2 DEF CountsInv
  <1>4. ContributorsInv /\ TickInv
    BY DEF ContributorsInv, TickInv, Readiness
  <1> QED  BY <1>1, <1>2, <1>3, <1>4 DEF ReadyInv

LEMMA StutterKeeps == ReadyInv /\ UNCHANGED vars => ReadyInv'
  <1> SUFFICES ASSUME ReadyInv, UNCHANGED vars PROVE ReadyInv'
    OBVIOUS
  <1>1. /\ UNCHANGED <<born, chunks, unloading, level, stage, activated, readiness, contributors>>
        /\ UNCHANGED <<near, wide, dirty, publications, drained, pending, snapshot, rebuild>>
        /\ UNCHANGED <<phase, changed, todo, held, deferred>>
    BY DEF vars, holders, index, queue, commit
  <1>2. HoldersInv' /\ CommitTypes'
    BY <1>1 DEF ReadyInv, HoldersInv, CommitTypes, Exists
  <1>3. CountsInv'
    BY <1>1, CountsUnchanged DEF ReadyInv, IndexUnchanged
  <1>4. ContributorsInv' /\ PreparedInv' /\ DrainedInv' /\ TickInv'
    BY <1>1 DEF ReadyInv, ContributorsInv, Contributes, PreparedInv, DrainedInv, TickInv
  <1> QED  BY <1>2, <1>3, <1>4 DEF ReadyInv

(* The index, readiness and the commit agree in every reachable state.     *)
LEMMA ReadyInvariant == Spec => []ReadyInv
  <1>1. ReadyInv /\ [Next]_vars => ReadyInv'
    <2> SUFFICES ASSUME ReadyInv, [Next]_vars PROVE ReadyInv'
      OBVIOUS
    <2>1. CASE Generation
      BY <2>1, GenerationKeeps DEF Generation
    <2>2. CASE \E new \in LevelMaps : Prepare(new)
      BY <2>2, PrepareKeeps
    <2>3. CASE Lifecycle
      BY <2>3, LifecycleKeeps DEF Lifecycle
    <2>4. CASE Drain
      BY <2>4, DrainKeeps
    <2>5. CASE Reconcile
      BY <2>5, ReconcileKeeps
    <2>6. CASE UNCHANGED vars
      BY <2>6, StutterKeeps
    <2> QED  BY <2>1, <2>2, <2>3, <2>4, <2>5, <2>6 DEF Next
  <1> QED  BY <1>1, InitReady, PTL DEF Spec

(* Every variable keeps its type; in particular no counter leaves the      *)
(* range of its square, which adjust_counts checks at run time.            *)
THEOREM ReadinessTyped == Spec => []TypeOK
  <1>1. ReadyInv => TypeOK
    <2> SUFFICES ASSUME ReadyInv PROVE TypeOK
      OBVIOUS
    <2>1. FullSquares
      BY FullCountIsFullSquare DEF ReadyInv
    <2>2. near \in [Positions -> 0 .. BlockCount] /\ wide \in [Positions -> 0 .. EntityCount]
      BY <2>1 DEF ReadyInv, CountsInv, FullSquares
    <2> QED  BY <2>2 DEF ReadyInv, HoldersInv, CommitTypes, CountsInv, TickInv, TypeOK
  <1> QED  BY <1>1, ReadyInvariant, PTL

(* A chunk ticks only with its whole square Full and held at a full level, *)
(* for any plane, any ticket levels and any interleaving of the commit     *)
(* with the generation threads.                                            *)
THEOREM TickingIsSafe == Spec => []TickersHaveNeighbours
  <1>1. ReadyInv => TickersHaveNeighbours
    <2> SUFFICES ASSUME ReadyInv, NEW p \in Positions
                 PROVE  /\ readiness[p] >= 1 => \A q \in Near[p] : Contributes(q)
                        /\ readiness[p] = 2 => \A q \in Wide[p] : Contributes(q)
      BY DEF TickersHaveNeighbours
    <2> QED  BY SquaresAssumption DEF ReadyInv, TickInv, ContributorsInv
  <1> QED  BY <1>1, ReadyInvariant, PTL

(* The incremental index is exact: it counts current Full holders only and *)
(* its counters are theirs, so its error paths are never taken.            *)
THEOREM IndexExact == Spec => []IndexIsSound
  <1>1. ReadyInv => IndexIsSound
    BY DEF ReadyInv, CountsInv, ContributorsInv, IndexIsSound
  <1> QED  BY <1>1, ReadyInvariant, PTL

-----------------------------------------------------------------------------
(* The snapshot of ticking chunks.  A commit that does not mark it for a   *)
(* rebuild has changed nothing that is in it, and the level changes still  *)
(* to be made will not either: a chunk that ticks keeps its simulation     *)
(* level.                                                                  *)
SnapshotInv ==
    /\ phase = "Idle" => ~ rebuild
    /\ ~ rebuild => snapshot = Ticking(readiness)
    /\ phase = "Committing" /\ ~ rebuild => \A p \in todo :
           chunks[p] # NoHolder /\ readiness[p] # 0 => level[p].sim = held[p].sim

Row(p) == [pos |-> p, holder |-> chunks[p],
           random |-> Membership(readiness[p], level[p].sim).random,
           entity |-> Membership(readiness[p], level[p].sim).entity]

Listed(p) == /\ chunks[p] # NoHolder /\ stage[p] # "Making"
             /\ Membership(readiness[p], level[p].sim).block

LEMMA TickingIsRows == Ticking(readiness) = {Row(p) : p \in {q \in Positions : Listed(q)}}
  BY DEF Ticking, Row, Listed

LEMMA TickingIsRowsNext ==
    Ticking(readiness)' = {Row(p)' : p \in {q \in Positions : Listed(q)'}}
  BY DEF Ticking, Row, Listed

(* A chunk that ticks has been Full since it was counted.                  *)
ReadyAreFull == \A p \in Positions : readiness[p] # 0 => Contributes(p)

LEMMA ReadyIsFull == ReadyInv => ReadyAreFull
  <1> SUFFICES ASSUME ReadyInv, NEW p \in Positions, readiness[p] # 0 PROVE Contributes(p)
    BY DEF ReadyAreFull
  <1>1. readiness[p] >= 1 /\ p \in Near[p]
    BY SquaresAssumption DEF ReadyInv, TickInv, Readiness
  <1> QED  BY <1>1 DEF ReadyInv, TickInv, ContributorsInv

LEMMA ReadyIsFullNext == ReadyInv' => ReadyAreFull'
  BY ReadyIsFull, PTL

LEMMA TickingKept ==
    ASSUME ReadyInv, ReadyInv',
           \A p \in Positions :
               \/ readiness[p] = 0 /\ readiness'[p] = 0
               \/ /\ chunks'[p] = chunks[p]
                  /\ Membership(readiness'[p], level'[p].sim) = Membership(readiness[p], level[p].sim)
    PROVE  Ticking(readiness)' = Ticking(readiness)
  <1>1. \A r, s : Membership(r, s).block => r # 0
    BY DEF Membership
  <1>2. ASSUME NEW p \in Positions
        PROVE  /\ Listed(p)' <=> Listed(p)
               /\ Listed(p) => Row(p)' = Row(p)
    <2>1. CASE readiness[p] = 0 /\ readiness'[p] = 0
      BY <1>1, <2>1 DEF Listed
    <2>2. CASE /\ chunks'[p] = chunks[p]
               /\ Membership(readiness'[p], level'[p].sim) = Membership(readiness[p], level[p].sim)
      <3>1. Membership(readiness[p], level[p].sim).block => stage[p] # "Making" /\ stage'[p] # "Making"
        BY <1>1, <2>2, ReadyIsFull, ReadyIsFullNext DEF ReadyAreFull, Contributes
      <3> QED  BY <2>2, <3>1 DEF Listed, Row
    <2> QED  BY <2>1, <2>2
  <1> QED  BY <1>2, TickingIsRows, TickingIsRowsNext

LEMMA MembershipTellsLevels ==
    ASSUME NEW r, NEW s \in 0 .. 2, NEW t \in 0 .. 2, r # 0, Membership(r, s) = Membership(r, t)
    PROVE  s = t
  <1>1. /\ (s >= 1 /\ r # 0) <=> (t >= 1 /\ r # 0)
        /\ (s = 2 /\ r # 0) <=> (t = 2 /\ r # 0)
    <2>1. Membership(r, s).block = Membership(r, t).block
          /\ Membership(r, s).random = Membership(r, t).random
      OBVIOUS
    <2> QED  BY <2>1, Zenon DEF Membership
  <1> QED  BY <1>1

LEMMA SnapshotPrepare ==
    ASSUME ReadyInv, ReadyInv', SnapshotInv, NEW new \in LevelMaps, Prepare(new)
    PROVE  SnapshotInv'
  <1> DEFINE changes == {p \in Positions : new[p] # held[p]} \cup deferred
             leaving == Leaving(changes, new)
             touched == Centers(leaving) \cup changes
             candidates == {p \in touched : chunks[p] # NoHolder}
             load == [p \in Positions |-> IF p \in changes THEN new[p].load ELSE level[p].load]
             ready == [p \in Positions |->
                         IF p \in candidates
                         THEN Demoted(readiness[p], Target(p, load[p], near'[p], wide'[p]))
                         ELSE readiness[p]]
  <1>1. /\ phase = "Idle" /\ phase' = "Committing" /\ todo' = changes /\ held' = new
        /\ readiness' = ready
        /\ UNCHANGED <<chunks, level, stage, snapshot>>
        /\ rebuild' = \/ SimulationChanges(changes, new)
                      \/ \E p \in candidates :
                            Membership(readiness[p], level[p].sim) # Membership(ready[p], level[p].sim)
    BY DEF Prepare, holders
  <1>2. changes \subseteq Positions /\ new \in [Positions -> Level]
    BY SquaresAssumption DEF ReadyInv, CommitTypes
  <1> SUFFICES ASSUME ~ rebuild'
               PROVE  /\ snapshot' = Ticking(readiness)'
                      /\ \A p \in changes : chunks[p] # NoHolder /\ readiness'[p] # 0 =>
                                                level[p].sim = new[p].sim
    BY <1>1 DEF SnapshotInv
  <1>3. ~ SimulationChanges(changes, new)
    BY <1>1
  <1>4. \A p \in candidates : Membership(readiness[p], level[p].sim) = Membership(readiness'[p], level[p].sim)
    BY <1>1
  <1> HIDE DEF changes, leaving, touched, candidates, load
  <1>5. \A p \in Positions : p \notin candidates => readiness'[p] = readiness[p]
    BY <1>1
  <1>6. snapshot' = Ticking(readiness)'
    <2>1. Ticking(readiness)' = Ticking(readiness)
      BY <1>1, <1>4, <1>5, TickingKept
    <2> QED  BY <1>1, <2>1 DEF SnapshotInv
  <1>7. ASSUME NEW p \in changes, chunks[p] # NoHolder, readiness'[p] # 0
        PROVE  level[p].sim = new[p].sim
    <2>1. p \in Positions /\ level[p].sim \in 0 .. 2 /\ new[p].sim \in 0 .. 2
      BY <1>2 DEF ReadyInv, HoldersInv, Level
    <2>2. readiness[p] # 0
      <3>1. CASE p \notin candidates
        BY <1>5, <1>7, <2>1, <3>1
      <3>2. CASE p \in candidates
        <4>1. readiness'[p] = Demoted(readiness[p], Target(p, load[p], near'[p], wide'[p]))
          BY <1>1, <2>1, <3>2
        <4>2. readiness'[p] \in Readiness
          BY <2>1 DEF ReadyInv, TickInv
        <4>3. readiness[p] \in Readiness
          BY <2>1 DEF ReadyInv, TickInv
        <4> QED  BY <1>7, <4>1, <4>2, <4>3 DEF Demoted, Readiness
      <3> QED  BY <3>1, <3>2
    <2>3. Membership(readiness[p], level[p].sim) = Membership(readiness[p], new[p].sim)
      BY <1>3, <1>7 DEF SimulationChanges
    <2> QED  BY <2>1, <2>2, <2>3, MembershipTellsLevels
  <1> QED  BY <1>6, <1>7

LEMMA SnapshotLifecycle ==
    ASSUME ReadyInv, ReadyInv', SnapshotInv, NEW p \in Positions,
           Relevel(p) \/ Unload(p) \/ Revive(p) \/ Defer(p) \/ Create(p) \/ Skip(p)
    PROVE  SnapshotInv'
  <1>1. /\ UNCHANGED <<phase, rebuild, snapshot, held>>
        /\ p \in todo /\ todo' = todo \ {p} /\ phase = "Committing"
    BY DEF Relevel, Unload, Revive, Defer, Create, Skip, Change
  <1>2. \A q \in Positions \ {p} : UNCHANGED <<chunks[q], level[q], stage[q], readiness[q]>>
    BY DEF ReadyInv, HoldersInv, TickInv, Relevel, Unload, Revive, Defer, Create, Skip, holders
  <1> SUFFICES ASSUME ~ rebuild
               PROVE  /\ Ticking(readiness)' = Ticking(readiness)
                      /\ \A q \in todo' : chunks'[q] # NoHolder /\ readiness'[q] # 0 =>
                                              level'[q].sim = held'[q].sim
    BY <1>1 DEF SnapshotInv
  <1>3. \/ readiness[p] = 0 /\ readiness'[p] = 0
        \/ chunks'[p] = chunks[p] /\ readiness'[p] = readiness[p] /\ level'[p].sim = level[p].sim
    <2>1. CASE Relevel(p)
      <3>1. level'[p] = held[p] /\ UNCHANGED <<chunks, readiness>> /\ chunks[p] # NoHolder
        BY <2>1 DEF Relevel, ReadyInv, HoldersInv
      <3> QED  BY <1>1, <3>1 DEF SnapshotInv
    <2>2. CASE Unload(p)
      BY <1>1, <2>2 DEF Unload, ReadyInv, PreparedInv
    <2>3. CASE Revive(p)
      <3>1. chunks[p] = NoHolder /\ readiness' = readiness
        BY <2>3 DEF Revive, ReadyInv, HoldersInv
      <3> QED  BY <3>1 DEF ReadyInv, TickInv
    <2>4. CASE Defer(p) \/ Skip(p)
      BY <2>4 DEF Defer, Skip, holders
    <2>5. CASE Create(p)
      <3>1. chunks[p] = NoHolder /\ readiness'[p] = 0
        BY <2>5 DEF Create, Exists, ReadyInv, TickInv
      <3> QED  BY <3>1 DEF ReadyInv, TickInv
    <2> QED  BY <2>1, <2>2, <2>3, <2>4, <2>5
  <1>4. Ticking(readiness)' = Ticking(readiness)
    <2>1. ASSUME NEW q \in Positions
          PROVE  \/ readiness[q] = 0 /\ readiness'[q] = 0
                 \/ /\ chunks'[q] = chunks[q]
                    /\ Membership(readiness'[q], level'[q].sim) = Membership(readiness[q], level[q].sim)
      BY <1>2, <1>3
    <2> QED  BY <2>1, TickingKept
  <1>5. todo' \subseteq Positions \ {p} /\ todo' \subseteq todo
    BY <1>1 DEF ReadyInv, CommitTypes
  <1> QED  BY <1>1, <1>2, <1>4, <1>5 DEF SnapshotInv

LEMMA SnapshotReconcile ==
    ASSUME ReadyInv, ReadyInv', SnapshotInv, Reconcile
    PROVE  SnapshotInv'
  <1>1. PICK candidates, ready, stale :
            /\ ready = [p \in Positions |-> IF p \in candidates
                            THEN Target(p, level[p].load, near'[p], wide'[p]) ELSE readiness[p]]
            /\ stale <=> \E p \in candidates :
                   Membership(readiness[p], level[p].sim) # Membership(ready[p], level[p].sim)
            /\ snapshot' = IF rebuild \/ stale THEN Ticking(ready) ELSE snapshot
            /\ readiness' = ready
    BY DEF Reconcile, FinalReadiness
  <1>2. /\ phase' = "Idle" /\ rebuild' = FALSE
        /\ UNCHANGED <<chunks, level, stage>>
    BY DEF Reconcile
  <1>3. Ticking(readiness)' = Ticking(ready)
    BY <1>1, <1>2 DEF Ticking
  <1>4. ASSUME ~ rebuild, ~ stale PROVE Ticking(readiness)' = snapshot
    <2>1. \A p \in Positions : Membership(readiness'[p], level'[p].sim) = Membership(readiness[p], level[p].sim)
      BY <1>1, <1>2, <1>4
    <2> QED  BY <1>2, <1>4, <2>1, TickingKept DEF SnapshotInv
  <1>5. snapshot' = Ticking(readiness)'
    BY <1>1, <1>3, <1>4
  <1> QED  BY <1>2, <1>5 DEF SnapshotInv

(* Whatever the commits did and skipped: at every tick the list the game   *)
(* loop ticks from is the one a rebuild from the chunk map would give.     *)
THEOREM SnapshotNeverStale == Spec => []SnapshotIsCurrent
  <1>1. Init => SnapshotInv
    <2> SUFFICES ASSUME Init PROVE SnapshotInv
      OBVIOUS
    <2>1. \A p \in Positions : ~ Listed(p)
      BY DEF Init, Zero, NoHolder, Listed
    <2>2. Ticking(readiness) = {}
      BY <2>1, TickingIsRows
    <2> QED  BY <2>2 DEF Init, SnapshotInv
  <1>2. ReadyInv /\ ReadyInv' /\ SnapshotInv /\ [Next]_vars => SnapshotInv'
    <2> SUFFICES ASSUME ReadyInv, ReadyInv', SnapshotInv, [Next]_vars PROVE SnapshotInv'
      OBVIOUS
    <2>1. ASSUME UNCHANGED <<chunks, level, readiness, phase, rebuild, snapshot, held, todo>>
          PROVE  SnapshotInv'
      <3>1. Ticking(readiness)' = Ticking(readiness)
        BY <2>1, TickingKept
      <3> QED  BY <2>1, <3>1 DEF SnapshotInv
    <2>2. CASE Generation \/ UNCHANGED vars
      <3>1. UNCHANGED <<chunks, level, readiness, phase, rebuild, snapshot, held, todo>>
        BY <2>2 DEF Generation, Initialize, QueuePublication, Finalize, vars, holders, commit
      <3> QED  BY <2>1, <3>1
    <2>3. CASE Drain
      <3>1. /\ UNCHANGED <<chunks, level, readiness, rebuild, snapshot>>
            /\ phase' = "Draining"
        BY <2>3 DEF Drain, holders
      <3>2. Ticking(readiness)' = Ticking(readiness)
        BY <3>1, TickingKept
      <3> QED  BY <3>1, <3>2 DEF SnapshotInv
    <2> QED  BY <2>2, <2>3, SnapshotPrepare, SnapshotLifecycle, SnapshotReconcile DEF Next, Lifecycle
  <1>3. SnapshotInv => SnapshotIsCurrent
    BY DEF SnapshotInv, SnapshotIsCurrent
  <1> QED  BY <1>1, <1>2, <1>3, ReadyInvariant, PTL DEF Spec

-----------------------------------------------------------------------------
(* Nobody is left behind.  A chunk whose Full status the index and the     *)
(* block entities do not know of yet is owed a look: its publication is    *)
(* still to be queued, queued or drained, or the commit has it among its   *)
(* changes.                                                                *)
Owed(p) == stage[p] = "Initialized" \/ <<p, chunks[p]>> \in publications \cup drained

EpochInv ==
    /\ phase # "Draining" => drained = {}
    /\ phase = "Idle" => dirty = {} /\ changed = {}
    /\ changed \subseteq dirty /\ (changed = {} => dirty = {})

CompleteInv ==
    \A p \in Positions : Contributes(p) =>
        /\ contributors[p] = chunks[p] \/ Owed(p) \/ p \in changed
        /\ activated[p] \/ Owed(p)

(* target_ticking_readiness; that the chunk is Full follows from the       *)
(* counters, which count it too.                                           *)
Reached(load, nearCount, wideCount) ==
    IF load >= EntityTicking /\ wideCount = EntityCount THEN 2
    ELSE IF load >= BlockTicking /\ nearCount = BlockCount THEN 1
    ELSE 0

(* Outside the dirty centers readiness and the save dependency are what    *)
(* the counters and levels ask for.                                        *)
CurrentInv ==
    \A p \in Positions : p \notin dirty /\ chunks[p] # NoHolder =>
        /\ readiness[p] = Reached(level[p].load, near[p], wide[p])
        /\ pending[p] = IF readiness[p] < Desired(level[p].load) THEN chunks[p] ELSE NoHolder

(* Nothing waits for a chunk that is gone or will be in this commit.       *)
GoneInv ==
    \A p \in Positions :
        chunks[p] = NoHolder \/ (phase = "Committing" /\ p \in todo /\ held[p].load = NotLoaded)
            => pending[p] = NoHolder

LookInv == EpochInv /\ CompleteInv /\ CurrentInv /\ GoneInv

LEMMA TargetReached ==
    ASSUME ReadyInv, NEW p \in Positions, NEW load
    PROVE  Target(p, load, near[p], wide[p]) = Reached(load, near[p], wide[p])
  <1>1. stage[p] = "Making" => near[p] # BlockCount /\ wide[p] # EntityCount
    <2>1. p \in Near[p] /\ Near[p] \subseteq Wide[p]
      BY SquaresAssumption
    <2>2. FullSquares
      BY FullCountIsFullSquare DEF ReadyInv
    <2> QED  BY <2>1, <2>2 DEF FullSquares, ReadyInv, ContributorsInv, Contributes
  <1> QED  BY <1>1 DEF Target, Reached

(* The counters of a chunk depend on its wide square only.                 *)
LEMMA CountsKept ==
    ASSUME CountsInv, CountsInv', NEW p \in Positions,
           \A q \in Wide[p] : contributors'[q] # NoHolder <=> contributors[q] # NoHolder
    PROVE  near'[p] = near[p] /\ wide'[p] = wide[p]
  <1>1. Near[p] \subseteq Wide[p]
    BY SquaresAssumption
  <1>2. {q \in Near[p] : contributors'[q] # NoHolder} = {q \in Near[p] : contributors[q] # NoHolder}
    BY <1>1
  <1>3. {q \in Wide[p] : contributors'[q] # NoHolder} = {q \in Wide[p] : contributors[q] # NoHolder}
    OBVIOUS
  <1> QED  BY <1>2, <1>3 DEF CountsInv

LEMMA LookGeneration ==
    ASSUME ReadyInv, LookInv, NEW p \in Positions,
           Initialize(p) \/ QueuePublication(p) \/ Finalize(p)
    PROVE  LookInv'
  <1>1. /\ UNCHANGED <<contributors, near, wide, born, chunks, level, readiness, held, todo, phase>>
        /\ UNCHANGED <<drained, pending, rebuild, snapshot, dirty, deferred, changed, activated>>
    BY DEF Initialize, QueuePublication, Finalize, holders, index, queue, commit
  <1>2. EpochInv' /\ CurrentInv' /\ GoneInv'
    BY <1>1 DEF LookInv, EpochInv, CurrentInv, GoneInv
  <1>3. \A q \in Positions \ {p} : stage'[q] = stage[q]
    BY DEF ReadyInv, HoldersInv, Initialize, QueuePublication, Finalize
  <1>4. publications \subseteq publications'
    BY DEF Initialize, QueuePublication, Finalize, queue
  <1>5. ASSUME NEW q \in Positions, Contributes(q)'
        PROVE  \/ Owed(q)'
               \/ Contributes(q) /\ ~ Owed(q)
    <2>1. CASE q # p
      BY <1>1, <1>3, <1>4, <1>5, <2>1 DEF Owed, Contributes
    <2>2. CASE q = p
      <3>1. CASE Initialize(p)
        BY <2>2, <3>1 DEF Initialize, Owed, ReadyInv, HoldersInv
      <3>2. CASE QueuePublication(p)
        <4>1. chunks[p] = born[p]
          BY <1>1, <1>5, <2>2 DEF Contributes, ReadyInv, HoldersInv
        <4> QED  BY <1>1, <2>2, <3>2, <4>1 DEF QueuePublication, Owed
      <3>3. CASE Finalize(p)
        <4>1. chunks[p] = NoHolder
          BY <3>3 DEF Finalize, ReadyInv, HoldersInv
        <4> QED  BY <1>1, <1>5, <2>2, <4>1 DEF Contributes
      <3> QED  BY <3>1, <3>2, <3>3
    <2> QED  BY <2>1, <2>2
  <1>6. CompleteInv'
    BY <1>1, <1>5 DEF LookInv, CompleteInv
  <1> QED  BY <1>2, <1>6 DEF LookInv

LEMMA LookLifecycle ==
    ASSUME ReadyInv, LookInv, NEW p \in Positions,
           Relevel(p) \/ Unload(p) \/ Revive(p) \/ Defer(p) \/ Create(p) \/ Skip(p)
    PROVE  LookInv'
  <1>1. /\ UNCHANGED <<contributors, near, wide, held, phase, drained, pending, rebuild, snapshot>>
        /\ UNCHANGED <<dirty, changed>>
        /\ p \in todo /\ todo' = todo \ {p} /\ phase = "Committing"
    BY DEF Relevel, Unload, Revive, Defer, Create, Skip, Change, holders, index, queue, commit
  <1>2. \A q \in Positions \ {p} : UNCHANGED <<chunks[q], level[q], stage[q], readiness[q], activated[q]>>
    BY DEF ReadyInv, HoldersInv, TickInv, Relevel, Unload, Revive, Defer, Create, Skip, holders
  <1>3. p \in changed /\ p \in dirty
    BY <1>1 DEF ReadyInv, CommitTypes, LookInv, EpochInv
  <1>4. EpochInv'
    BY <1>1 DEF LookInv, EpochInv
  <1>5. CurrentInv'
    BY <1>1, <1>2, <1>3 DEF LookInv, CurrentInv
  <1>6. GoneInv'
    <2>1. chunks'[p] = NoHolder => pending[p] = NoHolder
      <3>1. CASE Unload(p)
        BY <1>1, <3>1 DEF Unload, LookInv, GoneInv
      <3>2. CASE Relevel(p) \/ Revive(p) \/ Create(p)
        BY <3>2 DEF Relevel, Revive, Create, ReadyInv, HoldersInv, NoHolder
      <3>3. CASE Defer(p) \/ Skip(p)
        BY <3>3 DEF Defer, Skip, holders, LookInv, GoneInv
      <3> QED  BY <3>1, <3>2, <3>3
    <2> QED  BY <1>1, <1>2, <2>1 DEF LookInv, GoneInv
  <1>7. publications \subseteq publications'
    BY DEF Relevel, Unload, Revive, Defer, Create, Skip, Republished, queue
  <1>8. Contributes(p)' => activated'[p] \/ Owed(p)'
    <2>1. CASE Relevel(p)
      <3>1. /\ level'[p] = held[p] /\ UNCHANGED <<chunks, stage, activated>>
            /\ publications' = Republished(p, level[p].load)
        BY <2>1 DEF Relevel, ReadyInv, HoldersInv
      <3>2. CASE level[p].load >= IsFull
        BY <1>1, <1>7, <3>1, <3>2 DEF LookInv, CompleteInv, Contributes, Owed
      <3>3. CASE ~ (level[p].load >= IsFull)
        <4>1. level[p].load < IsFull
          BY <3>3 DEF ReadyInv, HoldersInv, Level, IsFull, NotLoaded, EntityTicking
        <4>2. Contributes(p)' => <<p, chunks'[p]>> \in publications'
          BY <3>1, <4>1 DEF Republished, Contributes, ReadyInv, HoldersInv
        <4> QED  BY <4>2 DEF Owed
      <3> QED  BY <3>2, <3>3
    <2>2. CASE Revive(p)
      <3>1. /\ level'[p] = held[p] /\ UNCHANGED stage /\ chunks'[p] = born[p]
            /\ publications' = Republished(p, NotLoaded)
        BY <2>2 DEF Revive, ReadyInv, HoldersInv
      <3>2. Contributes(p)' => <<p, chunks'[p]>> \in publications'
        BY <3>1 DEF Republished, Contributes, NotLoaded, IsFull
      <3> QED  BY <3>2 DEF Owed
    <2>3. CASE Unload(p) \/ Create(p)
      BY <2>3 DEF Unload, Create, Contributes, ReadyInv, HoldersInv
    <2>4. CASE Defer(p) \/ Skip(p)
      BY <1>7, <2>4 DEF Defer, Skip, holders, queue, LookInv, CompleteInv, Contributes, Owed
    <2> QED  BY <2>1, <2>2, <2>3, <2>4
  <1>9. CompleteInv'
    <2>1. ASSUME NEW q \in Positions \ {p}, Contributes(q)'
          PROVE  /\ contributors'[q] = chunks'[q] \/ Owed(q)' \/ q \in changed'
                 /\ activated'[q] \/ Owed(q)'
      <3>1. Contributes(q) /\ (Owed(q) => Owed(q)')
        BY <1>1, <1>2, <1>7, <2>1 DEF Contributes, Owed
      <3> QED  BY <1>1, <1>2, <3>1 DEF LookInv, CompleteInv
    <2> QED  BY <1>1, <1>3, <1>8, <2>1 DEF CompleteInv
  <1> QED  BY <1>4, <1>5, <1>6, <1>9 DEF LookInv

LEMMA LookDrain ==
    ASSUME ReadyInv, LookInv, Drain
    PROVE  LookInv'
  <1>1. /\ UNCHANGED <<born, chunks, unloading, level, stage, activated, readiness>>
        /\ UNCHANGED <<contributors, near, wide, dirty, pending>>
        /\ UNCHANGED <<changed, todo, held, deferred>> /\ phase = "Committing"
        /\ phase' = "Draining" /\ drained' = publications /\ publications' = {}
    BY DEF Drain, holders, index
  <1>2. drained = {}
    BY <1>1 DEF LookInv, EpochInv
  <1>3. \A p \in Positions : (Owed(p)' <=> Owed(p)) /\ (Contributes(p)' <=> Contributes(p))
    BY <1>1, <1>2 DEF Owed, Contributes
  <1>4. EpochInv' /\ CurrentInv' /\ GoneInv'
    BY <1>1 DEF LookInv, EpochInv, CurrentInv, GoneInv
  <1>5. CompleteInv'
    BY <1>1, <1>3 DEF LookInv, CompleteInv
  <1> QED  BY <1>4, <1>5 DEF LookInv

LEMMA LookPrepare ==
    ASSUME ReadyInv, ReadyInv', LookInv, NEW new \in LevelMaps, Prepare(new)
    PROVE  LookInv'
  <1> DEFINE changes == {p \in Positions : new[p] # held[p]} \cup deferred
             leaving == Leaving(changes, new)
             touched == Centers(leaving) \cup changes
             candidates == {p \in touched : chunks[p] # NoHolder}
             load == [p \in Positions |-> IF p \in changes THEN new[p].load ELSE level[p].load]
             ready == [p \in Positions |->
                         IF p \in candidates
                         THEN Demoted(readiness[p], Target(p, load[p], near'[p], wide'[p]))
                         ELSE readiness[p]]
  <1>1. /\ phase = "Idle" /\ phase' = "Committing" /\ changed' = changes /\ todo' = changes
        /\ held' = new /\ dirty' = touched
        /\ contributors' = [p \in Positions |-> IF p \in leaving THEN NoHolder ELSE contributors[p]]
        /\ readiness' = ready
        /\ pending' = UpdatedPending(candidates, ready, load)
        /\ UNCHANGED <<born, chunks, unloading, level, stage, activated, publications, drained>>
    BY DEF Prepare, holders, queue
  <1>2. changes \subseteq Positions /\ leaving \subseteq changes /\ new \in [Positions -> Level]
    BY SquaresAssumption DEF ReadyInv, CommitTypes, Leaving
  <1>3. drained = {} /\ dirty = {} /\ changed = {}
    BY <1>1 DEF LookInv, EpochInv
  <1> HIDE DEF changes, leaving, candidates, load
  <1>4. EpochInv'
    <2>1. changes = {} => Centers(leaving) = {}
      BY <1>2 DEF Centers
    <2> QED  BY <1>1, <1>3, <2>1 DEF EpochInv
  <1>5. CompleteInv'
    <2>1. \A p \in Positions : (Owed(p)' <=> Owed(p)) /\ (Contributes(p)' <=> Contributes(p))
      BY <1>1 DEF Owed, Contributes
    <2>2. \A p \in Positions : contributors'[p] = contributors[p] \/ p \in changes
      BY <1>1, <1>2
    <2> QED  BY <1>1, <1>3, <2>1, <2>2 DEF LookInv, CompleteInv
  <1>6. CurrentInv'
    <2> SUFFICES ASSUME NEW p \in Positions, p \notin touched, chunks[p] # NoHolder
                 PROVE  /\ readiness'[p] = Reached(level[p].load, near'[p], wide'[p])
                        /\ pending'[p] = IF readiness'[p] < Desired(level[p].load)
                                         THEN chunks[p] ELSE NoHolder
      BY <1>1 DEF CurrentInv
    <2>1. p \notin candidates /\ p \notin Centers(leaving)
      BY DEF candidates
    <2>2. readiness'[p] = readiness[p] /\ pending'[p] = pending[p]
      BY <1>1, <2>1 DEF UpdatedPending
    <2>3. \A q \in Wide[p] : contributors'[q] # NoHolder <=> contributors[q] # NoHolder
      <3> SUFFICES ASSUME NEW q \in Wide[p] PROVE contributors'[q] = contributors[q]
        OBVIOUS
      <3>1. q \in Positions /\ p \in Wide[q]
        BY SquaresAssumption
      <3>2. q \notin leaving
        BY <2>1, <3>1 DEF Centers
      <3> QED  BY <1>1, <3>1, <3>2
    <2>4. near'[p] = near[p] /\ wide'[p] = wide[p]
      BY <2>3, CountsKept DEF ReadyInv
    <2> QED  BY <1>3, <2>2, <2>4 DEF LookInv, CurrentInv
  <1>7. GoneInv'
    <2> SUFFICES ASSUME NEW p \in Positions,
                        chunks[p] = NoHolder \/ (p \in changes /\ new[p].load = NotLoaded)
                 PROVE  pending'[p] = NoHolder
      BY <1>1 DEF GoneInv
    <2>1. CASE chunks[p] = NoHolder
      <3>1. pending[p] = NoHolder /\ p \notin candidates
        BY <2>1 DEF LookInv, GoneInv, candidates
      <3> QED  BY <1>1, <3>1 DEF UpdatedPending
    <2>2. CASE p \in changes /\ new[p].load = NotLoaded /\ chunks[p] # NoHolder
      <3>1. p \in candidates /\ load[p] = NotLoaded
        BY <2>2 DEF candidates, load
      <3>2. readiness'[p] \in Readiness
        BY DEF ReadyInv, TickInv
      <3>3. Desired(load[p]) = 0
        BY <3>1 DEF Desired, NotLoaded, EntityTicking, BlockTicking
      <3>4. ~ (ready[p] < Desired(load[p]))
        BY <1>1, <3>2, <3>3 DEF Readiness
      <3> QED  BY <1>1, <3>1, <3>4 DEF UpdatedPending
    <2> QED  BY <2>1, <2>2
  <1> QED  BY <1>4, <1>5, <1>6, <1>7 DEF LookInv

LEMMA LookReconcile ==
    ASSUME ReadyInv, ReadyInv', LookInv, Reconcile
    PROVE  LookInv'
  <1> DEFINE published == {p \in Positions : chunks[p] # NoHolder /\ <<p, chunks[p]>> \in drained
                                             /\ Contributes(p)}
             looked == changed \cup published
             current == [p \in Positions |-> IF Contributes(p) THEN chunks[p] ELSE NoHolder]
             moved == {p \in looked : current[p] # contributors[p]}
             touched == IF drained = {} /\ changed = {} THEN {} ELSE dirty \cup changed \cup Centers(moved)
             candidates == {p \in touched : chunks[p] # NoHolder}
             load == [p \in Positions |-> level[p].load]
             ready == FinalReadiness(candidates)
  <1>1. /\ phase' = "Idle" /\ changed' = {} /\ drained' = {} /\ dirty' = {}
        /\ contributors' = [p \in Positions |-> IF p \in looked THEN current[p] ELSE contributors[p]]
        /\ activated' = [p \in Positions |-> activated[p] \/ p \in published]
        /\ readiness' = ready
        /\ pending' = UpdatedPending(candidates, ready, load)
        /\ UNCHANGED <<born, chunks, unloading, level, stage, publications>>
    BY DEF Reconcile
  <1>2. looked \subseteq Positions /\ moved \subseteq Positions
    BY DEF ReadyInv, CommitTypes
  <1>3. drained = {} /\ changed = {} => published = {} /\ moved = {} /\ dirty = {}
    BY DEF LookInv, EpochInv
  <1>4. Centers(moved) \subseteq touched /\ dirty \subseteq touched
    <2>1. moved = {} => Centers(moved) = {}
      BY DEF Centers
    <2> QED  BY <1>3, <2>1
  <1>5. EpochInv'
    BY <1>1 DEF EpochInv
  <1>6. CompleteInv'
    <2> SUFFICES ASSUME NEW p \in Positions, Contributes(p)
                 PROVE  /\ contributors'[p] = chunks[p] \/ Owed(p)'
                        /\ activated'[p] \/ Owed(p)'
      BY <1>1 DEF CompleteInv, Contributes
    <2>1. chunks[p] # NoHolder
      BY DEF Contributes
    <2>2. CASE p \in published
      <3>1. activated'[p]
        BY <1>1, <2>2
      <3>2. contributors'[p] = chunks[p]
        BY <1>1, <2>2
      <3> QED  BY <3>1, <3>2
    <2>3. CASE p \notin published
      <3>1. Owed(p) => Owed(p)'
        BY <1>1, <2>1, <2>3 DEF Owed
      <3>2. activated[p] => activated'[p]
        BY <1>1
      <3>3. contributors'[p] = chunks[p] \/ (contributors'[p] = contributors[p] /\ p \notin changed)
        BY <1>1
      <3>4. /\ contributors[p] = chunks[p] \/ Owed(p) \/ p \in changed
            /\ activated[p] \/ Owed(p)
        BY DEF LookInv, CompleteInv
      <3> HIDE DEF published, looked, current
      <3> QED  BY <3>1, <3>2, <3>3, <3>4
    <2> QED  BY <2>2, <2>3
  <1> HIDE DEF published, looked, moved, touched, load
  <1>7. CurrentInv'
    <2> SUFFICES ASSUME NEW p \in Positions, chunks[p] # NoHolder
                 PROVE  /\ readiness'[p] = Reached(level[p].load, near'[p], wide'[p])
                        /\ pending'[p] = IF readiness'[p] < Desired(level[p].load)
                                         THEN chunks[p] ELSE NoHolder
      BY <1>1 DEF CurrentInv
    <2>1. CASE p \in touched
      <3>1. p \in candidates
        BY <2>1
      <3>2. readiness'[p] = Target(p, level[p].load, near'[p], wide'[p])
        BY <1>1, <3>1 DEF FinalReadiness
      <3>3. Target(p, level[p].load, near'[p], wide'[p]) = Reached(level[p].load, near'[p], wide'[p])
        <4>1. FullSquares'
          BY FullCountIsFullSquareNext DEF ReadyInv
        <4>2. p \in Near[p] /\ Near[p] \subseteq Wide[p]
          BY SquaresAssumption
        <4>3. contributors'[p] # NoHolder => stage[p] # "Making"
          BY <1>1 DEF ReadyInv, ContributorsInv, Contributes
        <4>4. stage[p] = "Making" => near'[p] # BlockCount /\ wide'[p] # EntityCount
          BY <4>1, <4>2, <4>3 DEF FullSquares
        <4> QED  BY <4>4 DEF Target, Reached
      <3>4. load[p] = level[p].load
        BY DEF load
      <3>5. pending'[p] = IF readiness'[p] < Desired(level[p].load) THEN chunks[p] ELSE NoHolder
        <4>1. pending'[p] = IF ready[p] < Desired(load[p]) THEN chunks[p] ELSE NoHolder
          BY <1>1, <3>1 DEF UpdatedPending
        <4> QED  BY <1>1, <3>4, <4>1
      <3> QED  BY <3>2, <3>3, <3>5
    <2>2. CASE p \notin touched
      <3>1. readiness'[p] = readiness[p] /\ pending'[p] = pending[p]
        BY <1>1, <2>2 DEF UpdatedPending, FinalReadiness
      <3>2. \A q \in Wide[p] : contributors'[q] # NoHolder <=> contributors[q] # NoHolder
        <4> SUFFICES ASSUME NEW q \in Wide[p] PROVE contributors'[q] = contributors[q]
          OBVIOUS
        <4>1. q \in Positions /\ p \in Wide[q]
          BY SquaresAssumption
        <4>2. q \notin moved
          BY <1>4, <2>2, <4>1 DEF Centers
        <4> QED  BY <1>1, <4>1, <4>2 DEF moved
      <3>3. near'[p] = near[p] /\ wide'[p] = wide[p]
        BY <3>2, CountsKept DEF ReadyInv
      <3>4. p \notin dirty
        BY <1>4, <2>2
      <3> QED  BY <3>1, <3>3, <3>4 DEF LookInv, CurrentInv
    <2> QED  BY <2>1, <2>2
  <1>8. GoneInv'
    <2> SUFFICES ASSUME NEW p \in Positions, chunks[p] = NoHolder PROVE pending'[p] = NoHolder
      BY <1>1 DEF GoneInv
    <2>1. pending'[p] = pending[p]
      BY <1>1 DEF UpdatedPending
    <2> QED  BY <2>1 DEF LookInv, GoneInv
  <1> QED  BY <1>5, <1>6, <1>7, <1>8 DEF LookInv

(* Whenever a commit has ended and every publication was taken, nothing is *)
(* left behind: readiness, activation and the save dependencies are what   *)
(* rebuild_ticking_readiness would compute from the chunk map, whatever    *)
(* was published, revived, replaced or deferred while commits ran.         *)
THEOREM NobodyIsLeftBehind == Spec => []NobodyLeftBehind
  <1>1. Init => LookInv
    <2> SUFFICES ASSUME Init PROVE LookInv
      OBVIOUS
    <2> QED  BY DEF Init, Zero, NoHolder, LookInv, EpochInv, CompleteInv, CurrentInv, GoneInv, Contributes
  <1>2. ReadyInv /\ ReadyInv' /\ LookInv /\ [Next]_vars => LookInv'
    <2> SUFFICES ASSUME ReadyInv, ReadyInv', LookInv, [Next]_vars PROVE LookInv'
      OBVIOUS
    <2>1. CASE UNCHANGED vars
      <3>1. /\ UNCHANGED <<chunks, level, stage, activated, readiness, contributors, near, wide, dirty>>
            /\ UNCHANGED <<publications, drained, pending, phase, changed, todo, held>>
        BY <2>1 DEF vars, holders, index, queue, commit
      <3>2. EpochInv' /\ CurrentInv' /\ GoneInv'
        BY <3>1 DEF LookInv, EpochInv, CurrentInv, GoneInv
      <3>3. CompleteInv'
        BY <3>1 DEF LookInv, CompleteInv, Contributes, Owed
      <3> QED  BY <3>2, <3>3 DEF LookInv
    <2> QED  BY <2>1, LookGeneration, LookPrepare, LookLifecycle, LookDrain, LookReconcile
             DEF Next, Generation, Lifecycle
  <1>3. ReadyInv /\ LookInv => NobodyLeftBehind
    <2> SUFFICES ASSUME ReadyInv, LookInv, Settled, NEW p \in Positions
                 PROVE  /\ chunks[p] # NoHolder => readiness[p] = RebuiltReadiness(p)
                        /\ Contributes(p) => activated[p]
                        /\ pending[p] = IF readiness[p] < Desired(level[p].load)
                                        THEN chunks[p] ELSE NoHolder
      BY DEF NobodyLeftBehind
    <2>1. phase = "Idle" /\ publications = {} /\ drained = {} /\ dirty = {} /\ changed = {}
      BY DEF Settled, LookInv, EpochInv
    <2>2. \A q \in Positions : Contributes(q) => ~ Owed(q)
      BY <2>1 DEF Settled, Owed, Contributes, Exists
    <2>3. \A q \in Positions : Contributes(q) <=> contributors[q] # NoHolder
      BY <2>1, <2>2 DEF LookInv, CompleteInv, ReadyInv, ContributorsInv, Contributes
    <2>4. Contributes(p) => activated[p]
      BY <2>2 DEF LookInv, CompleteInv
    <2>5. /\ near[p] = Cardinality({q \in Near[p] : Contributes(q)})
          /\ wide[p] = Cardinality({q \in Wide[p] : Contributes(q)})
      <3>1. /\ {q \in Near[p] : Contributes(q)} = {q \in Near[p] : contributors[q] # NoHolder}
            /\ {q \in Wide[p] : Contributes(q)} = {q \in Wide[p] : contributors[q] # NoHolder}
        BY <2>3, SquareFinite
      <3> QED  BY <3>1 DEF ReadyInv, CountsInv
    <2>6. chunks[p] # NoHolder => readiness[p] = RebuiltReadiness(p)
      <3>1. chunks[p] # NoHolder => readiness[p] = Reached(level[p].load, near[p], wide[p])
        BY <2>1 DEF LookInv, CurrentInv
      <3> QED  BY <2>5, <3>1, TargetReached DEF RebuiltReadiness
    <2>7. pending[p] = IF readiness[p] < Desired(level[p].load) THEN chunks[p] ELSE NoHolder
      <3>1. CASE chunks[p] = NoHolder
        BY <3>1 DEF LookInv, GoneInv
      <3>2. CASE chunks[p] # NoHolder
        BY <2>1, <3>2 DEF LookInv, CurrentInv
      <3> QED  BY <3>1, <3>2
    <2> QED  BY <2>4, <2>6, <2>7
  <1> QED  BY <1>1, <1>2, <1>3, ReadyInvariant, PTL DEF Spec
=============================================================================
