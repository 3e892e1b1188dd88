------------------------- MODULE ChunkTicketsProofs -------------------------
(***************************************************************************)
(* Proofs about ChunkTickets, for any positions and distances, tickets,    *)
(* owners and bounds.                                                      *)
(*                                                                         *)
(* The manager, the change list, the queue and the commit each know a part *)
(* of what was submitted.  SchedulingInv ties them to the history: the     *)
(* queue and the taken batches are the part of the submissions the manager *)
(* has not applied yet, and what the chunks are held at differs from the   *)
(* manager's levels by no more than the pending changes.                   *)
(***************************************************************************)
EXTENDS ChunkTickets, WellFoundedInduction, FiniteSetTheorems, TLAPS

-----------------------------------------------------------------------------
(* Levels.                                                                 *)

LEMMA MinOfNaturals ==
    ASSUME NEW S, S \subseteq Nat, S # {}
    PROVE  Min(S) \in S /\ \A y \in S : Min(S) <= y
  <1> DEFINE R == OpToRel(<, Nat)
  <1>1. IsWellFoundedOn(R, Nat)
    BY NatLessThanWellFounded
  <1>2. \E x \in S : \A y \in S : ~ (<<y, x>> \in R)
    <2> HIDE DEF R
    <2> QED  BY <1>1, WFMin
  <1>3. \E x \in S : \A y \in S : x <= y
    <2>1. PICK x \in S : \A y \in S : ~ (<<y, x>> \in R)
      BY <1>2
    <2>2. ASSUME NEW y \in S PROVE x <= y
      <3>1. <<y, x>> \in Nat \X Nat
        OBVIOUS
      <3>2. ~ (y < x)
        BY <2>1, <3>1 DEF OpToRel
      <3> QED  BY <3>2
    <2> QED  BY <2>2
  <1> QED  BY <1>3 DEF Min

LEMMA StrongestKind ==
    ASSUME NEW S, S \subseteq 0 .. MaxLevel
    PROVE  /\ Strongest(S) \in 0 .. NoLevel
           /\ Strongest(S) = NoLevel <=> S = {}
           /\ \A y \in S : Strongest(S) <= y
  <1> USE LevelsAssumption
  <1>1. CASE S = {}
    BY <1>1 DEF Strongest, NoLevel
  <1>2. CASE S # {}
    <2>1. S \subseteq Nat
      OBVIOUS
    <2>2. Min(S) \in S /\ \A y \in S : Min(S) <= y
      BY <1>2, <2>1, MinOfNaturals
    <2>3. Strongest(S) = Min(S)
      BY <1>2 DEF Strongest
    <2>4. Min(S) \in 0 .. MaxLevel
      BY <2>2
    <2> QED  BY <1>2, <2>2, <2>3, <2>4 DEF NoLevel
  <1> QED  BY <1>1, <1>2

LEMMA LevelsTyped ==
    ASSUME NEW t
    PROVE  Levels(t) \in [Positions -> Level]
  <1> SUFFICES ASSUME NEW p \in Positions
               PROVE  /\ Strongest(LoadsAt(t, p)) \in 0 .. NoLevel
                      /\ Strongest(SimulationsAt(t, p)) \in 0 .. NoLevel
    BY DEF Levels, Level
  <1>1. LoadsAt(t, p) \subseteq 0 .. MaxLevel /\ SimulationsAt(t, p) \subseteq 0 .. MaxLevel
    BY DEF LoadsAt, SimulationsAt
  <1> QED  BY <1>1, StrongestKind

(* A chunk without a load level has no simulation level: a removed         *)
(* position's change, which clears both, tells its consumer the truth.     *)
LEMMA UnloadedIsNotSimulated ==
    ASSUME NEW t, NEW p \in Positions, Levels(t)[p].load = NoLevel
    PROVE  Levels(t)[p].sim = NoLevel
  <1>1. LoadsAt(t, p) \subseteq 0 .. MaxLevel /\ SimulationsAt(t, p) \subseteq 0 .. MaxLevel
    BY DEF LoadsAt, SimulationsAt
  <1>2. LoadsAt(t, p) = {}
    BY <1>1, StrongestKind DEF Levels
  <1>3. ASSUME NEW l \in SimulationsAt(t, p) PROVE FALSE
    <2>1. PICK s \in Held(t) : /\ Distance[<<s[1], p>>] <= SimulationRadius(s[2].sim)
                               /\ l = s[2].sim + Distance[<<s[1], p>>]
      BY <1>3 DEF SimulationsAt
    <2> DEFINE d == Distance[<<s[1], p>>]
    <2>2. s[1] \in Positions /\ s[2] \in Tickets
      BY <2>1 DEF Held, Sources
    <2>3. d \in Nat
      BY <2>2, LevelsAssumption
    <2>4. s[2].load \in 0 .. MaxLevel /\ s[2].sim \in 0 .. NoLevel
      BY <2>2, LevelsAssumption
    <2>5. s[2].sim < NoLevel
      BY <1>1, <1>3, <2>1, <2>3, <2>4, LevelsAssumption DEF NoLevel
    <2>6. s[2].load + SimulationRadius(s[2].sim) <= MaxLevel
      BY <2>2, <2>5, SimulatesWhatItLoads
    <2>7. SimulationRadius(s[2].sim) \in Nat
      BY <2>4, LevelsAssumption DEF SimulationRadius, NoLevel
    <2>8. s[2].load + d \in 0 .. MaxLevel
      BY <2>1, <2>3, <2>4, <2>6, <2>7, LevelsAssumption
    <2>9. s[2].load + d \in LoadsAt(t, p)
      BY <2>1, <2>8 DEF LoadsAt
    <2> QED  BY <2>9, <1>2
  <1>4. SimulationsAt(t, p) = {}
    BY <1>3
  <1> QED  BY <1>1, <1>4, StrongestKind DEF Levels

(* The change list takes whoever has the old levels to the new ones.       *)
LEMMA ChangesAreExact ==
    ASSUME NEW old \in [Positions -> Level], NEW t
    PROVE  /\ Changes(old, Levels(t)) \subseteq [pos : Positions, level : Level]
           /\ \A c \in Changes(old, Levels(t)) : c.level = Levels(t)[c.pos]
           /\ \A p \in Positions :
                  old[p] = Levels(t)[p] \/ \E c \in Changes(old, Levels(t)) : c.pos = p
  <1> DEFINE new == Levels(t)
  <1>1. new \in [Positions -> Level]
    BY LevelsTyped
  <1>2. \A p \in Positions : new[p].load = NoLevel => new[p].sim = NoLevel
    BY UnloadedIsNotSimulated
  <1> HIDE DEF new
  <1>3. \A p \in Positions : new[p].load = NoLevel => new[p] = [load |-> NoLevel, sim |-> NoLevel]
    BY <1>1, <1>2 DEF Level
  <1>4. ASSUME NEW c \in Changes(old, new)
        PROVE  c \in [pos : Positions, level : Level] /\ c.level = new[c.pos]
    BY <1>1, <1>3 DEF Changes
  <1>5. ASSUME NEW p \in Positions, old[p] # new[p]
        PROVE  \E c \in Changes(old, new) : c.pos = p
    <2>1. old[p].load # new[p].load \/ old[p].sim # new[p].sim
      BY <1>1, <1>5 DEF Level
    <2>2. CASE new[p].load # old[p].load /\ new[p].load # NoLevel
      <3>1. [pos |-> p, level |-> new[p]] \in Changes(old, new)
        BY <2>2 DEF Changes
      <3> QED  BY <3>1
    <2>3. CASE new[p].load # old[p].load /\ new[p].load = NoLevel
      <3>1. [pos |-> p, level |-> [load |-> NoLevel, sim |-> NoLevel]] \in Changes(old, new)
        BY <2>3 DEF Changes
      <3> QED  BY <3>1
    <2>4. CASE new[p].load = old[p].load /\ new[p].sim # old[p].sim
      <3>1. [pos |-> p, level |-> new[p]] \in Changes(old, new)
        BY <2>4 DEF Changes
      <3> QED  BY <3>1
    <2> QED  BY <2>1, <2>2, <2>3, <2>4
  <1> QED  BY <1>4, <1>5 DEF new

LEMMA ApplyTyped ==
    ASSUME NEW t \in [Sources -> Nat], NEW b
    PROVE  Apply(t, b) \in [Sources -> Nat]
  BY DEF Apply

-----------------------------------------------------------------------------
(* The inductive invariant.                                                *)

Queued == [revision : Nat, batch : Batch]

OwnersInv ==
    /\ requests \in [Requests -> 0 .. nextRevision]
    /\ views \in [Players -> {NoView} \cup Views]
    /\ DOMAIN timed \subseteq Entries
    /\ timed = [e \in DOMAIN timed |-> timed[e]]
    /\ \A e \in DOMAIN timed : timed[e] \in 0 .. Timeout[e[1]]

HistoryInv ==
    /\ nextRevision \in 0 .. MaxRevision
    /\ asked \in Seq([Sources -> Nat]) /\ Len(asked) = nextRevision + 1
    /\ wanted \in Seq([Positions -> Level]) /\ Len(wanted) = nextRevision + 1
    /\ \A i \in 1 .. nextRevision + 1 : wanted[i] = Levels(asked[i])

(* `entry` is submission number r.                                         *)
IsSubmission(entry, r) ==
    entry.revision = r /\ asked[r + 1] = Apply(asked[r], entry.batch)

QueueInv ==
    /\ applied \in Nat
    /\ taken \in Seq(Queued) /\ operations \in Seq(Queued)
    /\ applied + Len(taken) + Len(operations) = nextRevision
    /\ \A i \in 1 .. Len(taken) : IsSubmission(taken[i], applied + i)
    /\ \A i \in 1 .. Len(operations) : IsSubmission(operations[i], applied + Len(taken) + i)
    /\ phase # "Applying" => taken = <<>>

ManagerInv ==
    /\ phase \in {"Idle", "Spawned", "Applying", "Ready", "Committing"}
    /\ tickets = asked[applied + 1]
    /\ levels \in [Positions -> Level] /\ held \in [Positions -> Level]
    /\ dirty \in BOOLEAN
    /\ ~ dirty => levels = Levels(tickets)
    /\ committed \in 0 .. applied
    /\ changes \subseteq [pos : Positions, level : Level]

(* How far the chunks are behind the manager.                              *)
HeldInv ==
    /\ phase \in {"Idle", "Spawned", "Applying"} => held = levels
    /\ phase \in {"Ready", "Committing"} =>
           /\ ~ dirty
           /\ \A c \in changes : c.level = levels[c.pos]
           /\ \A p \in Positions : held[p] = levels[p] \/ \E c \in changes : c.pos = p

SchedulingInv == OwnersInv /\ HistoryInv /\ QueueInv /\ ManagerInv /\ HeldInv

-----------------------------------------------------------------------------
(* Whatever an owner does, it submits one well-formed batch or none.       *)
LEMMA TimedSourceIsSource ==
    ASSUME NEW e \in Entries
    PROVE  TimedSource(e) \in Sources
  BY OwnersAssumption DEF Entries, TimedSource, Sources

LEMMA OwnerSubmits ==
    ASSUME OwnersInv, OwnerStep
    PROVE  NothingSubmitted \/ \E b \in Batch : Submit(b)
  <1>1. ASSUME NEW r \in Requests, Request(r) \/ Release(r)
        PROVE  \E b \in Batch : Submit(b)
    <2>1. RequestSources(r) \in SUBSET Sources
      BY OwnersAssumption
    <2>2. CASE Request(r)
      <3>1. [add |-> RequestSources(r), remove |-> {}] \in Batch
        BY <2>1 DEF Batch
      <3> QED  BY <2>2, <3>1 DEF Request
    <2>3. CASE Release(r)
      <3>1. [add |-> {}, remove |-> RequestSources(r)] \in Batch
        BY <2>1 DEF Batch
      <3> QED  BY <2>3, <3>1 DEF Release
    <2> QED  BY <1>1, <2>2, <2>3
  <1>2. ASSUME NEW u \in Players, NEW v \in Views, UpdateView(u, v)
        PROVE  \E b \in Batch : Submit(b)
    <2> DEFINE b == [add |-> {v}, remove |-> IF views[u] = NoView THEN {} ELSE {views[u]}]
    <2>1. b \in Batch
      BY OwnersAssumption DEF OwnersInv, Batch
    <2>2. Submit(b)
      BY <1>2 DEF UpdateView
    <2> HIDE DEF b
    <2> QED  BY <2>1, <2>2
  <1>3. ASSUME NEW u \in Players, RemovePlayer(u)
        PROVE  \E b \in Batch : Submit(b)
    <2>1. [add |-> {}, remove |-> {views[u]}] \in Batch
      BY <1>3, OwnersAssumption DEF OwnersInv, Batch, RemovePlayer
    <2> QED  BY <1>3, <2>1 DEF RemovePlayer
  <1>4. ASSUME NEW e \in Entries, PlaceTimed(e)
        PROVE  NothingSubmitted \/ \E b \in Batch : Submit(b)
    <2>1. [add |-> {TimedSource(e)}, remove |-> {}] \in Batch
      BY TimedSourceIsSource DEF Batch
    <2> QED  BY <1>4, <2>1 DEF PlaceTimed
  <1>5. ASSUME NEW p \in Places, RemoveSpawn(p)
        PROVE  \E b \in Batch : Submit(b)
    <2>1. <<SpawnKind, p>> \in Entries
      BY OwnersAssumption DEF Entries
    <2>2. [add |-> {}, remove |-> {TimedSource(<<SpawnKind, p>>)}] \in Batch
      BY <2>1, TimedSourceIsSource DEF Batch
    <2> QED  BY <1>5, <2>2 DEF RemoveSpawn
  <1>6. ASSUME NEW busy, Tick(busy)
        PROVE  NothingSubmitted \/ \E b \in Batch : Submit(b)
    <2> DEFINE aging == {e \in DOMAIN timed : e[1] # SpawnKind /\ e[2] \notin busy}
               gone == Expired(aging)
               b == [add |-> {}, remove |-> {TimedSource(e) : e \in gone}]
    <2>1. gone \subseteq Entries
      BY DEF OwnersInv, Expired
    <2>2. {TimedSource(e) : e \in gone} \subseteq Sources
      <3> HIDE DEF gone
      <3> QED  BY <2>1, TimedSourceIsSource
    <2>3. b \in Batch
      <3> HIDE DEF gone
      <3> QED  BY <2>2 DEF Batch
    <2>4. NothingSubmitted \/ Submit(b)
      BY <1>6 DEF Tick
    <2> HIDE DEF b
    <2> QED  BY <2>3, <2>4
  <1> QED  BY <1>1, <1>2, <1>3, <1>4, <1>5, <1>6 DEF OwnerStep

-----------------------------------------------------------------------------
(* A submission extends the history and the queue and nothing else.        *)
LEMMA SubmitKeeps ==
    ASSUME HistoryInv, QueueInv, ManagerInv, HeldInv, NEW b \in Batch, Submit(b)
    PROVE  /\ HistoryInv' /\ QueueInv' /\ ManagerInv' /\ HeldInv'
           /\ nextRevision' = nextRevision + 1
           /\ \A i \in 1 .. nextRevision + 1 : asked'[i] = asked[i] /\ wanted'[i] = wanted[i]
           /\ asked'[nextRevision + 2] = Apply(asked[nextRevision + 1], b)
  <1> DEFINE n == nextRevision
             new == Apply(asked[n + 1], b)
  <1>1. n \in Nat /\ n < MaxRevision /\ nextRevision' = n + 1
    BY OwnersAssumption DEF HistoryInv, Submit
  <1>2. asked[n + 1] \in [Sources -> Nat]
    BY <1>1 DEF HistoryInv
  <1>3. new \in [Sources -> Nat] /\ Levels(new) \in [Positions -> Level]
    BY <1>2, ApplyTyped, LevelsTyped
  <1> HIDE DEF new
  <1>4. asked' = Append(asked, new)
    BY DEF Submit, new
  <1>5. /\ asked' \in Seq([Sources -> Nat]) /\ Len(asked') = n + 2
        /\ \A i \in 1 .. n + 1 : asked'[i] = asked[i]
        /\ asked'[n + 2] = new
    BY <1>1, <1>3, <1>4 DEF HistoryInv
  <1>6. wanted' = Append(wanted, Levels(new))
    BY <1>5 DEF Submit
  <1>7. /\ wanted' \in Seq([Positions -> Level]) /\ Len(wanted') = n + 2
        /\ \A i \in 1 .. n + 1 : wanted'[i] = wanted[i]
        /\ wanted'[n + 2] = Levels(new)
    BY <1>1, <1>3, <1>6 DEF HistoryInv
  <1>8. HistoryInv'
    <2>1. ASSUME NEW i \in 1 .. nextRevision' + 1 PROVE wanted'[i] = Levels(asked'[i])
      <3>1. CASE i \in 1 .. n + 1
        BY <3>1, <1>5, <1>7 DEF HistoryInv
      <3>2. CASE i = n + 2
        BY <3>2, <1>5, <1>7
      <3> QED  BY <1>1, <3>1, <3>2
    <2>2. nextRevision' \in 0 .. MaxRevision
      BY <1>1, OwnersAssumption
    <2>3. Len(asked') = nextRevision' + 1 /\ Len(wanted') = nextRevision' + 1
      BY <1>1, <1>5, <1>7
    <2> QED  BY <1>5, <1>7, <2>1, <2>2, <2>3 DEF HistoryInv
  <1>9. QueueInv'
    <2> DEFINE entry == [revision |-> n + 1, batch |-> b]
    <2>1. entry \in Queued
      BY <1>1 DEF Queued
    <2>2. operations' = Append(operations, entry)
      BY DEF Submit
    <2>3. /\ taken' = taken /\ applied' = applied /\ phase' = phase
          /\ applied \in Nat /\ taken \in Seq(Queued) /\ operations \in Seq(Queued)
          /\ applied + Len(taken) + Len(operations) = n
      BY DEF Submit, manager, QueueInv
    <2>4. /\ operations' \in Seq(Queued) /\ Len(operations') = Len(operations) + 1
          /\ \A i \in 1 .. Len(operations) : operations'[i] = operations[i]
          /\ operations'[Len(operations) + 1] = entry
      BY <2>1, <2>2, <2>3
    <2>5. ASSUME NEW i \in 1 .. Len(taken') PROVE IsSubmission(taken[i], applied + i)'
      <3>1. /\ i \in 1 .. Len(taken) /\ applied + i \in 1 .. n /\ applied + i + 1 \in 1 .. n + 1
            /\ applied + i \in 1 .. n + 1
        BY <2>3, <1>1
      <3>2. IsSubmission(taken[i], applied + i)
        BY <3>1 DEF QueueInv
      <3> QED  BY <2>3, <3>1, <3>2, <1>5 DEF IsSubmission
    <2>6. ASSUME NEW i \in 1 .. Len(operations')
          PROVE  IsSubmission(operations[i], applied + Len(taken) + i)'
      <3> DEFINE r == applied + Len(taken) + i
      <3>1. CASE i \in 1 .. Len(operations)
        <4>1. r \in 1 .. n + 1 /\ r + 1 \in 1 .. n + 1
          BY <2>3, <3>1, <1>1
        <4>2. IsSubmission(operations[i], r)
          BY <3>1 DEF QueueInv
        <4> QED  BY <2>3, <2>4, <3>1, <4>1, <4>2, <1>5 DEF IsSubmission
      <3>2. CASE i = Len(operations) + 1
        <4>1. r = n + 1
          BY <2>3, <3>2
        <4>2. operations'[i] = entry
          BY <2>4, <3>2
        <4>3. asked'[n + 2] = Apply(asked'[n + 1], b)
          BY <1>1, <1>5 DEF new
        <4>4. entry.revision = r /\ entry.batch = b
          BY <4>1
        <4>5. asked'[r + 1] = Apply(asked'[r], b)
          BY <4>1, <4>3, <1>1
        <4> QED  BY <2>3, <4>2, <4>4, <4>5 DEF IsSubmission
      <3> QED  BY <2>3, <2>4, <3>1, <3>2
    <2>7. phase' # "Applying" => taken' = <<>>
      BY <2>3 DEF QueueInv
    <2>8. applied' + Len(taken') + Len(operations') = nextRevision'
      BY <1>1, <2>3, <2>4
    <2>9. applied' \in Nat /\ taken' \in Seq(Queued) /\ operations' \in Seq(Queued)
      BY <2>3, <2>4
    <2> QED  BY <2>5, <2>6, <2>7, <2>8, <2>9 DEF QueueInv
  <1>10. ManagerInv' /\ HeldInv'
    <2>1. applied + 1 \in 1 .. n + 1
      BY <1>1 DEF QueueInv
    <2> QED  BY <2>1, <1>5 DEF ManagerInv, HeldInv, Submit, manager
  <1> QED  BY <1>1, <1>5, <1>7, <1>8, <1>9, <1>10 DEF new

LEMMA NothingSubmittedKeeps ==
    ASSUME HistoryInv, QueueInv, ManagerInv, HeldInv, NothingSubmitted
    PROVE  HistoryInv' /\ QueueInv' /\ ManagerInv' /\ HeldInv'
  BY DEF NothingSubmitted, queue, manager, HistoryInv, QueueInv, IsSubmission, ManagerInv, HeldInv

-----------------------------------------------------------------------------
(* The steps of the epoch and of the boundary.                             *)

SchedulerInv == HistoryInv /\ QueueInv /\ ManagerInv /\ HeldInv

LEMMA StartEpochKeeps ==
    ASSUME SchedulerInv, StartEpoch PROVE SchedulerInv'
  BY DEF SchedulerInv, StartEpoch, owners, queue, manager, HistoryInv, QueueInv, IsSubmission,
         ManagerInv, HeldInv

LEMMA TakePendingKeeps ==
    ASSUME SchedulerInv, TakePending PROVE SchedulerInv'
  <1> USE DEF SchedulerInv
  <1>1. taken = <<>> /\ Len(taken) = 0
    BY DEF TakePending, QueueInv
  <1>2. QueueInv'
    <2>1. /\ taken' = operations /\ operations' = <<>> /\ applied' = applied
          /\ nextRevision' = nextRevision /\ asked' = asked /\ phase' = "Applying"
      BY DEF TakePending
    <2>2. operations' \in Seq(Queued) /\ Len(operations') = 0
      BY <2>1
    <2>3. applied \in Nat /\ Len(operations) \in Nat /\ operations \in Seq(Queued)
      BY DEF QueueInv
    <2>4. ASSUME NEW i \in 1 .. Len(operations)
          PROVE  IsSubmission(operations[i], applied + i)
      <3>1. IsSubmission(operations[i], applied + Len(taken) + i)
        BY DEF QueueInv
      <3>2. applied + Len(taken) + i = applied + i
        BY <1>1, <2>3
      <3> QED  BY <3>1, <3>2
    <2>5. ASSUME NEW i \in 1 .. Len(taken') PROVE IsSubmission(taken[i], applied + i)'
      BY <2>1, <2>4 DEF IsSubmission
    <2>6. applied' + Len(taken') + Len(operations') = nextRevision'
      BY <1>1, <2>1, <2>2, <2>3 DEF QueueInv
    <2> QED  BY <2>1, <2>2, <2>3, <2>5, <2>6 DEF QueueInv
  <1>3. HistoryInv' /\ ManagerInv' /\ HeldInv'
    BY DEF TakePending, HistoryInv, ManagerInv, HeldInv
  <1> QED  BY <1>2, <1>3

LEMMA ApplyNextKeeps ==
    ASSUME SchedulerInv, ApplyNext PROVE SchedulerInv'
  <1> USE DEF SchedulerInv
  <1>1. /\ taken \in Seq(Queued) /\ taken # <<>> /\ applied \in Nat /\ operations \in Seq(Queued)
        /\ applied + Len(taken) + Len(operations) = nextRevision
        /\ phase = "Applying" /\ nextRevision \in Nat
    BY DEF QueueInv, ApplyNext, HistoryInv
  <1>2. /\ Len(taken) \in Nat \ {0} /\ Head(taken) = taken[1] /\ Tail(taken) \in Seq(Queued)
        /\ Len(Tail(taken)) = Len(taken) - 1
        /\ \A i \in 1 .. Len(taken) - 1 : Tail(taken)[i] = taken[i + 1]
    BY <1>1
  <1>3. IsSubmission(taken[1], applied + 1)
    BY <1>1, <1>2 DEF QueueInv
  <1>4. /\ applied' = applied + 1 /\ taken' = Tail(taken) /\ operations' = operations
        /\ nextRevision' = nextRevision /\ asked' = asked /\ wanted' = wanted /\ phase' = phase
        /\ levels' = levels /\ held' = held /\ committed' = committed /\ changes' = changes
    BY <1>2, <1>3 DEF ApplyNext, queue, IsSubmission
  <1>5. tickets' = asked[applied + 2]
    <2>1. tickets' = Apply(asked[applied + 1], taken[1].batch)
      BY <1>2 DEF ApplyNext, ManagerInv
    <2>2. applied + 1 + 1 = applied + 2
      BY <1>1
    <2> QED  BY <2>1, <2>2, <1>3 DEF IsSubmission
  <1>6. QueueInv'
    <2>1. ASSUME NEW i \in 1 .. Len(taken') PROVE IsSubmission(taken[i], applied + i)'
      <3>1. i + 1 \in 1 .. Len(taken) /\ taken'[i] = taken[i + 1] /\ applied + (i + 1) = applied' + i
        BY <1>1, <1>2, <1>4
      <3>2. IsSubmission(taken[i + 1], applied + (i + 1))
        BY <3>1 DEF QueueInv
      <3> QED  BY <3>1, <3>2, <1>4 DEF IsSubmission
    <2>2. ASSUME NEW i \in 1 .. Len(operations')
          PROVE  IsSubmission(operations[i], applied + Len(taken) + i)'
      <3>1. applied' + Len(taken') + i = applied + Len(taken) + i
        BY <1>1, <1>2, <1>4
      <3>2. IsSubmission(operations[i], applied + Len(taken) + i)
        BY <1>4 DEF QueueInv
      <3> QED  BY <3>1, <3>2, <1>4 DEF IsSubmission
    <2>3. applied' + Len(taken') + Len(operations') = nextRevision' /\ applied' \in Nat
      BY <1>1, <1>2, <1>4
    <2> QED  BY <2>1, <2>2, <2>3, <1>1, <1>2, <1>4 DEF QueueInv
  <1>7. HistoryInv'
    BY <1>4 DEF HistoryInv
  <1>8. ManagerInv'
    <2>1. tickets' = asked'[applied' + 1]
      <3>1. applied' + 1 = applied + 2
        BY <1>1, <1>4
      <3> QED  BY <3>1, <1>4, <1>5
    <2>2. dirty' \in BOOLEAN /\ (~ dirty' => levels' = Levels(tickets'))
      BY <1>4 DEF ApplyNext, ManagerInv
    <2>3. committed' \in 0 .. applied'
      BY <1>1, <1>4 DEF ManagerInv
    <2> QED  BY <1>4, <2>1, <2>2, <2>3 DEF ManagerInv
  <1>9. HeldInv'
    BY <1>1, <1>4 DEF HeldInv
  <1> QED  BY <1>6, <1>7, <1>8, <1>9

LEMMA FinishEpochKeeps ==
    ASSUME SchedulerInv, FinishEpoch PROVE SchedulerInv'
  <1> USE DEF SchedulerInv
  <1>1. /\ phase = "Applying" /\ taken = <<>> /\ phase' = "Ready" /\ dirty' = FALSE
        /\ operations' = operations /\ nextRevision' = nextRevision /\ asked' = asked
        /\ wanted' = wanted /\ tickets' = tickets /\ applied' = applied /\ taken' = taken
        /\ held' = held /\ committed' = committed
    BY DEF FinishEpoch, queue
  <1>2. levels \in [Positions -> Level] /\ held = levels
    BY <1>1 DEF ManagerInv, HeldInv
  <1>3. levels' = Levels(tickets) /\ Levels(tickets) \in [Positions -> Level]
    BY LevelsTyped DEF FinishEpoch, ManagerInv
  <1>4. /\ changes' \subseteq [pos : Positions, level : Level]
        /\ \A c \in changes' : c.level = levels'[c.pos]
        /\ \A p \in Positions : held[p] = levels'[p] \/ \E c \in changes' : c.pos = p
    <2>1. CASE dirty
      <3>1. changes' = Changes(levels, Levels(tickets))
        BY <2>1 DEF FinishEpoch
      <3> QED  BY <3>1, <1>2, <1>3, ChangesAreExact
    <2>2. CASE ~ dirty
      <3>1. changes' = {}
        BY <2>2 DEF FinishEpoch
      <3> QED  BY <3>1, <2>2, <1>2, <1>3 DEF ManagerInv
    <2> QED  BY <2>1, <2>2
  <1>5. HistoryInv' /\ QueueInv'
    BY <1>1 DEF HistoryInv, QueueInv, IsSubmission
  <1>6. ManagerInv'
    BY <1>1, <1>3, <1>4 DEF ManagerInv
  <1>7. HeldInv'
    BY <1>1, <1>4 DEF HeldInv
  <1> QED  BY <1>5, <1>6, <1>7

LEMMA BeginCommitKeeps ==
    ASSUME SchedulerInv, BeginCommit PROVE SchedulerInv'
  BY DEF SchedulerInv, BeginCommit, owners, queue, manager, HistoryInv, QueueInv, IsSubmission,
         ManagerInv, HeldInv

LEMMA CommitChunkKeeps ==
    ASSUME SchedulerInv, CommitChunk PROVE SchedulerInv'
  <1> USE DEF SchedulerInv
  <1>1. PICK c \in changes : held' = [held EXCEPT ![c.pos] = c.level] /\ changes' = changes \ {c}
    BY DEF CommitChunk
  <1>2. /\ phase = "Committing" /\ phase' = phase /\ operations' = operations
        /\ nextRevision' = nextRevision /\ asked' = asked /\ wanted' = wanted
        /\ tickets' = tickets /\ levels' = levels /\ dirty' = dirty /\ applied' = applied
        /\ taken' = taken /\ committed' = committed
    BY DEF CommitChunk, queue
  <1>3. c.pos \in Positions /\ c.level \in Level /\ c.level = levels[c.pos]
    BY <1>2 DEF ManagerInv, HeldInv
  <1>4. HistoryInv' /\ QueueInv'
    BY <1>2 DEF HistoryInv, QueueInv, IsSubmission
  <1>5. ManagerInv'
    BY <1>1, <1>2, <1>3 DEF ManagerInv
  <1>6. ASSUME NEW p \in Positions
        PROVE  held'[p] = levels'[p] \/ \E d \in changes' : d.pos = p
    <2>1. CASE p = c.pos
      BY <2>1, <1>1, <1>2, <1>3 DEF ManagerInv
    <2>2. CASE p # c.pos
      <3>1. held'[p] = held[p]
        BY <2>2, <1>1 DEF ManagerInv
      <3>2. held[p] = levels[p] \/ \E d \in changes : d.pos = p
        BY <1>2 DEF HeldInv
      <3> QED  BY <3>1, <3>2, <2>2, <1>1, <1>2
    <2> QED  BY <2>1, <2>2
  <1>7. HeldInv'
    BY <1>1, <1>2, <1>6 DEF HeldInv
  <1> QED  BY <1>4, <1>5, <1>7

LEMMA PublishKeeps ==
    ASSUME SchedulerInv, Publish PROVE SchedulerInv'
  <1> USE DEF SchedulerInv
  <1>1. /\ phase = "Committing" /\ changes = {} /\ phase' = "Spawned" /\ committed' = applied
        /\ operations' = operations /\ nextRevision' = nextRevision /\ asked' = asked
        /\ wanted' = wanted /\ tickets' = tickets /\ levels' = levels /\ dirty' = dirty
        /\ applied' = applied /\ changes' = changes /\ taken' = taken /\ held' = held
    BY DEF Publish, queue, manager
  <1>2. held = levels
    BY <1>1 DEF HeldInv, ManagerInv
  <1>3. HistoryInv' /\ QueueInv'
    BY <1>1 DEF HistoryInv, QueueInv, IsSubmission
  <1>4. ManagerInv'
    BY <1>1 DEF ManagerInv, QueueInv
  <1>5. HeldInv'
    BY <1>1, <1>2 DEF HeldInv
  <1> QED  BY <1>3, <1>4, <1>5

-----------------------------------------------------------------------------
(* The owners.                                                             *)

LEMMA OwnerKeepsOwners ==
    ASSUME OwnersInv, HistoryInv, OwnerStep
    PROVE  OwnersInv'
  <1>0. nextRevision \in Nat /\ nextRevision' \in Nat /\ nextRevision <= nextRevision'
    <2>1. CASE NothingSubmitted
      BY <2>1 DEF NothingSubmitted, queue, HistoryInv
    <2>2. ASSUME NEW b, Submit(b)
          PROVE  nextRevision \in Nat /\ nextRevision' = nextRevision + 1
      BY <2>2 DEF Submit, HistoryInv
    <2> QED  BY <2>1, <2>2, OwnerSubmits DEF HistoryInv
  <1>1. requests \in [Requests -> 0 .. nextRevision']
    BY <1>0 DEF OwnersInv
  <1>2. ASSUME NEW r \in Requests, Request(r) \/ Release(r)
        PROVE  OwnersInv'
    <2>1. nextRevision' = nextRevision + 1 /\ views' = views /\ timed' = timed
      BY <1>2 DEF Request, Release, Submit
    <2>2. requests' \in [Requests -> 0 .. nextRevision']
      BY <1>0, <1>1, <1>2, <2>1 DEF Request, Release, Inactive
    <2> QED  BY <2>1, <2>2 DEF OwnersInv
  <1>3. ASSUME NEW u \in Players, RemovePlayer(u) \/ \E v \in Views : UpdateView(u, v)
        PROVE  OwnersInv'
    BY <1>1, <1>3 DEF OwnersInv, RemovePlayer, UpdateView
  <1>4. ASSUME NEW e \in Entries, PlaceTimed(e)
        PROVE  OwnersInv'
    <2>1. timed' = [f \in DOMAIN timed \cup {e} |-> IF f = e THEN Timeout[e[1]] ELSE timed[f]]
      BY <1>4 DEF PlaceTimed
    <2>2. Timeout[e[1]] \in Nat
      BY OwnersAssumption DEF Entries
    <2>3. DOMAIN timed' = DOMAIN timed \cup {e}
      BY <2>1
    <2>4. \A f \in DOMAIN timed' : timed'[f] \in 0 .. Timeout[f[1]]
      BY <2>1, <2>2, <2>3 DEF OwnersInv
    <2> QED  BY <1>1, <1>4, <2>1, <2>3, <2>4 DEF OwnersInv, PlaceTimed
  <1>5. ASSUME NEW p \in Places, RemoveSpawn(p)
        PROVE  OwnersInv'
    BY <1>1, <1>5 DEF OwnersInv, RemoveSpawn, Without
  <1>6. ASSUME NEW busy, Tick(busy)
        PROVE  OwnersInv'
    <2> DEFINE aging == {e \in DOMAIN timed : e[1] # SpawnKind /\ e[2] \notin busy}
               gone == Expired(aging)
    <2>1. timed' = [e \in DOMAIN timed \ gone |-> IF e \in aging THEN timed[e] - 1 ELSE timed[e]]
      BY <1>6 DEF Tick
    <2>2. requests' = requests /\ views' = views
      BY <1>6 DEF Tick
    <2>3. ASSUME NEW e \in DOMAIN timed \ gone
          PROVE  (IF e \in aging THEN timed[e] - 1 ELSE timed[e]) \in 0 .. Timeout[e[1]]
      <3>1. timed[e] \in 0 .. Timeout[e[1]] /\ Timeout[e[1]] \in Nat
        BY OwnersAssumption DEF OwnersInv, Entries
      <3>2. e \in aging => timed[e] # 0
        BY DEF Expired
      <3> QED  BY <3>1, <3>2
    <2> HIDE DEF aging, gone
    <2> QED  BY <1>1, <2>1, <2>2, <2>3 DEF OwnersInv
  <1> QED  BY <1>2, <1>3, <1>4, <1>5, <1>6 DEF OwnerStep

LEMMA InitScheduling == Init => SchedulingInv
  <1> SUFFICES ASSUME Init PROVE SchedulingInv
    OBVIOUS
  <1>1. tickets \in [Sources -> Nat]
    <2>1. PICK restored \in SUBSET Entries :
              tickets = [s \in Sources |-> Cardinality({e \in restored : TimedSource(e) = s})]
      BY DEF Init
    <2>2. IsFiniteSet(Entries)
      BY OwnersAssumption
    <2>3. ASSUME NEW s \in Sources
          PROVE  Cardinality({e \in restored : TimedSource(e) = s}) \in Nat
      <3>1. IsFiniteSet({e \in restored : TimedSource(e) = s})
        BY <2>2, FS_Subset
      <3> QED  BY <3>1, FS_CardinalityType
    <2> QED  BY <2>1, <2>3
  <1>2. OwnersInv
    BY OwnersAssumption DEF Init, OwnersInv, Inactive, Entries
  <1>3. Levels(tickets) \in [Positions -> Level] /\ Unloaded \in [Positions -> Level]
    BY LevelsTyped, LevelsAssumption DEF Unloaded, Level, NoLevel
  <1>4. HistoryInv
    <2>1. asked = <<tickets>> /\ wanted = <<Levels(tickets)>> /\ nextRevision = 0
      BY DEF Init
    <2> DEFINE l == Levels(tickets)
    <2> HIDE DEF l
    <2>2. asked \in Seq([Sources -> Nat]) /\ Len(asked) = 1 /\ asked[1] = tickets
      BY <1>1, <2>1
    <2>3. wanted \in Seq([Positions -> Level]) /\ Len(wanted) = 1 /\ wanted[1] = l
      BY <1>3, <2>1 DEF l
    <2>4. ASSUME NEW i \in 1 .. nextRevision + 1 PROVE wanted[i] = Levels(asked[i])
      <3>1. i = 1
        BY <2>1
      <3> QED  BY <3>1, <2>2, <2>3 DEF l
    <2> QED  BY <2>1, <2>2, <2>3, <2>4, OwnersAssumption DEF HistoryInv
  <1>5. QueueInv
    BY DEF Init, QueueInv
  <1>6. dirty \in BOOLEAN /\ (~ dirty => Levels(tickets) = Unloaded)
    <2>1. PICK restored \in SUBSET Entries :
              /\ tickets = [s \in Sources |-> Cardinality({e \in restored : TimedSource(e) = s})]
              /\ dirty = (restored # {})
      BY DEF Init
    <2>2. ASSUME ~ dirty PROVE Levels(tickets) = Unloaded
      <3>1. \A s \in Sources : tickets[s] = 0
        <4>1. restored = {}
          BY <2>1, <2>2
        <4>2. \A s \in Sources : {e \in restored : TimedSource(e) = s} = {}
          BY <4>1
        <4> QED  BY <2>1, <4>2, FS_EmptySet
      <3>2. Held(tickets) = {}
        BY <3>1 DEF Held
      <3>3. ASSUME NEW p \in Positions
            PROVE  Strongest(LoadsAt(tickets, p)) = NoLevel /\ Strongest(SimulationsAt(tickets, p)) = NoLevel
        <4>1. LoadsAt(tickets, p) = {} /\ SimulationsAt(tickets, p) = {}
          BY <3>2 DEF LoadsAt, SimulationsAt
        <4> QED  BY <4>1 DEF Strongest
      <3> QED  BY <3>3 DEF Levels, Unloaded
    <2> QED  BY <2>1, <2>2
  <1>7. ManagerInv
    BY <1>1, <1>3, <1>6 DEF Init, ManagerInv
  <1>8. HeldInv
    BY DEF Init, HeldInv
  <1> QED  BY <1>2, <1>4, <1>5, <1>7, <1>8 DEF SchedulingInv

LEMMA StepScheduling == SchedulingInv /\ [Next]_vars => SchedulingInv'
  <1> SUFFICES ASSUME SchedulingInv, [Next]_vars PROVE SchedulingInv'
    OBVIOUS
  <1> USE DEF SchedulingInv
  <1>1. CASE OwnerStep
    <2>1. OwnersInv'
      BY <1>1, OwnerKeepsOwners
    <2> QED  BY <1>1, <2>1, OwnerSubmits, SubmitKeeps, NothingSubmittedKeeps
  <1>2. CASE Boundary \/ Epoch
    <2>1. SchedulerInv'
      BY <1>2, StartEpochKeeps, TakePendingKeeps, ApplyNextKeeps, FinishEpochKeeps,
         BeginCommitKeeps, CommitChunkKeeps, PublishKeeps DEF Boundary, Epoch, SchedulerInv
    <2>2. OwnersInv'
      <3>1. requests' = requests /\ views' = views /\ timed' = timed /\ nextRevision' = nextRevision
        BY <1>2 DEF Boundary, Epoch, StartEpoch, TakePending, ApplyNext, FinishEpoch, BeginCommit,
                    CommitChunk, Publish, owners, queue
      <3> QED  BY <3>1 DEF OwnersInv
    <2> QED  BY <2>1, <2>2 DEF SchedulerInv
  <1>3. CASE UNCHANGED vars
    BY <1>3 DEF vars, owners, queue, manager, OwnersInv, HistoryInv, QueueInv, IsSubmission,
                ManagerInv, HeldInv
  <1> QED  BY <1>1, <1>2, <1>3 DEF Next

(* The invariant holds in every state the program reaches.                 *)
LEMMA SchedulingInvariant == Spec => []SchedulingInv
  BY InitScheduling, StepScheduling, PTL DEF Spec

(* Types, for any owners, tickets and bounds: in particular the countdown  *)
(* of a timed ticket never leaves its range, and the applied and the       *)
(* committed revision never overtake what was submitted.                   *)
THEOREM TicketsTyped == Spec => []TypeOK
  <1>1. SchedulingInv => TypeOK
    <2> SUFFICES ASSUME SchedulingInv PROVE TypeOK
      OBVIOUS
    <2>1. requests \in [Requests -> Inactive .. MaxRevision]
      BY OwnersAssumption DEF SchedulingInv, OwnersInv, HistoryInv, Inactive
    <2>2. applied \in 0 .. nextRevision
      BY DEF SchedulingInv, QueueInv, HistoryInv
    <2>3. tickets \in [Sources -> Nat]
      BY DEF SchedulingInv, QueueInv, HistoryInv, ManagerInv
    <2>4. /\ \A i \in DOMAIN operations : operations[i].batch \in Batch
          /\ \A i \in DOMAIN taken : taken[i].batch \in Batch
      <3>1. operations \in Seq(Queued) /\ taken \in Seq(Queued)
        BY DEF SchedulingInv, QueueInv
      <3>2. /\ \A i \in DOMAIN operations : operations[i] \in Queued
            /\ \A i \in DOMAIN taken : taken[i] \in Queued
        BY <3>1
      <3> QED  BY <3>2 DEF Queued
    <2> QED  BY <2>1, <2>2, <2>3, <2>4
             DEF SchedulingInv, OwnersInv, HistoryInv, ManagerInv, TypeOK
  <1> QED  BY <1>1, SchedulingInvariant, PTL

-----------------------------------------------------------------------------
(* Refinement.                                                             *)

Target == IF phase = "Committing" THEN applied ELSE committed

LEMMA InitImplements == Init => Log!Init
  <1> SUFFICES ASSUME Init PROVE Log!Init
    OBVIOUS
  <1>1. HistoryInv
    BY InitScheduling DEF SchedulingInv
  <1>2. nextRevision = 0 /\ phase = "Idle" /\ committed = 0 /\ held = Unloaded
    BY DEF Init
  <1>3. Len(wanted) = 1 /\ wanted[1] \in [Positions -> Level]
    BY <1>1, <1>2 DEF HistoryInv
  <1> QED  BY <1>2, <1>3 DEF Log!Init

(* Every step of the scheduler is a step of the log or invisible to it.    *)
LEMMA StepImplements == SchedulingInv /\ [Next]_vars => [Log!Next]_(Log!vars)
  <1> SUFFICES ASSUME SchedulingInv, [Next]_vars PROVE [Log!Next]_(Log!vars)
    OBVIOUS
  <1>0. ASSUME UNCHANGED <<wanted, Target, held, committed>>
        PROVE  UNCHANGED (Log!vars)
    BY <1>0 DEF Log!vars, Target
  <1>a. /\ nextRevision \in Nat /\ Len(wanted) = nextRevision + 1
        /\ applied \in 0 .. nextRevision /\ committed \in 0 .. applied
        /\ held \in [Positions -> Level]
    BY DEF SchedulingInv, HistoryInv, QueueInv, ManagerInv
  <1>b. wanted[applied + 1] = Levels(tickets)
    BY <1>a DEF SchedulingInv, HistoryInv, ManagerInv
  <1>1. CASE OwnerStep
    <2>1. CASE NothingSubmitted
      <3>1. UNCHANGED <<wanted, Target, held, committed>>
        BY <2>1 DEF NothingSubmitted, queue, manager, Target
      <3> QED  BY <3>1, <1>0
    <2>2. ASSUME NEW b \in Batch, Submit(b) PROVE Log!Submit
      <3>1. wanted' = Append(wanted, Levels(asked'[nextRevision + 2]))
        BY <2>2 DEF Submit
      <3>2. Levels(asked'[nextRevision + 2]) \in [Positions -> Level]
        BY LevelsTyped
      <3> DEFINE l == Levels(asked'[nextRevision + 2])
      <3> HIDE DEF l
      <3>3. Len(wanted') = Len(wanted) + 1 /\ wanted'[Len(wanted')] = l
        BY <3>1, <3>2, <1>a DEF l, SchedulingInv, HistoryInv
      <3>4. Target' = Target /\ held' = held /\ committed' = committed
        BY <2>2 DEF Submit, manager, Target
      <3> QED  BY <3>1, <3>2, <3>3, <3>4 DEF Log!Submit, Target, l
    <2> QED  BY <1>1, <2>1, <2>2, OwnerSubmits DEF SchedulingInv, Log!Next
  <1>2. CASE StartEpoch \/ TakePending \/ ApplyNext \/ FinishEpoch
    <2>1. UNCHANGED <<wanted, Target, held, committed>>
      BY <1>2 DEF StartEpoch, TakePending, ApplyNext, FinishEpoch, queue, manager, Target
    <2> QED  BY <2>1, <1>0
  <1>3. CASE BeginCommit
    <2>1. Target = committed /\ Target' = applied /\ UNCHANGED <<wanted, held, committed>>
      BY <1>3 DEF BeginCommit, queue, manager, Target
    <2>2. applied \in committed .. Len(wanted) - 1
      BY <1>a
    <2>3. Log!Retarget
      BY <2>1, <2>2 DEF Log!Retarget, Target
    <2> QED  BY <2>3 DEF Log!Next
  <1>4. CASE CommitChunk
    <2>1. PICK c \in changes : held' = [held EXCEPT ![c.pos] = c.level]
      BY <1>4 DEF CommitChunk
    <2>2. c.pos \in Positions /\ c.level = levels[c.pos] /\ levels = Levels(tickets)
      BY <1>4 DEF CommitChunk, SchedulingInv, ManagerInv, HeldInv
    <2>3. Target = applied /\ Target' = applied /\ UNCHANGED <<wanted, committed>>
      BY <1>4 DEF CommitChunk, queue, Target
    <2>4. held' = [held EXCEPT ![c.pos] = wanted[Target + 1][c.pos]]
      BY <2>1, <2>2, <2>3, <1>b
    <2>5. Log!Move(c.pos)
      BY <2>3, <2>4 DEF Log!Move, Target
    <2> QED  BY <2>2, <2>5 DEF Log!Next
  <1>5. CASE Publish
    <2>1. /\ Target = applied /\ Target' = applied /\ committed' = applied
          /\ UNCHANGED <<wanted, held>> /\ phase = "Committing" /\ changes = {}
      BY <1>5 DEF Publish, queue, manager, Target
    <2>2. held = levels /\ levels = Levels(tickets)
      BY <2>1 DEF SchedulingInv, ManagerInv, HeldInv
    <2>3. held = wanted[Target + 1]
      BY <2>1, <2>2, <1>b
    <2>4. Log!Publish
      BY <2>1, <2>3 DEF Log!Publish, Target
    <2> QED  BY <2>4 DEF Log!Next
  <1>6. CASE UNCHANGED vars
    <2>1. UNCHANGED <<wanted, Target, held, committed>>
      BY <1>6 DEF vars, owners, queue, manager, Target
    <2> QED  BY <2>1, <1>0
  <1> QED  BY <1>1, <1>2, <1>3, <1>4, <1>5, <1>6 DEF Next, Boundary, Epoch

(* Chunk scheduling implements TicketLog: chunks follow the submissions in *)
(* order, and is_revision_committed tells the truth about every chunk.     *)
THEOREM SchedulingImplementsLog == Spec => ImplementsLog
  BY InitImplements, StepImplements, SchedulingInvariant, PTL DEF Spec, ImplementsLog, Log!Spec

-----------------------------------------------------------------------------
(* Ownership of tickets.                                                   *)

RequestOwners(s) == {r \in Requests : requests[r] # Inactive /\ s \in RequestSources(r)}
ViewOwners(s) == {u \in Players : views[u] = s}
TimedOwners(s) == {e \in DOMAIN timed : TimedSource(e) = s}

LEMMA OwnersFinite ==
    ASSUME OwnersInv, NEW s
    PROVE  /\ IsFiniteSet(RequestOwners(s)) /\ IsFiniteSet(ViewOwners(s)) /\ IsFiniteSet(TimedOwners(s))
           /\ Cardinality(RequestOwners(s)) \in Nat /\ Cardinality(ViewOwners(s)) \in Nat
           /\ Cardinality(TimedOwners(s)) \in Nat
           /\ Owners(s) = Cardinality(RequestOwners(s)) + Cardinality(ViewOwners(s))
                            + Cardinality(TimedOwners(s))
  <1>1. RequestOwners(s) \in SUBSET Requests /\ ViewOwners(s) \in SUBSET Players
    BY DEF RequestOwners, ViewOwners
  <1>2. TimedOwners(s) \in SUBSET Entries
    BY DEF TimedOwners, OwnersInv
  <1>3. IsFiniteSet(RequestOwners(s)) /\ IsFiniteSet(ViewOwners(s)) /\ IsFiniteSet(TimedOwners(s))
    BY <1>1, <1>2, FS_Subset, OwnersAssumption
  <1>4. /\ Cardinality(RequestOwners(s)) \in Nat /\ Cardinality(ViewOwners(s)) \in Nat
        /\ Cardinality(TimedOwners(s)) \in Nat
    BY <1>3, FS_CardinalityType
  <1> QED  BY <1>3, <1>4 DEF Owners, RequestOwners, ViewOwners, TimedOwners

(* What one more and one owner less does to the count.                     *)
LEMMA OneMore ==
    ASSUME NEW S, IsFiniteSet(S), NEW x, x \notin S
    PROVE  Cardinality(S \cup {x}) = Cardinality(S) + 1
  BY FS_AddElement

LEMMA OneLess ==
    ASSUME NEW S, IsFiniteSet(S), NEW x \in S
    PROVE  Cardinality(S \ {x}) = Cardinality(S) - 1 /\ Cardinality(S) > 0
  <1>1. Cardinality(S \ {x}) = Cardinality(S) - 1
    BY FS_RemoveElement
  <1>2. Cardinality(S) \in Nat /\ Cardinality(S) # 0
    BY FS_CardinalityType, FS_EmptySet
  <1> QED  BY <1>1, <1>2

(* One owner kind after the other: the counts after the step are those the *)
(* batch makes of the counts before it.                                    *)
LEMMA RequestOwned ==
    ASSUME OwnersInv, HistoryInv, TicketsHaveOwners, NEW r \in Requests, Request(r) \/ Release(r),
           NEW s \in Sources
    PROVE  asked'[nextRevision + 2][s] = Owners(s)'
  <1> DEFINE n == nextRevision
  <1>1. /\ n \in Nat /\ asked \in Seq([Sources -> Nat]) /\ Len(asked) = n + 1
        /\ asked[n + 1][s] = Owners(s) /\ requests \in [Requests -> 0 .. n]
    BY DEF HistoryInv, TicketsHaveOwners, OwnersInv
  <1>2. views' = views /\ timed' = timed
    BY DEF Request, Release
  <1>3. /\ IsFiniteSet(RequestOwners(s)) /\ Cardinality(RequestOwners(s)) \in Nat
        /\ Cardinality(ViewOwners(s)) \in Nat /\ Cardinality(TimedOwners(s)) \in Nat
        /\ Owners(s) = Cardinality(RequestOwners(s)) + Cardinality(ViewOwners(s))
                         + Cardinality(TimedOwners(s))
    BY OwnersFinite
  <1>4. Owners(s)' = Cardinality(RequestOwners(s)') + Cardinality(ViewOwners(s))
                      + Cardinality(TimedOwners(s))
    BY <1>2 DEF Owners, RequestOwners, ViewOwners, TimedOwners
  <1>5. CASE Request(r)
    <2> DEFINE b == [add |-> RequestSources(r), remove |-> {}]
    <2>1. asked'[n + 2] = Apply(asked[n + 1], b)
      BY <1>1, <1>5 DEF Request, Submit
    <2>2. asked'[n + 2][s] = IF s \in RequestSources(r) THEN Owners(s) + 1 ELSE Owners(s)
      BY <1>1, <2>1 DEF Apply
    <2>3. requests[r] = Inactive /\ requests' = [requests EXCEPT ![r] = n + 1] /\ n + 1 # Inactive
      BY <1>1, <1>5 DEF Request, Inactive
    <2>4. CASE s \in RequestSources(r)
      <3>1. RequestOwners(s)' = RequestOwners(s) \cup {r} /\ r \notin RequestOwners(s)
        BY <1>1, <2>3, <2>4 DEF RequestOwners, RequestSources
      <3> QED  BY <3>1, <2>2, <2>4, <1>3, <1>4, OneMore
    <2>5. CASE s \notin RequestSources(r)
      <3>1. RequestOwners(s)' = RequestOwners(s)
        BY <1>1, <2>3, <2>5 DEF RequestOwners, RequestSources
      <3> QED  BY <3>1, <2>2, <2>5, <1>3, <1>4
    <2> QED  BY <2>4, <2>5
  <1>6. CASE Release(r)
    <2> DEFINE b == [add |-> {}, remove |-> RequestSources(r)]
    <2>1. asked'[n + 2] = Apply(asked[n + 1], b)
      BY <1>1, <1>6 DEF Release, Submit
    <2>2. asked'[n + 2][s] = IF s \in RequestSources(r) /\ Owners(s) > 0 THEN Owners(s) - 1 ELSE Owners(s)
      BY <1>1, <2>1 DEF Apply
    <2>3. requests[r] # Inactive /\ requests' = [requests EXCEPT ![r] = Inactive]
      BY <1>6 DEF Release
    <2>4. CASE s \in RequestSources(r)
      <3>1. RequestOwners(s)' = RequestOwners(s) \ {r} /\ r \in RequestOwners(s)
        BY <1>1, <2>3, <2>4 DEF RequestOwners, RequestSources
      <3>2. Cardinality(RequestOwners(s)') = Cardinality(RequestOwners(s)) - 1
            /\ Cardinality(RequestOwners(s)) > 0
        BY <3>1, <1>3, OneLess
      <3> QED  BY <3>2, <2>2, <2>4, <1>3, <1>4
    <2>5. CASE s \notin RequestSources(r)
      <3>1. RequestOwners(s)' = RequestOwners(s)
        BY <1>1, <2>3, <2>5 DEF RequestOwners, RequestSources
      <3> QED  BY <3>1, <2>2, <2>5, <1>3, <1>4
    <2> QED  BY <2>4, <2>5
  <1> QED  BY <1>5, <1>6

LEMMA ViewOwned ==
    ASSUME OwnersInv, HistoryInv, TicketsHaveOwners, NEW u \in Players,
           RemovePlayer(u) \/ (\E v \in Views : UpdateView(u, v)), NEW s \in Sources
    PROVE  asked'[nextRevision + 2][s] = Owners(s)'
  <1> DEFINE n == nextRevision
             old == IF views[u] = NoView THEN {} ELSE {views[u]}
  <1>1. /\ n \in Nat /\ asked \in Seq([Sources -> Nat]) /\ Len(asked) = n + 1
        /\ asked[n + 1][s] = Owners(s) /\ views \in [Players -> {NoView} \cup Views]
    BY DEF HistoryInv, TicketsHaveOwners, OwnersInv
  <1>2. requests' = requests /\ timed' = timed
    BY DEF RemovePlayer, UpdateView
  <1>3. /\ IsFiniteSet(ViewOwners(s)) /\ Cardinality(RequestOwners(s)) \in Nat
        /\ Cardinality(ViewOwners(s)) \in Nat /\ Cardinality(TimedOwners(s)) \in Nat
        /\ Owners(s) = Cardinality(RequestOwners(s)) + Cardinality(ViewOwners(s))
                         + Cardinality(TimedOwners(s))
    BY OwnersFinite
  <1>4. Owners(s)' = Cardinality(RequestOwners(s)) + Cardinality(ViewOwners(s)')
                      + Cardinality(TimedOwners(s))
    BY <1>2 DEF Owners, RequestOwners, ViewOwners, TimedOwners
  <1>5. s # NoView
    BY DEF Sources, NoView
  <1>6. PICK new \in {NoView} \cup Views :
            /\ new # views[u]
            /\ views' = [views EXCEPT ![u] = new]
            /\ asked' = Append(asked, Apply(asked[n + 1],
                            [add |-> IF new = NoView THEN {} ELSE {new}, remove |-> old]))
    <2>1. CASE RemovePlayer(u)
      BY <2>1 DEF RemovePlayer, Submit
    <2>2. ASSUME NEW v \in Views, UpdateView(u, v)
          PROVE  /\ v # NoView /\ v # views[u]
                 /\ views' = [views EXCEPT ![u] = v]
                 /\ asked' = Append(asked, Apply(asked[n + 1], [add |-> {v}, remove |-> old]))
      <3>0. v \in Positions \X Tickets
        BY OwnersAssumption DEF Sources
      <3>1. v # NoView
        BY <3>0 DEF NoView
      <3> QED  BY <3>1, <2>2 DEF UpdateView, Submit
    <2>3. CASE \E v \in Views : UpdateView(u, v)
      <3>1. PICK v \in Views : UpdateView(u, v)
        BY <2>3
      <3>2. /\ v # NoView /\ v # views[u] /\ views' = [views EXCEPT ![u] = v]
            /\ asked' = Append(asked, Apply(asked[n + 1], [add |-> {v}, remove |-> old]))
        BY <3>1, <2>2
      <3>3. {v} = IF v = NoView THEN {} ELSE {v}
        BY <3>2
      <3> HIDE DEF old
      <3> QED  BY <3>2, <3>3
    <2> QED  BY <2>1, <2>3
  <1> DEFINE b == [add |-> IF new = NoView THEN {} ELSE {new}, remove |-> old]
  <1>7. asked'[n + 2] = Apply(asked[n + 1], b)
    <2> HIDE DEF b
    <2> DEFINE a == Apply(asked[n + 1], b)
    <2> HIDE DEF a
    <2>1. asked' = Append(asked, a)
      BY <1>6 DEF a, b
    <2>2. asked'[n + 2] = a
      BY <2>1, <1>1
    <2> QED  BY <2>2 DEF a
  <1>8. asked'[n + 2][s] = IF s = new THEN Owners(s) + 1
                           ELSE IF s = views[u] /\ Owners(s) > 0 THEN Owners(s) - 1 ELSE Owners(s)
    BY <1>1, <1>5, <1>7 DEF Apply
  <1>9. CASE s = new
    <2>1. ViewOwners(s)' = ViewOwners(s) \cup {u} /\ u \notin ViewOwners(s)
      BY <1>1, <1>6, <1>9 DEF ViewOwners
    <2> QED  BY <2>1, <1>9, <1>8, <1>3, <1>4, OneMore
  <1>10. CASE s # new /\ s = views[u]
    <2>1. ViewOwners(s)' = ViewOwners(s) \ {u} /\ u \in ViewOwners(s)
      BY <1>1, <1>6, <1>10 DEF ViewOwners
    <2>2. Cardinality(ViewOwners(s)') = Cardinality(ViewOwners(s)) - 1
          /\ Cardinality(ViewOwners(s)) > 0
      BY <2>1, <1>3, OneLess
    <2> QED  BY <2>2, <1>10, <1>8, <1>3, <1>4
  <1>11. CASE s # new /\ s # views[u]
    <2>1. ViewOwners(s)' = ViewOwners(s)
      BY <1>1, <1>6, <1>11 DEF ViewOwners
    <2> QED  BY <2>1, <1>11, <1>8, <1>3, <1>4
  <1> QED  BY <1>9, <1>10, <1>11

(* Timed tickets of two kinds, or at two places, are different sources.    *)
LEMMA TimedSourceIsItsOwn ==
    ASSUME NEW e \in Entries, NEW f \in Entries, TimedSource(e) = TimedSource(f)
    PROVE  e = f
  BY OwnersAssumption DEF Entries, TimedSource

(* A timed step that queues its batch: `added` appears, `gone` disappears. *)
LEMMA TimedCounts ==
    ASSUME OwnersInv, OwnersInv', HistoryInv, TicketsHaveOwners, NEW s \in Sources,
           requests' = requests, views' = views,
           NEW added \in SUBSET Entries, NEW gone \in SUBSET DOMAIN timed,
           added \cap DOMAIN timed = {},
           DOMAIN timed' = (DOMAIN timed \cup added) \ gone,
           Submit([add |-> {TimedSource(e) : e \in added},
                   remove |-> {TimedSource(e) : e \in gone}])
    PROVE  asked'[nextRevision + 2][s] = Owners(s)'
  <1> DEFINE n == nextRevision
             A == {TimedSource(e) : e \in added}
             G == {TimedSource(e) : e \in gone}
             b == [add |-> A, remove |-> G]
  <1>1. /\ n \in Nat /\ asked \in Seq([Sources -> Nat]) /\ Len(asked) = n + 1
        /\ asked[n + 1][s] = Owners(s) /\ DOMAIN timed \subseteq Entries
    BY DEF HistoryInv, TicketsHaveOwners, OwnersInv
  <1>3. /\ IsFiniteSet(TimedOwners(s)) /\ Cardinality(RequestOwners(s)) \in Nat
        /\ Cardinality(ViewOwners(s)) \in Nat /\ Cardinality(TimedOwners(s)) \in Nat
        /\ Owners(s) = Cardinality(RequestOwners(s)) + Cardinality(ViewOwners(s))
                         + Cardinality(TimedOwners(s))
    BY OwnersFinite
  <1>4. Owners(s)' = Cardinality(RequestOwners(s)) + Cardinality(ViewOwners(s))
                      + Cardinality(TimedOwners(s)')
    BY DEF Owners, RequestOwners, ViewOwners, TimedOwners
  <1>7. asked'[n + 2] = Apply(asked[n + 1], b)
    <2>1. asked' = Append(asked, Apply(asked[n + 1], b))
      BY DEF Submit
    <2> DEFINE a == Apply(asked[n + 1], b)
    <2> HIDE DEF a
    <2> QED  BY <2>1, <1>1 DEF a
  <1>8. asked'[n + 2][s] = IF s \in A THEN Owners(s) + 1
                           ELSE IF s \in G /\ Owners(s) > 0 THEN Owners(s) - 1 ELSE Owners(s)
    <2> HIDE DEF A, G
    <2> QED  BY <1>1, <1>7 DEF Apply
  <1>9. CASE s \in A
    <2>1. PICK e \in added : s = TimedSource(e)
      BY <1>9
    <2>2. TimedOwners(s)' = TimedOwners(s) \cup {e} /\ e \notin TimedOwners(s)
      <3>1. \A f \in Entries : TimedSource(f) = s => f = e
        BY <2>1, TimedSourceIsItsOwn
      <3>2. TimedOwners(s) = {}
        BY <3>1, <2>1, <1>1 DEF TimedOwners
      <3>3. TimedOwners(s)' = {e}
        <4>1. e \in DOMAIN timed'
          BY <2>1
        <4>2. TimedSource(e)' = s
          BY <2>1 DEF TimedSource
        <4>3. \A f \in DOMAIN timed' : TimedSource(f)' = s => f = e
          BY <3>1, <1>1 DEF TimedSource
        <4> QED  BY <4>1, <4>2, <4>3 DEF TimedOwners
      <3> QED  BY <3>2, <3>3
    <2> QED  BY <2>2, <1>9, <1>8, <1>3, <1>4, OneMore
  <1>10. CASE s \notin A /\ s \in G
    <2>1. PICK e \in gone : s = TimedSource(e)
      BY <1>10
    <2>2. TimedOwners(s)' = TimedOwners(s) \ {e} /\ e \in TimedOwners(s)
      <3>1. \A f \in Entries : TimedSource(f) = s => f = e
        BY <2>1, <1>1, TimedSourceIsItsOwn
      <3>2. TimedOwners(s) = {e}
        BY <3>1, <2>1, <1>1 DEF TimedOwners
      <3>3. TimedOwners(s)' = {}
        <4>1. e \notin DOMAIN timed'
          BY <2>1
        <4>2. \A f \in DOMAIN timed' : TimedSource(f)' # s
          BY <3>1, <4>1, <1>1 DEF TimedSource
        <4> QED  BY <4>2 DEF TimedOwners
      <3> QED  BY <3>2, <3>3
    <2>3. Cardinality(TimedOwners(s)') = Cardinality(TimedOwners(s)) - 1
          /\ Cardinality(TimedOwners(s)) > 0
      BY <2>2, <1>3, OneLess
    <2> HIDE DEF A, G
    <2> QED  BY <2>3, <1>10, <1>8, <1>3, <1>4
  <1>11. CASE s \notin A /\ s \notin G
    <2>1. TimedOwners(s)' = TimedOwners(s)
      BY <1>1, <1>11 DEF TimedOwners, TimedSource
    <2> HIDE DEF A, G
    <2> QED  BY <2>1, <1>11, <1>8, <1>3, <1>4
  <1> QED  BY <1>9, <1>10, <1>11

(* The batch of the step was submitted and accounts for it.                *)
Counted(s) ==
    nextRevision' = nextRevision + 1 /\ asked'[nextRevision + 2][s] = Owners(s)'

LEMMA TimedOwned ==
    ASSUME OwnersInv, OwnersInv', HistoryInv, TicketsHaveOwners, NEW s \in Sources,
           \/ \E e \in Entries : PlaceTimed(e)
           \/ \E p \in Places : RemoveSpawn(p)
           \/ \E busy \in SUBSET Loaded : Tick(busy)
    PROVE  \/ Counted(s)
           \/ NothingSubmitted /\ Owners(s)' = Owners(s)
  <1>1. requests' = requests /\ views' = views
    BY DEF PlaceTimed, RemoveSpawn, Tick
  <1>2. ASSUME DOMAIN timed' = DOMAIN timed
        PROVE  Owners(s)' = Owners(s)
    BY <1>1, <1>2 DEF Owners, TimedSource
  <1>3. ASSUME NEW e \in Entries, PlaceTimed(e)
        PROVE  \/ Counted(s)
               \/ NothingSubmitted /\ Owners(s)' = Owners(s)
    <2>1. DOMAIN timed' = DOMAIN timed \cup {e}
      BY <1>3 DEF PlaceTimed
    <2>2. CASE e \in DOMAIN timed /\ NothingSubmitted
      BY <2>1, <2>2, <1>2
    <2>3. CASE e \notin DOMAIN timed /\ Submit([add |-> {TimedSource(e)}, remove |-> {}])
      <3>1. /\ {e} \in SUBSET Entries /\ {} \in SUBSET DOMAIN timed
            /\ {e} \cap DOMAIN timed = {} /\ DOMAIN timed' = (DOMAIN timed \cup {e}) \ {}
        BY <2>1, <2>3
      <3>2. {TimedSource(f) : f \in {e}} = {TimedSource(e)} /\ {TimedSource(f) : f \in {}} = {}
        OBVIOUS
      <3>3. Submit([add |-> {TimedSource(f) : f \in {e}}, remove |-> {TimedSource(f) : f \in {}}])
        BY <2>3, <3>2
      <3> QED  BY <1>1, <3>1, <3>3, TimedCounts DEF Submit, Counted
    <2> QED  BY <1>3, <2>2, <2>3 DEF PlaceTimed
  <1>4. ASSUME NEW p \in Places, RemoveSpawn(p)
        PROVE  Counted(s)
    <2> DEFINE e == <<SpawnKind, p>>
    <2>1. e \in DOMAIN timed /\ DOMAIN timed' = DOMAIN timed \ {e}
      BY <1>4 DEF RemoveSpawn, Without
    <2>2. Submit([add |-> {}, remove |-> {TimedSource(e)}])
      BY <1>4 DEF RemoveSpawn
    <2> HIDE DEF e
    <2>3. /\ {} \in SUBSET Entries /\ {e} \in SUBSET DOMAIN timed
          /\ {} \cap DOMAIN timed = {} /\ DOMAIN timed' = (DOMAIN timed \cup {}) \ {e}
      BY <2>1
    <2>4. {TimedSource(f) : f \in {e}} = {TimedSource(e)} /\ {TimedSource(f) : f \in {}} = {}
      OBVIOUS
    <2>5. Submit([add |-> {TimedSource(f) : f \in {}}, remove |-> {TimedSource(f) : f \in {e}}])
      BY <2>2, <2>4
    <2> QED  BY <1>1, <2>3, <2>5, TimedCounts DEF Submit, Counted
  <1>5. ASSUME NEW busy \in SUBSET Loaded, Tick(busy)
        PROVE  \/ Counted(s)
               \/ NothingSubmitted /\ Owners(s)' = Owners(s)
    <2> DEFINE aging == {e \in DOMAIN timed : e[1] # SpawnKind /\ e[2] \notin busy}
               gone == Expired(aging)
    <2>1. gone \subseteq DOMAIN timed /\ DOMAIN timed' = DOMAIN timed \ gone
      BY <1>5 DEF Tick, Expired
    <2>2. \/ gone = {} /\ NothingSubmitted
          \/ Submit([add |-> {}, remove |-> {TimedSource(e) : e \in gone}])
      BY <1>5 DEF Tick
    <2> HIDE DEF gone
    <2>3. CASE gone = {} /\ NothingSubmitted
      BY <2>1, <2>3, <1>2
    <2>4. CASE Submit([add |-> {}, remove |-> {TimedSource(e) : e \in gone}])
      <3>1. /\ {} \in SUBSET Entries /\ gone \in SUBSET DOMAIN timed
            /\ {} \cap DOMAIN timed = {} /\ DOMAIN timed' = (DOMAIN timed \cup {}) \ gone
        BY <2>1
      <3>2. {TimedSource(f) : f \in {}} = {}
        OBVIOUS
      <3>3. Submit([add |-> {TimedSource(f) : f \in {}}, remove |-> {TimedSource(e) : e \in gone}])
        BY <2>4, <3>2
      <3> QED  BY <1>1, <3>1, <3>3, TimedCounts DEF Submit, Counted
    <2> QED  BY <2>2, <2>3, <2>4
  <1> QED  BY <1>3, <1>4, <1>5

LEMMA InitOwned == Init => TicketsHaveOwners
  <1> SUFFICES ASSUME Init, NEW s \in Sources PROVE asked[nextRevision + 1][s] = Owners(s)
    BY DEF TicketsHaveOwners
  <1>1. PICK restored \in SUBSET Entries :
            /\ timed = [e \in restored |-> Timeout[e[1]]]
            /\ tickets = [t \in Sources |-> Cardinality({e \in restored : TimedSource(e) = t})]
    BY DEF Init
  <1>2. asked[nextRevision + 1] = tickets
    BY DEF Init
  <1>3. DOMAIN timed = restored /\ tickets[s] = Cardinality(TimedOwners(s))
    BY <1>1 DEF TimedOwners
  <1>4. RequestOwners(s) = {} /\ ViewOwners(s) = {}
    <2>1. s # NoView
      BY DEF Sources, NoView
    <2> QED  BY <2>1 DEF Init, RequestOwners, ViewOwners
  <1>5. OwnersInv
    BY InitScheduling DEF SchedulingInv
  <1>6. Cardinality(TimedOwners(s)) \in Nat /\
        Owners(s) = Cardinality(RequestOwners(s)) + Cardinality(ViewOwners(s))
                      + Cardinality(TimedOwners(s))
    BY <1>5, OwnersFinite
  <1> QED  BY <1>2, <1>3, <1>4, <1>6, FS_EmptySet

LEMMA StepOwned ==
    SchedulingInv /\ TicketsHaveOwners /\ [Next]_vars => TicketsHaveOwners'
  <1> SUFFICES ASSUME SchedulingInv, TicketsHaveOwners, [Next]_vars PROVE TicketsHaveOwners'
    OBVIOUS
  <1> USE DEF SchedulingInv
  <1>0. ASSUME requests' = requests, views' = views, timed' = timed,
               asked' = asked, nextRevision' = nextRevision
        PROVE  TicketsHaveOwners'
    <2>1. \A s \in Sources : Owners(s)' = Owners(s)
      BY <1>0 DEF Owners, RequestSources, TimedSource
    <2> QED  BY <1>0, <2>1 DEF TicketsHaveOwners
  <1>1. CASE OwnerStep
    <2>1. OwnersInv'
      BY <1>1, OwnerKeepsOwners
    <2>2. ASSUME NEW s \in Sources
          PROVE  \/ asked'[nextRevision + 2][s] = Owners(s)' /\ nextRevision' = nextRevision + 1
                 \/ NothingSubmitted /\ Owners(s)' = Owners(s)
      <3>1. CASE \E r \in Requests : Request(r) \/ Release(r)
        <4>1. nextRevision' = nextRevision + 1
          BY <3>1 DEF Request, Release, Submit
        <4> QED  BY <3>1, <4>1, RequestOwned
      <3>2. CASE \E u \in Players : RemovePlayer(u) \/ (\E v \in Views : UpdateView(u, v))
        <4>1. nextRevision' = nextRevision + 1
          BY <3>2 DEF RemovePlayer, UpdateView, Submit
        <4> QED  BY <3>2, <4>1, ViewOwned
      <3>3. CASE \/ \E e \in Entries : PlaceTimed(e)
                 \/ \E p \in Places : RemoveSpawn(p)
                 \/ \E busy \in SUBSET Loaded : Tick(busy)
        BY <3>3, <2>1, TimedOwned DEF Counted
      <3> QED  BY <1>1, <3>1, <3>2, <3>3 DEF OwnerStep
    <2>3. ASSUME NEW s \in Sources PROVE asked'[nextRevision' + 1][s] = Owners(s)'
      <3>1. nextRevision \in Nat
        BY DEF HistoryInv
      <3>2. NothingSubmitted => asked' = asked /\ nextRevision' = nextRevision
        BY DEF NothingSubmitted, queue
      <3> QED  BY <2>2, <3>1, <3>2 DEF TicketsHaveOwners
    <2> QED  BY <2>3 DEF TicketsHaveOwners
  <1>2. CASE Boundary \/ Epoch
    <2>1. /\ requests' = requests /\ views' = views /\ timed' = timed
          /\ asked' = asked /\ nextRevision' = nextRevision
      BY <1>2 DEF Boundary, Epoch, StartEpoch, TakePending, ApplyNext, FinishEpoch, BeginCommit,
                  CommitChunk, Publish, owners, queue
    <2> QED  BY <1>0, <2>1
  <1>3. CASE UNCHANGED vars
    BY <1>0, <1>3 DEF vars, owners, queue
  <1> QED  BY <1>1, <1>2, <1>3 DEF Next

(* No ticket leaks and none is removed under another owner, for any        *)
(* number of requests, players and timed tickets that share positions.     *)
THEOREM NoTicketLeaks == Spec => []TicketsHaveOwners
  BY InitOwned, StepOwned, SchedulingInvariant, PTL DEF Spec

-----------------------------------------------------------------------------
(* Requests.  From its revision on every prefix of the submissions holds a *)
(* request's tickets, and a chunk is held at what the committed revision   *)
(* or, during a commit, the one being committed asks for.                  *)

RequestInv ==
    \A r \in Requests : requests[r] # Inactive =>
        \A i \in requests[r] + 1 .. nextRevision + 1 :
            \A s \in RequestSources(r) : asked[i][s] > 0

CommittedInv ==
    committed > 0 => \A p \in Positions :
        \/ held[p] = wanted[committed + 1][p]
        \/ phase = "Committing" /\ held[p] = wanted[applied + 1][p]

LatestAsked ==
    \A r \in Requests : requests[r] # Inactive =>
        \A s \in RequestSources(r) : asked[nextRevision + 1][s] > 0

LEMMA OwnedIsAsked == OwnersInv /\ TicketsHaveOwners => LatestAsked
  <1> SUFFICES ASSUME OwnersInv, TicketsHaveOwners, NEW r \in Requests, requests[r] # Inactive,
                      NEW s \in RequestSources(r)
               PROVE  asked[nextRevision + 1][s] > 0
    BY DEF LatestAsked
  <1>1. s \in Sources
    BY OwnersAssumption
  <1>2. /\ IsFiniteSet(RequestOwners(s)) /\ Cardinality(RequestOwners(s)) \in Nat
        /\ Cardinality(ViewOwners(s)) \in Nat /\ Cardinality(TimedOwners(s)) \in Nat
        /\ Owners(s) = Cardinality(RequestOwners(s)) + Cardinality(ViewOwners(s))
                         + Cardinality(TimedOwners(s))
    BY OwnersFinite
  <1>3. Cardinality(RequestOwners(s)) > 0
    <2>1. r \in RequestOwners(s)
      BY DEF RequestOwners
    <2> QED  BY <1>2, <2>1, OneLess
  <1> QED  BY <1>1, <1>2, <1>3 DEF TicketsHaveOwners

LEMMA StepRequest ==
    SchedulingInv /\ LatestAsked' /\ RequestInv /\ [Next]_vars => RequestInv'
  <1> SUFFICES ASSUME SchedulingInv, LatestAsked', RequestInv, [Next]_vars
               PROVE  RequestInv'
    OBVIOUS
  <1>0. nextRevision \in Nat /\ requests \in [Requests -> 0 .. nextRevision]
    BY DEF SchedulingInv, HistoryInv, OwnersInv
  <1>1. ASSUME requests' = requests, asked' = asked, nextRevision' = nextRevision
        PROVE  RequestInv'
    BY <1>1 DEF RequestInv, RequestSources
  <1>2. CASE OwnerStep
    <2>1. ASSUME NothingSubmitted PROVE RequestInv'
      <3>1. requests' = requests
        <4>1. nextRevision' = nextRevision
          BY <2>1 DEF NothingSubmitted, queue
        <4>2. ASSUME NEW r \in Requests, Request(r) \/ Release(r) PROVE nextRevision' = nextRevision + 1
          BY <4>2 DEF Request, Release, Submit
        <4>3. ~ \E r \in Requests : Request(r) \/ Release(r)
          BY <1>0, <4>1, <4>2
        <4>4. ASSUME NEW u, RemovePlayer(u) \/ (\E v \in Views : UpdateView(u, v))
              PROVE  requests' = requests
          BY <4>4 DEF RemovePlayer, UpdateView
        <4>5. ASSUME NEW e, PlaceTimed(e) PROVE requests' = requests
          BY <4>5 DEF PlaceTimed
        <4>6. ASSUME NEW p, RemoveSpawn(p) PROVE requests' = requests
          BY <4>6 DEF RemoveSpawn
        <4>7. ASSUME NEW busy, Tick(busy) PROVE requests' = requests
          BY <4>7 DEF Tick
        <4> QED  BY <1>2, <4>3, <4>4, <4>5, <4>6, <4>7 DEF OwnerStep
      <3> QED  BY <1>1, <2>1, <3>1 DEF NothingSubmitted, queue
    <2>2. ASSUME NEW b \in Batch, Submit(b) PROVE RequestInv'
      <3>1. /\ nextRevision' = nextRevision + 1
            /\ \A i \in 1 .. nextRevision + 1 : asked'[i] = asked[i]
        BY <2>2, SubmitKeeps DEF SchedulingInv
      <3>2. \A r \in Requests : \/ requests'[r] = requests[r]
                                \/ requests'[r] = nextRevision + 1
                                \/ requests'[r] = Inactive
        BY <1>0, <1>2 DEF OwnerStep, Request, Release, RemovePlayer, UpdateView, PlaceTimed,
              RemoveSpawn, Tick
      <3>3. ASSUME NEW r \in Requests, requests'[r] # Inactive, NEW s \in RequestSources(r),
                   NEW i \in requests'[r] + 1 .. nextRevision' + 1
            PROVE  asked'[i][s] > 0
        <4>1. CASE i = nextRevision' + 1
          BY <3>3, <4>1 DEF LatestAsked, RequestSources
        <4>2. CASE i # nextRevision' + 1
          <5>1. i \in requests[r] + 1 .. nextRevision + 1 /\ requests[r] # Inactive
                /\ i \in 1 .. nextRevision + 1
            BY <1>0, <3>1, <3>2, <3>3, <4>2
          <5>2. asked[i][s] > 0
            BY <3>3, <5>1 DEF RequestInv
          <5> QED  BY <3>1, <5>1, <5>2
        <4> QED  BY <4>1, <4>2
      <3> QED  BY <3>3 DEF RequestInv, RequestSources
    <2> QED  BY <1>2, <2>1, <2>2, OwnerSubmits DEF SchedulingInv
  <1>3. CASE Boundary \/ Epoch
    <2>1. requests' = requests /\ asked' = asked /\ nextRevision' = nextRevision
      BY <1>3 DEF Boundary, Epoch, StartEpoch, TakePending, ApplyNext, FinishEpoch, BeginCommit,
                  CommitChunk, Publish, owners, queue
    <2> QED  BY <1>1, <2>1
  <1>4. CASE UNCHANGED vars
    BY <1>1, <1>4 DEF vars, owners, queue
  <1> QED  BY <1>2, <1>3, <1>4 DEF Next

LEMMA StepCommitted ==
    SchedulingInv /\ CommittedInv /\ [Next]_vars => CommittedInv'
  <1> SUFFICES ASSUME SchedulingInv, CommittedInv, [Next]_vars PROVE CommittedInv'
    OBVIOUS
  <1>a. /\ nextRevision \in Nat /\ applied \in 0 .. nextRevision /\ committed \in 0 .. applied
        /\ held \in [Positions -> Level]
    BY DEF SchedulingInv, HistoryInv, QueueInv, ManagerInv
  <1>b. wanted[applied + 1] = Levels(tickets)
    BY <1>a DEF SchedulingInv, HistoryInv, ManagerInv
  <1>c. ASSUME UNCHANGED <<held, committed, phase, applied, wanted>> PROVE CommittedInv'
    BY <1>c DEF CommittedInv
  <1>1. CASE OwnerStep
    <2>1. CASE NothingSubmitted
      BY <2>1, <1>c DEF NothingSubmitted, queue, manager
    <2>2. ASSUME NEW b \in Batch, Submit(b) PROVE CommittedInv'
      <3>1. \A i \in 1 .. nextRevision + 1 : wanted'[i] = wanted[i]
        BY <2>2, SubmitKeeps DEF SchedulingInv
      <3>2. wanted'[committed + 1] = wanted[committed + 1] /\ wanted'[applied + 1] = wanted[applied + 1]
        BY <3>1, <1>a
      <3>3. UNCHANGED <<held, committed, phase, applied>>
        BY <2>2 DEF Submit, manager
      <3> QED  BY <3>2, <3>3 DEF CommittedInv
    <2> QED  BY <1>1, <2>1, <2>2, OwnerSubmits DEF SchedulingInv
  <1>2. CASE StartEpoch \/ TakePending \/ ApplyNext \/ FinishEpoch \/ BeginCommit
    <2>1. phase # "Committing" /\ UNCHANGED <<held, committed, wanted>>
      BY <1>2 DEF StartEpoch, TakePending, ApplyNext, FinishEpoch, BeginCommit, queue, manager
    <2> QED  BY <2>1 DEF CommittedInv
  <1>3. CASE CommitChunk
    <2>1. PICK c \in changes : held' = [held EXCEPT ![c.pos] = c.level]
      BY <1>3 DEF CommitChunk
    <2>2. c.pos \in Positions /\ c.level = levels[c.pos] /\ levels = Levels(tickets)
      BY <1>3 DEF CommitChunk, SchedulingInv, ManagerInv, HeldInv
    <2>3. phase = "Committing" /\ UNCHANGED <<committed, phase, applied, wanted>>
      BY <1>3 DEF CommitChunk, queue
    <2>4. held'[c.pos] = wanted[applied + 1][c.pos]
      BY <2>1, <2>2, <1>a, <1>b
    <2> QED  BY <2>1, <2>2, <2>3, <2>4, <1>a DEF CommittedInv
  <1>4. CASE Publish
    <2>1. /\ committed' = applied /\ UNCHANGED <<wanted, held, applied>>
          /\ phase = "Committing" /\ changes = {}
      BY <1>4 DEF Publish, queue, manager
    <2>2. held = levels /\ levels = Levels(tickets)
      BY <2>1 DEF SchedulingInv, ManagerInv, HeldInv
    <2> QED  BY <2>1, <2>2, <1>b DEF CommittedInv
  <1>5. CASE UNCHANGED vars
    BY <1>5, <1>c DEF vars, queue, manager
  <1> QED  BY <1>1, <1>2, <1>3, <1>4, <1>5 DEF Next, Boundary, Epoch

(* What a revision with the request's tickets asks of a chunk it names.    *)
LEMMA AskedIsLoaded ==
    ASSUME NEW t \in [Sources -> Nat], NEW p \in Positions, RequestTicket \in Tickets,
           t[<<p, RequestTicket>>] > 0
    PROVE  Levels(t)[p].load <= RequestTicket.load
  <1>1. RequestTicket.load \in 0 .. MaxLevel /\ Distance[<<p, p>>] = 0
    BY LevelsAssumption
  <1>2. <<p, RequestTicket>> \in Held(t)
    BY DEF Held, Sources
  <1>3. RequestTicket.load \in LoadsAt(t, p)
    <2> DEFINE s == <<p, RequestTicket>>
    <2>1. s[2].load + Distance[<<s[1], p>>] = RequestTicket.load
      BY <1>1
    <2> QED  BY <2>1, <1>1, <1>2 DEF LoadsAt
  <1>4. LoadsAt(t, p) \subseteq 0 .. MaxLevel
    BY DEF LoadsAt
  <1>5. Strongest(LoadsAt(t, p)) <= RequestTicket.load
    BY <1>3, <1>4, StrongestKind
  <1> QED  BY <1>5 DEF Levels

(* A request whose revision is committed keeps its chunks loaded until it  *)
(* is released: for any owners, and in the middle of any commit.           *)
THEOREM RequestsAreKept == Spec => []RequestedStaysLoaded
  <1> DEFINE IInv == SchedulingInv /\ RequestInv /\ CommittedInv
  <1>1. Init => RequestInv /\ CommittedInv
    BY DEF Init, RequestInv, CommittedInv
  <1>2. SchedulingInv /\ TicketsHaveOwners => LatestAsked
    BY OwnedIsAsked DEF SchedulingInv
  <1>3. IInv => RequestedStaysLoaded
    <2> SUFFICES ASSUME IInv, NEW r \in Requests, requests[r] # Inactive, requests[r] <= committed,
                        NEW p \in Asks[r]
                 PROVE  held[p].load <= RequestTicket.load
      BY DEF RequestedStaysLoaded
    <2>1. /\ nextRevision \in Nat /\ requests[r] \in 0 .. nextRevision
          /\ applied \in 0 .. nextRevision /\ committed \in 0 .. applied
      BY DEF SchedulingInv, HistoryInv, OwnersInv, QueueInv, ManagerInv
    <2>2. committed > 0
      BY <2>1 DEF Inactive
    <2>3. <<p, RequestTicket>> \in RequestSources(r)
      BY DEF RequestSources
    <2>4. p \in Positions /\ RequestTicket \in Tickets
      <3>1. <<p, RequestTicket>> \in Positions \X Tickets
        BY <2>3, OwnersAssumption DEF Sources
      <3> QED  BY <3>1
    <2>5. ASSUME NEW i \in {committed + 1, applied + 1}
          PROVE  wanted[i][p].load <= RequestTicket.load
      <3>1. i \in requests[r] + 1 .. nextRevision + 1 /\ i \in 1 .. nextRevision + 1
        BY <2>1
      <3>2. asked[i][<<p, RequestTicket>>] > 0
        BY <2>3, <3>1 DEF RequestInv
      <3>3. asked[i] \in [Sources -> Nat] /\ wanted[i] = Levels(asked[i])
        BY <3>1 DEF SchedulingInv, HistoryInv
      <3> QED  BY <2>4, <3>2, <3>3, AskedIsLoaded
    <2>6. held[p] = wanted[committed + 1][p] \/ held[p] = wanted[applied + 1][p]
      BY <2>2, <2>4 DEF CommittedInv
    <2> QED  BY <2>5, <2>6
  <1> QED  BY <1>1, <1>2, <1>3, SchedulingInvariant, NoTicketLeaks, StepRequest, StepCommitted, PTL
           DEF Spec
=============================================================================
