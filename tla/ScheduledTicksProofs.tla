----------------------- MODULE ScheduledTicksProofs -----------------------
(***************************************************************************)
(* Proofs about ScheduledTicks, for any chunks, keys, priorities and       *)
(* bounds, from a new world or from one that was saved.                    *)
(*                                                                         *)
(* While a collection holds the phase lock the index is deliberately       *)
(* wrong: the queues taken have no head.  IndexInv says which ones, and    *)
(* that nobody else touches their chunks until the heads are back.         *)
(*                                                                         *)
(* OwedInv adds where the ticks are: what the queues of a clean chunk hold *)
(* is on disk, or in the save that took its dirty flag.  CollectInv puts a *)
(* collection on the track of the reference it is meant to follow.         *)
(***************************************************************************)
EXTENDS ScheduledTicks, OrderingTheorems

(* The deadlines of kind `k`, given the ticking chunks and the heads.      *)
DeadlinesOf(ticking, heads, k) ==
    {<<heads[<<c, k>>], c>> : c \in {d \in ticking : heads[<<d, k>>] # NoHead}}

MapOn(f, S) == f = [x \in S |-> f[x]]

(* The queues a collection has taken out of the index.                     *)
Taken(q) == step = "drain" /\ q[1] \in taken /\ q[2] = kind

Shapes ==
    /\ MapOn(place, Chunks) /\ MapOn(lifecycle, Chunks) /\ MapOn(live, Queues)
    /\ MapOn(head, Queues) /\ MapOn(deadlines, Kinds) /\ kind \in Kinds
    /\ ActiveSet \subseteq Chunks
HeadsInv == \A q \in Queues :
    head[q] = IF Taken(q) THEN NoHead ELSE HeadOf(live[q])
NothingBefore == \A q \in Queues : lifecycle[q[1]] # "registered" => live[q] = {}
TickingStay == \A c \in ActiveSet : lifecycle[c] = "registered" /\ place[c] = "map"
DeadlinesInv == \A k \in Kinds : deadlines[k] = DeadlinesOf(ActiveSet, head, k)
TakenTick == step = "drain" => taken \subseteq ActiveSet

IndexInv ==
    Shapes /\ HeadsInv /\ NothingBefore /\ TickingStay /\ DeadlinesInv /\ TakenTick

-----------------------------------------------------------------------------
LEMMA KindsFacts == "block" \in Kinds /\ "fluid" \in Kinds
  BY DEF Kinds

LEMMA EmptyHasNoHead == HeadOf({}) = NoHead
  BY DEF HeadOf

LEMMA QueueFacts ==
    /\ \A c \in Chunks, k \in Kinds : <<c, k>> \in Queues /\ <<c, k>>[1] = c /\ <<c, k>>[2] = k
    /\ \A q \in Queues : q[1] \in Chunks /\ q[2] \in Kinds /\ q = <<q[1], q[2]>>
  BY DEF Queues

LEMMA KeyFacts ==
    ASSUME NEW key \in Keys
    PROVE  /\ key.chunk \in Chunks /\ key.kind \in Kinds /\ QueueOf(key) \in Queues
           /\ QueueOf(key)[1] = key.chunk /\ QueueOf(key)[2] = key.kind
  BY TickConstants DEF QueueOf, Queues

(* Replacing one head replaces one deadline.                               *)
LEMMA OneHead ==
    ASSUME NEW A, A \subseteq Chunks, NEW H, NEW G, NEW c \in Chunks, NEW k \in Kinds,
           \A d \in Chunks \ {c} : G[<<d, k>>] = H[<<d, k>>]
    PROVE  DeadlinesOf(A, G, k) =
             IF c \notin A THEN DeadlinesOf(A, H, k)
             ELSE (DeadlinesOf(A, H, k) \ {<<H[<<c, k>>], c>>}) \cup
                  (IF G[<<c, k>>] = NoHead THEN {} ELSE {<<G[<<c, k>>], c>>})
  <1> DEFINE before == DeadlinesOf(A, H, k)
             after == DeadlinesOf(A, G, k)
  <1>1. ASSUME NEW x PROVE x \in before <=>
           \E d \in A : H[<<d, k>>] # NoHead /\ x = <<H[<<d, k>>], d>>
    BY DEF DeadlinesOf
  <1>2. ASSUME NEW x PROVE x \in after <=>
           \E d \in A : G[<<d, k>>] # NoHead /\ x = <<G[<<d, k>>], d>>
    BY DEF DeadlinesOf
  <1> HIDE DEF before, after
  <1>3. CASE c \notin A
    <2>1. \A d \in A : G[<<d, k>>] = H[<<d, k>>]
      BY <1>3
    <2>2. after = before
      BY <2>1 DEF before, after, DeadlinesOf
    <2> QED  BY <1>3, <2>2 DEF before, after
  <1>4. CASE c \in A
    <2> DEFINE t == G[<<c, k>>]
               old == <<H[<<c, k>>], c>>
    <2>1. ASSUME NEW x PROVE x \in after <=>
                       (x \in before /\ x # old) \/ (t # NoHead /\ x = <<t, c>>)
      <3>1. ASSUME x \in after
            PROVE  (x \in before /\ x # old) \/ (t # NoHead /\ x = <<t, c>>)
        <4>1. PICK d \in A : G[<<d, k>>] # NoHead /\ x = <<G[<<d, k>>], d>>
          BY <1>2, <3>1
        <4>2. CASE d = c
          BY <4>1, <4>2
        <4>3. CASE d # c
          <5>1. H[<<d, k>>] # NoHead /\ x = <<H[<<d, k>>], d>>
            BY <4>1, <4>3
          <5>2. x \in before
            BY <1>1, <4>1, <5>1
          <5>3. x # old
            BY <4>3, <5>1
          <5> QED  BY <5>2, <5>3
        <4> QED  BY <4>2, <4>3
      <3>2. ASSUME x \in before, x # old PROVE x \in after
        <4>1. PICK d \in A : H[<<d, k>>] # NoHead /\ x = <<H[<<d, k>>], d>>
          BY <1>1, <3>2
        <4>2. d # c
          BY <3>2, <4>1
        <4>3. G[<<d, k>>] # NoHead /\ x = <<G[<<d, k>>], d>>
          BY <4>1, <4>2
        <4> QED  BY <1>2, <4>1, <4>3
      <3>3. ASSUME t # NoHead, x = <<t, c>> PROVE x \in after
        BY <1>2, <1>4, <3>3
      <3> QED  BY <3>1, <3>2, <3>3
    <2> HIDE DEF t, old
    <2>2. CASE t = NoHead
      <3>1. after = (before \ {old}) \cup {}
        BY <2>1, <2>2
      <3> QED  BY <1>4, <2>2, <3>1 DEF before, after, t, old
    <2>3. CASE t # NoHead
      <3>1. after = (before \ {old}) \cup {<<t, c>>}
        BY <2>1, <2>3
      <3> QED  BY <1>4, <2>3, <3>1 DEF before, after, t, old
    <2> QED  BY <2>2, <2>3
  <1> QED  BY <1>3, <1>4

LEMMA SameHeads ==
    ASSUME NEW A, A \subseteq Chunks, NEW H, NEW G, NEW k \in Kinds,
           \A d \in A : G[<<d, k>>] = H[<<d, k>>]
    PROVE  DeadlinesOf(A, G, k) = DeadlinesOf(A, H, k)
  BY DEF DeadlinesOf

(* A step that changes no head, no live tick and no ticking chunk.         *)
LEMMA IndexKept ==
    ASSUME IndexInv, UNCHANGED <<live, head, deadlines, active>>,
           MapOn(place', Chunks), MapOn(lifecycle', Chunks), kind' \in Kinds,
           \A q \in Queues : Taken(q)' <=> Taken(q),
           step' = "drain" => taken' \subseteq ActiveSet,
           \A c \in Chunks : lifecycle'[c] # "registered" => lifecycle[c] # "registered",
           \A c \in ActiveSet : lifecycle'[c] = "registered" /\ place'[c] = "map"
    PROVE  IndexInv'
  <1>1. ActiveSet' = ActiveSet
    BY DEF ActiveSet
  <1>2. Shapes'
    BY <1>1 DEF IndexInv, Shapes, MapOn
  <1>3. HeadsInv'
    BY DEF IndexInv, HeadsInv
  <1>4. NothingBefore'
    BY QueueFacts DEF IndexInv, NothingBefore
  <1>5. TickingStay' /\ TakenTick'
    BY <1>1 DEF TickingStay, TakenTick
  <1>6. DeadlinesInv'
    BY <1>1 DEF IndexInv, DeadlinesInv
  <1> QED  BY <1>2, <1>3, <1>4, <1>5, <1>6 DEF IndexInv

-----------------------------------------------------------------------------
(* The steps.                                                              *)

LEMMA HolderSteps ==
    ASSUME IndexInv, NEW c \in Chunks,
           NewProto(c) \/ PromoteToFull(c) \/ LoadFull(c) \/ BeginUnloading(c) \/ Revive(c)
    PROVE  /\ MapOn(place', Chunks) /\ MapOn(lifecycle', Chunks)
           /\ \A d \in Chunks : lifecycle'[d] # "registered" => lifecycle[d] # "registered"
           /\ \A d \in ActiveSet : lifecycle'[d] = "registered" /\ place'[d] = "map"
  <1>0. /\ MapOn(place, Chunks) /\ MapOn(lifecycle, Chunks) /\ ActiveSet \subseteq Chunks
        /\ \A d \in ActiveSet : lifecycle[d] = "registered" /\ place[d] = "map"
    BY DEF IndexInv, Shapes, TickingStay
  <1> HIDE DEF ActiveSet
  <1>1. CASE \/ lifecycle[c] = "absent" /\ NewProto(c)
             \/ lifecycle[c] = "proto" /\ PromoteToFull(c)
             \/ lifecycle[c] = "finalized" /\ LoadFull(c)
    <2>1. c \notin ActiveSet
      BY <1>0, <1>1
    <2>2. PICK x, y : /\ lifecycle' = [lifecycle EXCEPT ![c] = x]
                      /\ place' = [place EXCEPT ![c] = y]
      <3>1. PromoteToFull(c) => place' = [place EXCEPT ![c] = place[c]]
        BY <1>0 DEF PromoteToFull, MapOn
      <3> QED  BY <1>1, <3>1 DEF NewProto, PromoteToFull, LoadFull
    <2>3. /\ MapOn(place', Chunks) /\ MapOn(lifecycle', Chunks)
          /\ \A d \in Chunks \ {c} : lifecycle'[d] = lifecycle[d] /\ place'[d] = place[d]
      BY <1>0, <2>2 DEF MapOn
    <2> QED  BY <1>0, <1>1, <2>1, <2>3
  <1>2. CASE BeginUnloading(c) \/ Revive(c)
    <2>1. PICK y : place' = [place EXCEPT ![c] = y] /\ lifecycle' = lifecycle
      BY <1>2 DEF BeginUnloading, Revive
    <2>2. /\ MapOn(place', Chunks) /\ MapOn(lifecycle', Chunks)
          /\ \A d \in Chunks \ {c} : place'[d] = place[d]
      BY <1>0, <2>1 DEF MapOn
    <2>3. c \notin ActiveSet
      BY <1>0, <1>2 DEF BeginUnloading, Revive
    <2> QED  BY <1>0, <2>1, <2>2, <2>3
  <1> QED  BY <1>1, <1>2 DEF NewProto, PromoteToFull, LoadFull

LEMMA QuietSteps ==
    ASSUME IndexInv,
           \/ UNCHANGED tickVars \/ TickTime \/ MarkChanged \/ BeginBatch \/ EndBatch
           \/ \E changes \in BOOLEAN : RunTick(changes)
           \/ \E key \in Keys : RemovePending(key)
           \/ \E key \in Keys, p \in Priorities : SchedulePending(key, p)
           \/ \E c \in Chunks :
                 \/ NewProto(c) \/ PromoteToFull(c) \/ LoadFull(c) \/ BeginUnloading(c) \/ Revive(c)
           \/ \E k \in Savers, c \in Chunks :
                 \/ TakeDirty(k, c) \/ Pack(k, c) \/ AddBlocks(k, c) \/ AddFluids(k, c)
                 \/ Write(k, c) \/ WriteFails(k, c)
    PROVE  IndexInv'
  <1> USE DEF tickVars, containers, index, game, saving
  <1>0. /\ MapOn(place, Chunks) /\ MapOn(lifecycle, Chunks) /\ kind \in Kinds
        /\ ActiveSet \subseteq Chunks
        /\ \A c \in ActiveSet : lifecycle[c] = "registered" /\ place[c] = "map"
        /\ step = "drain" => taken \subseteq ActiveSet
    BY DEF IndexInv, Shapes, TickingStay, TakenTick
  <1>s. ASSUME NEW k \in Savers, NEW c \in Chunks,
               \/ TakeDirty(k, c) \/ Pack(k, c) \/ AddBlocks(k, c) \/ AddFluids(k, c)
               \/ Write(k, c) \/ WriteFails(k, c)
        PROVE  UNCHANGED <<live, head, deadlines, active, step, kind, taken, place, lifecycle>>
    BY <1>s DEF TakeDirty, Pack, AddBlocks, AddFluids, Write, WriteFails
  <1>1. UNCHANGED <<live, head, deadlines, active>>
    BY <1>s DEF TickTime, MarkChanged, BeginBatch, EndBatch, RunTick, RemovePending, SchedulePending,
           NewProto, PromoteToFull, LoadFull, BeginUnloading, Revive
  <1>2. /\ kind' \in Kinds
        /\ \A q \in Queues : Taken(q)' <=> Taken(q)
        /\ step' = "drain" => taken' \subseteq ActiveSet
    <2>1. CASE UNCHANGED <<step, kind, taken>>
      BY <1>0, <2>1 DEF Taken
    <2>2. CASE step # "drain" /\ step' # "drain" /\ kind' \in Kinds
      BY <1>0, <2>2 DEF Taken
    <2> QED
      BY <1>0, <1>s, <2>1, <2>2, KindsFacts
      DEF TickTime, MarkChanged, BeginBatch, EndBatch, RunTick, RemovePending, SchedulePending,
           NewProto, PromoteToFull, LoadFull, BeginUnloading, Revive
  <1>3. /\ MapOn(place', Chunks) /\ MapOn(lifecycle', Chunks)
        /\ \A c \in Chunks : lifecycle'[c] # "registered" => lifecycle[c] # "registered"
        /\ \A c \in ActiveSet : lifecycle'[c] = "registered" /\ place'[c] = "map"
    <2>1. CASE UNCHANGED <<place, lifecycle>>
      BY <1>0, <2>1
    <2>2. ASSUME NEW c \in Chunks,
                 NewProto(c) \/ PromoteToFull(c) \/ LoadFull(c) \/ BeginUnloading(c) \/ Revive(c)
          PROVE  /\ MapOn(place', Chunks) /\ MapOn(lifecycle', Chunks)
                 /\ \A d \in Chunks : lifecycle'[d] # "registered" => lifecycle[d] # "registered"
                 /\ \A d \in ActiveSet : lifecycle'[d] = "registered" /\ place'[d] = "map"
      BY <2>2, HolderSteps
    <2> QED
      BY <1>s, <2>1, <2>2
      DEF TickTime, MarkChanged, BeginBatch, EndBatch, RunTick, RemovePending, SchedulePending
  <1> QED  BY <1>1, <1>2, <1>3, IndexKept

LEMMA RegisterKeeps ==
    ASSUME IndexInv, NEW c \in Chunks, Register(c)
    PROVE  IndexInv'
  <1>0. /\ MapOn(head, Queues) /\ MapOn(lifecycle, Chunks) /\ MapOn(place, Chunks)
        /\ kind \in Kinds /\ ActiveSet \subseteq Chunks
        /\ \A d \in ActiveSet : lifecycle[d] = "registered" /\ place[d] = "map"
        /\ \A q \in Queues : head[q] = IF Taken(q) THEN NoHead ELSE HeadOf(live[q])
    BY DEF IndexInv, Shapes, TickingStay, HeadsInv
  <1>1. step # "drain" /\ UNCHANGED <<step, kind, taken, live, deadlines, active, place>>
    BY DEF Register, PhaseFree, game
  <1>2. head' = head
    <2>1. \A q \in Queues : head[q] = HeadOf(live[q])
      BY <1>0, <1>1 DEF Taken
    <2>2. head' = [q \in Queues |-> IF q[1] = c THEN HeadOf(live[q]) ELSE head[q]]
      BY DEF Register
    <2>3. head' = [q \in Queues |-> head[q]]
      BY <2>1, <2>2
    <2> QED  BY <1>0, <2>3 DEF MapOn
  <1>3. /\ MapOn(lifecycle', Chunks)
        /\ \A d \in Chunks : lifecycle[d] = "registered" => lifecycle'[d] = "registered"
    BY <1>0 DEF Register, MapOn
  <1> QED  BY <1>0, <1>1, <1>2, <1>3, IndexKept DEF Taken

LEMMA UnpackKeeps ==
    ASSUME IndexInv, NEW c \in Chunks, Unpack(c)
    PROVE  IndexInv'
  <1>0. /\ Shapes /\ HeadsInv /\ NothingBefore /\ TickingStay /\ DeadlinesInv
        /\ ActiveSet \subseteq Chunks
    BY DEF IndexInv, Shapes
  <1>1. /\ step = "idle" /\ lifecycle[c] = "registered"
        /\ UNCHANGED <<step, kind, taken, place, lifecycle, active>>
    BY DEF Unpack, game
  <1>2. /\ live' = [q \in Queues |-> IF q[1] = c THEN Unpacked(q) ELSE live[q]]
        /\ head' = [q \in Queues |-> IF q[1] = c THEN HeadOf(Unpacked(q)) ELSE head[q]]
    BY DEF Unpack
  <1>3. ActiveSet' = ActiveSet
    BY <1>1 DEF ActiveSet
  <1>4. \A q \in Queues : /\ q[1] = c => head'[q] = HeadOf(live'[q])
                          /\ q[1] # c => head'[q] = head[q] /\ live'[q] = live[q]
    BY <1>2
  <1>5. HeadsInv'
    BY <1>0, <1>1, <1>4 DEF HeadsInv, Taken
  <1>6. NothingBefore'
    BY <1>0, <1>1, <1>4 DEF NothingBefore
  <1>7. \A k \in Kinds : deadlines'[k] =
              IF c \notin ActiveSet THEN deadlines[k]
              ELSE (deadlines[k] \ {<<head[<<c, k>>], c>>}) \cup
                   {<<t, c>> : t \in {head'[<<c, k>>]} \ {NoHead}}
    <2>1. \A k \in Kinds : head'[<<c, k>>] = HeadOf(Unpacked(<<c, k>>))
      BY <1>2, QueueFacts
    <2> QED  BY <2>1, QueueFacts DEF Unpack
  <1>8. MapOn(deadlines', Kinds) /\ MapOn(live', Queues) /\ MapOn(head', Queues)
    <2>1. deadlines' = [k \in Kinds |-> deadlines'[k]]
      BY DEF Unpack
    <2> QED  BY <1>2, <2>1 DEF MapOn
  <1>9. DeadlinesInv'
    <2> SUFFICES ASSUME NEW k \in Kinds PROVE deadlines'[k] = DeadlinesOf(ActiveSet, head', k)
      BY <1>3 DEF DeadlinesInv
    <2>1. deadlines[k] = DeadlinesOf(ActiveSet, head, k)
      BY <1>0 DEF DeadlinesInv
    <2>2. \A d \in Chunks \ {c} : head'[<<d, k>>] = head[<<d, k>>]
      BY <1>4, QueueFacts
    <2>3. {<<t, c>> : t \in {head'[<<c, k>>]} \ {NoHead}} =
             IF head'[<<c, k>>] = NoHead THEN {} ELSE {<<head'[<<c, k>>], c>>}
      OBVIOUS
    <2>4. DeadlinesOf(ActiveSet, head', k) =
             IF c \notin ActiveSet THEN DeadlinesOf(ActiveSet, head, k)
             ELSE (DeadlinesOf(ActiveSet, head, k) \ {<<head[<<c, k>>], c>>}) \cup
                  (IF head'[<<c, k>>] = NoHead THEN {} ELSE {<<head'[<<c, k>>], c>>})
      BY <1>0, <2>2, OneHead
    <2> QED  BY <1>7, <2>1, <2>3, <2>4
  <1>10. Shapes' /\ TickingStay' /\ TakenTick'
    BY <1>0, <1>1, <1>3, <1>8 DEF Shapes, TickingStay, TakenTick
  <1> QED  BY <1>5, <1>6, <1>9, <1>10 DEF IndexInv

LEMMA ReconcileKeeps ==
    ASSUME IndexInv, NEW chunks \in SetToAllKPermutations(Chunks), Reconcile(chunks)
    PROVE  IndexInv'
  <1>0. Shapes /\ HeadsInv /\ NothingBefore
    BY DEF IndexInv
  <1>1. \A i \in DOMAIN chunks : chunks[i] \in Chunks
    BY DEF SetToAllKPermutations, SetToSeqs
  <1>2. ActiveSet' = ToSet(chunks) /\ ToSet(chunks) \subseteq Chunks
    BY <1>1 DEF Reconcile, ActiveSet, ToSet
  <1>3. /\ step = "idle" /\ UNCHANGED <<step, kind, taken, place, lifecycle, live, head>>
        /\ deadlines' = [k \in Kinds |-> DeadlinesOf(ToSet(chunks), head, k)]
    BY DEF Reconcile, containers, game, DeadlinesOf
  <1>4. \A c \in ToSet(chunks) : lifecycle[c] = "registered" /\ place[c] = "map"
    BY DEF Reconcile, ToSet
  <1>5. Shapes'
    BY <1>0, <1>2, <1>3 DEF Shapes, MapOn
  <1>6. HeadsInv' /\ NothingBefore'
    BY <1>0, <1>3 DEF HeadsInv, NothingBefore, Taken
  <1>7. TickingStay' /\ TakenTick' /\ DeadlinesInv'
    BY <1>2, <1>3, <1>4 DEF TickingStay, TakenTick, DeadlinesInv
  <1> QED  BY <1>5, <1>6, <1>7 DEF IndexInv

LEMMA UnregisterKeeps ==
    ASSUME IndexInv, NEW c \in Chunks, Unregister(c)
    PROVE  IndexInv'
  <1>0. /\ Shapes /\ HeadsInv /\ NothingBefore /\ TickingStay /\ DeadlinesInv
        /\ ActiveSet \subseteq Chunks
    BY DEF IndexInv, Shapes
  <1>1. /\ step # "drain" /\ UNCHANGED <<step, kind, taken, active>>
        /\ place[c] = "unloading"
        /\ place' = [place EXCEPT ![c] = "none"]
        /\ lifecycle' = [lifecycle EXCEPT ![c] = "finalized"]
        /\ live' = [q \in Queues |-> IF q[1] = c THEN {} ELSE live[q]]
        /\ head' = [q \in Queues |-> IF q[1] = c THEN NoHead ELSE head[q]]
        /\ deadlines' = [k \in Kinds |-> {d \in deadlines[k] : d[2] # c}]
    BY DEF Unregister, PhaseFree, game
  <1>2. ActiveSet' = ActiveSet /\ c \notin ActiveSet
    BY <1>0, <1>1 DEF ActiveSet, TickingStay
  <1>3. \A q \in Queues : /\ q[1] = c => live'[q] = {} /\ head'[q] = NoHead
                          /\ q[1] # c => live'[q] = live[q] /\ head'[q] = head[q]
    BY <1>1
  <1>4. /\ MapOn(place', Chunks) /\ MapOn(lifecycle', Chunks)
        /\ \A d \in Chunks \ {c} : place'[d] = place[d] /\ lifecycle'[d] = lifecycle[d]
    BY <1>0, <1>1 DEF Shapes, MapOn
  <1>5. Shapes'
    BY <1>0, <1>1, <1>2, <1>4 DEF Shapes, MapOn
  <1>6. HeadsInv'
    BY <1>0, <1>1, <1>3, EmptyHasNoHead DEF HeadsInv, Taken
  <1>7. NothingBefore'
    BY <1>0, <1>3, <1>4, QueueFacts DEF NothingBefore
  <1>8. TickingStay' /\ TakenTick'
    BY <1>0, <1>1, <1>2, <1>4 DEF TickingStay, TakenTick
  <1>9. DeadlinesInv'
    <2> SUFFICES ASSUME NEW k \in Kinds PROVE deadlines'[k] = DeadlinesOf(ActiveSet, head', k)
      BY <1>2 DEF DeadlinesInv
    <2>1. deadlines[k] = DeadlinesOf(ActiveSet, head, k)
      BY <1>0 DEF DeadlinesInv
    <2>2. \A d \in deadlines[k] : d[2] # c
      <3> SUFFICES ASSUME NEW x \in DeadlinesOf(ActiveSet, head, k) PROVE x[2] # c
        BY <2>1
      <3>1. PICK d \in ActiveSet : x = <<head[<<d, k>>], d>>
        BY DEF DeadlinesOf
      <3> QED  BY <1>2, <3>1
    <2>3. deadlines'[k] = deadlines[k]
      BY <1>1, <2>2
    <2>4. \A d \in ActiveSet : head'[<<d, k>>] = head[<<d, k>>]
      BY <1>0, <1>2, <1>3, QueueFacts
    <2> QED  BY <1>0, <2>1, <2>3, <2>4, SameHeads
  <1> QED  BY <1>5, <1>6, <1>7, <1>8, <1>9 DEF IndexInv

LEMMA ScheduleKeeps ==
    ASSUME IndexInv, NEW key \in Keys, NEW delay, NEW p, Schedule(key, delay, p)
    PROVE  IndexInv'
  <1>0. /\ Shapes /\ HeadsInv /\ NothingBefore /\ TickingStay /\ DeadlinesInv
        /\ ActiveSet \subseteq Chunks
    BY DEF IndexInv, Shapes
  <1> DEFINE q == QueueOf(key)
             c == key.chunk
             j == key.kind
  <1>1. /\ step # "drain" /\ UNCHANGED <<step, kind, taken, active, place, lifecycle>>
        /\ lifecycle[c] = "registered"
    BY DEF Schedule, PhaseFree, game
  <1>2. /\ c \in Chunks /\ j \in Kinds /\ q \in Queues /\ q[1] = c /\ q[2] = j /\ q = <<c, j>>
    BY KeyFacts DEF QueueOf
  <1>3. ActiveSet' = ActiveSet
    BY <1>1 DEF ActiveSet
  <1>4. CASE UNCHANGED <<live, head, deadlines>>
    BY <1>0, <1>1, <1>4, IndexKept DEF Shapes, TickingStay, Taken
  <1>5. CASE \E t : live' = [live EXCEPT ![q] = @ \cup {t}] /\ SetHead(q, HeadOf(live[q] \cup {t}))
    <2>1. PICK t : live' = [live EXCEPT ![q] = @ \cup {t}] /\ SetHead(q, HeadOf(live[q] \cup {t}))
      BY <1>5
    <2> DEFINE h == HeadOf(live[q] \cup {t})
    <2>2. /\ head' = [head EXCEPT ![q] = h]
          /\ deadlines' =
                IF q[1] \notin ActiveSet THEN deadlines
                ELSE [deadlines EXCEPT ![q[2]] =
                        (@ \ {<<head[q], q[1]>>}) \cup (IF h = NoHead THEN {} ELSE {<<h, q[1]>>})]
      BY <2>1 DEF SetHead
    <2>3. /\ MapOn(live', Queues) /\ MapOn(head', Queues)
          /\ live'[q] = live[q] \cup {t} /\ head'[q] = h
          /\ \A r \in Queues \ {q} : live'[r] = live[r] /\ head'[r] = head[r]
      BY <1>0, <1>2, <2>1, <2>2 DEF Shapes, MapOn
    <2>4. head'[q] = HeadOf(live'[q])
      BY <2>3
    <2> HIDE DEF h, q, c, j
    <2>5. /\ MapOn(deadlines', Kinds)
          /\ \A k \in Kinds \ {j} : deadlines'[k] = deadlines[k]
          /\ deadlines'[j] = IF c \notin ActiveSet THEN deadlines[j]
                             ELSE (deadlines[j] \ {<<head[q], c>>}) \cup
                                  (IF h = NoHead THEN {} ELSE {<<h, c>>})
      BY <1>0, <1>2, <2>2 DEF Shapes, MapOn
    <2>6. HeadsInv'
      BY <1>0, <1>1, <2>3, <2>4 DEF HeadsInv, Taken
    <2>7. NothingBefore'
      BY <1>0, <1>1, <1>2, <2>3 DEF NothingBefore
    <2>8. DeadlinesInv'
      <3> SUFFICES ASSUME NEW k \in Kinds PROVE deadlines'[k] = DeadlinesOf(ActiveSet, head', k)
        BY <1>3 DEF DeadlinesInv
      <3>1. deadlines[k] = DeadlinesOf(ActiveSet, head, k)
        BY <1>0 DEF DeadlinesInv
      <3>2. CASE k # j
        <4>1. \A d \in ActiveSet : head'[<<d, k>>] = head[<<d, k>>]
          <5>1. \A d \in ActiveSet : <<d, k>> \in Queues \ {q}
            BY <1>0, <1>2, <3>2, QueueFacts
          <5> QED  BY <2>3, <5>1
        <4> QED  BY <1>0, <2>5, <3>1, <3>2, <4>1, SameHeads
      <3>3. CASE k = j
        <4>1. \A d \in Chunks \ {c} : head'[<<d, k>>] = head[<<d, k>>]
          <5>1. \A d \in Chunks \ {c} : <<d, k>> \in Queues \ {q}
            BY <1>2, <3>3, QueueFacts
          <5> QED  BY <2>3, <5>1
        <4>2. DeadlinesOf(ActiveSet, head', k) =
                IF c \notin ActiveSet THEN DeadlinesOf(ActiveSet, head, k)
                ELSE (DeadlinesOf(ActiveSet, head, k) \ {<<head[<<c, k>>], c>>}) \cup
                     (IF head'[<<c, k>>] = NoHead THEN {} ELSE {<<head'[<<c, k>>], c>>})
          BY <1>0, <1>2, <4>1, OneHead DEF c
        <4>3. head'[<<c, k>>] = h /\ head[<<c, k>>] = head[q]
          BY <1>2, <2>3, <3>3
        <4> QED  BY <2>5, <3>1, <3>3, <4>2, <4>3
      <3> QED  BY <3>2, <3>3
    <2>9. Shapes' /\ TickingStay' /\ TakenTick'
      BY <1>0, <1>1, <1>3, <2>3, <2>5 DEF Shapes, TickingStay, TakenTick
    <2> QED  BY <2>6, <2>7, <2>8, <2>9 DEF IndexInv
  <1> QED  BY <1>4, <1>5 DEF Schedule

(* The chunks of the deadlines taken are ticking, and what stays behind    *)
(* are the deadlines of the others.                                        *)
LEMMA TakeDueKeeps ==
    ASSUME IndexInv, TakeDue
    PROVE  IndexInv'
  <1>0. /\ Shapes /\ HeadsInv /\ NothingBefore /\ TickingStay /\ DeadlinesInv
        /\ ActiveSet \subseteq Chunks /\ kind \in Kinds
    BY DEF IndexInv, Shapes
  <1> DEFINE due == {d \in deadlines[kind] : d[1] <= now}
             chunks == {d[2] : d \in due}
  <1>1. /\ step = "collect" /\ step' = "drain" /\ taken' = chunks
        /\ UNCHANGED <<kind, active, place, lifecycle, live>>
        /\ deadlines' = [deadlines EXCEPT ![kind] = @ \ due]
        /\ head' = [q \in Queues |-> IF q[1] \in chunks /\ q[2] = kind THEN NoHead ELSE head[q]]
    BY DEF TakeDue, containers
  <1>2. ActiveSet' = ActiveSet
    BY <1>1 DEF ActiveSet
  <1>3. deadlines[kind] = DeadlinesOf(ActiveSet, head, kind)
    BY <1>0 DEF DeadlinesInv
  <1>4. \A x \in deadlines[kind] : x[2] \in ActiveSet /\ x = <<head[<<x[2], kind>>], x[2]>>
    <2> SUFFICES ASSUME NEW x \in DeadlinesOf(ActiveSet, head, kind)
                 PROVE  x[2] \in ActiveSet /\ x = <<head[<<x[2], kind>>], x[2]>>
      BY <1>3
    <2>1. PICK d \in ActiveSet : x = <<head[<<d, kind>>], d>>
      BY DEF DeadlinesOf
    <2> QED  BY <2>1
  <1>5. chunks \subseteq ActiveSet
    BY <1>4
  <1>6. \A x \in deadlines[kind] : x[2] \in chunks <=> x \in due
    <2> SUFFICES ASSUME NEW x \in deadlines[kind], x[2] \in chunks PROVE x \in due
      OBVIOUS
    <2>1. PICK y \in due : y[2] = x[2]
      OBVIOUS
    <2>2. y = x
      <3>1. x = <<head[<<x[2], kind>>], x[2]>>
        BY <1>4
      <3>2. y = <<head[<<y[2], kind>>], y[2]>>
        BY <1>4, <2>1
      <3> QED  BY <2>1, <3>1, <3>2
    <2> QED  BY <2>1, <2>2
  <1> HIDE DEF chunks, due
  <1>7. /\ MapOn(head', Queues) /\ MapOn(deadlines', Kinds)
        /\ deadlines'[kind] = deadlines[kind] \ due
        /\ \A k \in Kinds \ {kind} : deadlines'[k] = deadlines[k]
        /\ \A q \in Queues :
              head'[q] = IF q[1] \in chunks /\ q[2] = kind THEN NoHead ELSE head[q]
    BY <1>0, <1>1 DEF Shapes, MapOn
  <1>8. HeadsInv'
    <2>1. \A q \in Queues : head[q] = HeadOf(live[q])
      BY <1>0, <1>1 DEF HeadsInv, Taken
    <2>2. \A q \in Queues : Taken(q)' <=> q[1] \in chunks /\ q[2] = kind
      BY <1>1 DEF Taken
    <2> QED  BY <1>1, <1>7, <2>1, <2>2 DEF HeadsInv
  <1>9. DeadlinesInv'
    <2> SUFFICES ASSUME NEW k \in Kinds PROVE deadlines'[k] = DeadlinesOf(ActiveSet, head', k)
      BY <1>2 DEF DeadlinesInv
    <2>1. CASE k # kind
      <3>1. \A d \in ActiveSet : head'[<<d, k>>] = head[<<d, k>>]
        BY <1>0, <1>7, <2>1, QueueFacts
      <3> QED  BY <1>0, <1>7, <2>1, <3>1, SameHeads DEF DeadlinesInv
    <2>2. CASE k = kind
      <3>1. ASSUME NEW d \in ActiveSet
            PROVE  head'[<<d, k>>] = IF d \in chunks THEN NoHead ELSE head[<<d, k>>]
        BY <1>0, <1>7, <2>2, QueueFacts
      <3>2. ASSUME NEW x \in deadlines[k] \ due PROVE x \in DeadlinesOf(ActiveSet, head', k)
        <4>1. PICK d \in ActiveSet : head[<<d, k>>] # NoHead /\ x = <<head[<<d, k>>], d>>
          BY <1>3, <2>2 DEF DeadlinesOf
        <4>2. d \notin chunks
          BY <1>6, <2>2, <3>2, <4>1
        <4>3. head'[<<d, k>>] = head[<<d, k>>]
          BY <3>1, <4>2
        <4> QED  BY <4>1, <4>3 DEF DeadlinesOf
      <3>3. ASSUME NEW x \in DeadlinesOf(ActiveSet, head', k) PROVE x \in deadlines[k] \ due
        <4>1. PICK d \in ActiveSet : head'[<<d, k>>] # NoHead /\ x = <<head'[<<d, k>>], d>>
          BY DEF DeadlinesOf
        <4>2. d \notin chunks /\ head'[<<d, k>>] = head[<<d, k>>]
          BY <3>1, <4>1
        <4>3. x \in deadlines[k]
          BY <1>3, <2>2, <4>1, <4>2 DEF DeadlinesOf
        <4>4. x[2] = d
          BY <4>1
        <4> QED  BY <1>6, <2>2, <4>2, <4>3, <4>4
      <3>4. deadlines[k] \ due = DeadlinesOf(ActiveSet, head', k)
        BY <3>2, <3>3
      <3> QED  BY <1>7, <2>2, <3>4
    <2> QED  BY <2>1, <2>2
  <1>10. Shapes' /\ TickingStay' /\ TakenTick' /\ NothingBefore'
    BY <1>0, <1>1, <1>2, <1>5, <1>7 DEF Shapes, TickingStay, TakenTick, NothingBefore
  <1> QED  BY <1>8, <1>9, <1>10 DEF IndexInv

LEMMA DrainTurnKeeps ==
    ASSUME IndexInv, NEW c \in Chunks, DrainTurn(c)
    PROVE  IndexInv'
  <1>0. /\ Shapes /\ HeadsInv /\ NothingBefore /\ TickingStay /\ DeadlinesInv /\ TakenTick
        /\ kind \in Kinds
    BY DEF IndexInv, Shapes
  <1>1. /\ step = "drain" /\ c \in taken
        /\ UNCHANGED <<step, kind, taken, active, head, deadlines, place, lifecycle>>
    BY DEF DrainTurn, Ready, index
  <1>2. PICK gone : live' = [live EXCEPT ![<<c, kind>>] = @ \ gone]
    BY DEF DrainTurn
  <1>3. ActiveSet' = ActiveSet
    BY <1>1 DEF ActiveSet
  <1>4. MapOn(live', Queues) /\ \A q \in Queues \ {<<c, kind>>} : live'[q] = live[q]
    BY <1>0, <1>2 DEF Shapes, MapOn
  <1>5. HeadsInv'
    <2> SUFFICES ASSUME NEW q \in Queues
                 PROVE  head[q] = IF Taken(q) THEN NoHead ELSE HeadOf(live'[q])
      BY <1>1 DEF HeadsInv, Taken
    <2>1. q = <<c, kind>> => Taken(q)
      BY <1>0, <1>1, QueueFacts DEF Taken
    <2> QED  BY <1>0, <1>4, <2>1 DEF HeadsInv
  <1>6. NothingBefore'
    <2>1. lifecycle[c] = "registered"
      BY <1>0, <1>1 DEF TakenTick, TickingStay
    <2> QED  BY <1>0, <1>1, <1>4, <2>1, QueueFacts DEF NothingBefore
  <1>7. Shapes' /\ TickingStay' /\ TakenTick' /\ DeadlinesInv'
    BY <1>0, <1>1, <1>3, <1>4 DEF Shapes, TickingStay, TakenTick, DeadlinesInv
  <1> QED  BY <1>5, <1>6, <1>7 DEF IndexInv

LEMMA EndCollectionKeeps ==
    ASSUME IndexInv, EndCollection
    PROVE  IndexInv'
  <1>0. /\ Shapes /\ HeadsInv /\ NothingBefore /\ TickingStay /\ DeadlinesInv
        /\ ActiveSet \subseteq Chunks /\ kind \in Kinds /\ step = "drain"
        /\ taken \subseteq ActiveSet
    BY DEF IndexInv, Shapes, TakenTick, EndCollection
  <1>1. /\ step' = "drained" /\ UNCHANGED <<kind, active, place, lifecycle, live>>
        /\ head' = [q \in Queues |-> IF q[1] \in taken /\ q[2] = kind
                                     THEN HeadOf(live[q]) ELSE head[q]]
    BY DEF EndCollection, containers, HeadUpdates
  <1>2. deadlines' = [deadlines EXCEPT ![kind] = @ \cup DeadlinesOf(taken, head', kind)]
    BY DEF EndCollection, HeadUpdates, DeadlinesOf
  <1>3. ActiveSet' = ActiveSet
    BY <1>1 DEF ActiveSet
  <1>4. /\ MapOn(head', Queues) /\ MapOn(deadlines', Kinds)
        /\ deadlines'[kind] = deadlines[kind] \cup DeadlinesOf(taken, head', kind)
        /\ \A k \in Kinds \ {kind} : deadlines'[k] = deadlines[k]
        /\ \A q \in Queues : head'[q] = IF q[1] \in taken /\ q[2] = kind
                                         THEN HeadOf(live[q]) ELSE head[q]
    BY <1>0, <1>1, <1>2 DEF Shapes, MapOn
  <1>5. HeadsInv'
    BY <1>0, <1>1, <1>4 DEF HeadsInv, Taken
  <1>6. DeadlinesInv'
    <2> SUFFICES ASSUME NEW k \in Kinds PROVE deadlines'[k] = DeadlinesOf(ActiveSet, head', k)
      BY <1>3 DEF DeadlinesInv
    <2>0. deadlines[k] = DeadlinesOf(ActiveSet, head, k)
      BY <1>0 DEF DeadlinesInv
    <2>1. CASE k # kind
      <3>1. \A d \in ActiveSet : head'[<<d, k>>] = head[<<d, k>>]
        BY <1>0, <1>4, <2>1, QueueFacts
      <3> QED  BY <1>0, <1>4, <2>0, <2>1, <3>1, SameHeads
    <2>2. CASE k = kind
      <3>1. \A d \in ActiveSet \ taken : head'[<<d, k>>] = head[<<d, k>>]
        BY <1>0, <1>4, <2>2, QueueFacts
      <3>2. \A d \in taken : head[<<d, k>>] = NoHead
        <4> SUFFICES ASSUME NEW d \in taken PROVE head[<<d, k>>] = NoHead
          OBVIOUS
        <4>1. <<d, k>> \in Queues /\ Taken(<<d, k>>)
          BY <1>0, <2>2, QueueFacts DEF Taken
        <4> QED  BY <1>0, <4>1 DEF HeadsInv
      <3>3. DeadlinesOf(ActiveSet, head, k) = DeadlinesOf(ActiveSet \ taken, head', k)
        <4>1. DeadlinesOf(ActiveSet, head, k) = DeadlinesOf(ActiveSet \ taken, head, k)
          BY <3>2 DEF DeadlinesOf
        <4>2. ActiveSet \ taken \subseteq Chunks
          BY <1>0
        <4>3. DeadlinesOf(ActiveSet \ taken, head', k) = DeadlinesOf(ActiveSet \ taken, head, k)
          BY <3>1, <4>2, SameHeads
        <4> QED  BY <4>1, <4>3
      <3>4. DeadlinesOf(ActiveSet, head', k) =
               DeadlinesOf(ActiveSet \ taken, head', k) \cup DeadlinesOf(taken, head', k)
        BY <1>0 DEF DeadlinesOf
      <3> QED  BY <1>4, <2>0, <2>2, <3>3, <3>4
    <2> QED  BY <2>1, <2>2
  <1>7. Shapes' /\ TickingStay' /\ TakenTick' /\ NothingBefore'
    BY <1>0, <1>1, <1>3, <1>4 DEF Shapes, TickingStay, TakenTick, NothingBefore
  <1> QED  BY <1>5, <1>6, <1>7 DEF IndexInv

LEMMA IndexStep == IndexInv /\ [TickNext]_tickVars => IndexInv'
  <1> SUFFICES ASSUME IndexInv, [TickNext]_tickVars PROVE IndexInv'
    OBVIOUS
  <1>1. CASE ChunkStep
    BY <1>1, QuietSteps, RegisterKeeps, UnpackKeeps, UnregisterKeeps, ReconcileKeeps DEF ChunkStep
  <1>2. CASE ScheduleStep
    BY <1>2, QuietSteps, ScheduleKeeps DEF ScheduleStep
  <1>3. CASE GameStep
    BY <1>3, QuietSteps, TakeDueKeeps, EndCollectionKeeps, DrainTurnKeeps DEF GameStep
  <1>4. CASE SaveStep
    BY <1>4, QuietSteps DEF SaveStep
  <1>5. CASE UNCHANGED tickVars
    BY <1>5, QuietSteps
  <1> QED  BY <1>1, <1>2, <1>3, <1>4, <1>5 DEF TickNext

LEMMA IndexInit ==
    ASSUME NEW lists, NewWorld \/ SavedWorld(lists)
    PROVE  IndexInv
  <1>1. NothingLoaded /\ MapOn(lifecycle, Chunks)
    BY DEF NewWorld, SavedWorld, MapOn
  <1>2. ActiveSet = {}
    BY <1>1 DEF NothingLoaded, ActiveSet
  <1>3. Shapes
    BY <1>1, <1>2, KindsFacts DEF NothingLoaded, Shapes, MapOn
  <1>4. HeadsInv /\ NothingBefore
    BY <1>1, EmptyHasNoHead DEF NothingLoaded, HeadsInv, NothingBefore, Taken
  <1>5. DeadlinesInv
    BY <1>1, <1>2 DEF NothingLoaded, DeadlinesInv, DeadlinesOf
  <1>6. TickingStay /\ TakenTick
    BY <1>1, <1>2 DEF NothingLoaded, TickingStay, TakenTick
  <1> QED  BY <1>3, <1>4, <1>5, <1>6 DEF IndexInv

(* No queue falls out of the index: whatever schedule calls, unpackings,   *)
(* unloads and collections cut off at the limit come in between, the index *)
(* of take_due holds the earliest deadline of every ticking queue and      *)
(* nothing else whenever the phase lock is free.                           *)
THEOREM NoDeadlineIsLost ==
    ASSUME NEW lists
    PROVE  (NewWorld \/ SavedWorld(lists)) /\ [][TickNext]_tickVars => []DeadlinesExact
  <1>1. IndexInv => DeadlinesExact
    <2> SUFFICES ASSUME IndexInv, PhaseFree PROVE DeadlinesExact
      BY DEF DeadlinesExact
    <2>1. \A q \in Queues : head[q] = HeadOf(live[q])
      BY DEF IndexInv, HeadsInv, Taken, PhaseFree
    <2>2. \A k \in Kinds : deadlines[k] = DeadlinesOf(ActiveSet, head, k)
      BY DEF IndexInv, DeadlinesInv
    <2> QED  BY <2>1, <2>2 DEF DeadlinesExact, DeadlinesOf
  <1>2. NewWorld \/ SavedWorld(lists) => IndexInv
    BY IndexInit
  <1> QED  BY <1>1, <1>2, IndexStep, PTL

-----------------------------------------------------------------------------
(* Lists of saved ticks of a queue, numbered below n.                      *)
SavedBelow(q, n) == {t \in SavedTicks(q) : t.id < n}
Listed(s, q, n) == s \in Seq(SavedBelow(q, n))
IdsOf(s) == {s[i].id : i \in DOMAIN s}

LEMMA ListedEmpty ==
    ASSUME NEW q, NEW n PROVE Listed(<<>>, q, n) /\ IdsOf(<<>>) = {}
  BY DEF Listed, IdsOf

LEMMA ListedGrows ==
    ASSUME NEW q, NEW n \in Int, NEW m \in Int, n <= m, NEW s, Listed(s, q, n)
    PROVE  Listed(s, q, m)
  <1>1. \A t \in SavedTicks(q) : t.id \in Int
    BY DEF SavedTicks
  <1>2. SavedBelow(q, n) \subseteq SavedBelow(q, m)
    BY <1>1 DEF SavedBelow
  <1> HIDE DEF SavedBelow
  <1> QED  BY <1>2 DEF Listed

LEMMA ListedEntry ==
    ASSUME NEW q, NEW n, NEW s, Listed(s, q, n)
    PROVE  /\ Len(s) \in Nat /\ DOMAIN s = 1 .. Len(s)
           /\ \A i \in 1 .. Len(s) : s[i] \in SavedBelow(q, n)
  BY DEF Listed

LEMMA ListedAppend ==
    ASSUME NEW q, NEW n, NEW s, Listed(s, q, n), NEW t \in SavedBelow(q, n)
    PROVE  Listed(Append(s, t), q, n) /\ IdsOf(Append(s, t)) = IdsOf(s) \cup {t.id}
  <1> HIDE DEF SavedBelow
  <1>1. /\ Listed(Append(s, t), q, n) /\ Len(s) \in Nat
        /\ DOMAIN s = 1 .. Len(s) /\ DOMAIN Append(s, t) = 1 .. (Len(s) + 1)
        /\ \A i \in 1 .. Len(s) : Append(s, t)[i] = s[i]
        /\ Append(s, t)[Len(s) + 1] = t
    BY DEF Listed
  <1>2. 1 .. (Len(s) + 1) = (1 .. Len(s)) \cup {Len(s) + 1}
    BY <1>1
  <1> QED  BY <1>1, <1>2 DEF IdsOf

LEMMA ListedConcat ==
    ASSUME NEW q, NEW n, NEW s, Listed(s, q, n), NEW t, Listed(t, q, n)
    PROVE  Listed(s \o t, q, n) /\ IdsOf(s \o t) = IdsOf(s) \cup IdsOf(t)
  <1> HIDE DEF SavedBelow
  <1>1. /\ Listed(s \o t, q, n) /\ Len(s) \in Nat /\ Len(t) \in Nat
        /\ DOMAIN s = 1 .. Len(s) /\ DOMAIN t = 1 .. Len(t)
        /\ DOMAIN (s \o t) = 1 .. (Len(s) + Len(t))
        /\ \A i \in 1 .. Len(s) : (s \o t)[i] = s[i]
        /\ \A i \in 1 .. Len(t) : (s \o t)[Len(s) + i] = t[i]
    BY DEF Listed
  <1>2. ASSUME NEW i \in 1 .. (Len(s) + Len(t)), i > Len(s)
        PROVE  i - Len(s) \in 1 .. Len(t) /\ Len(s) + (i - Len(s)) = i
    BY <1>1, <1>2
  <1>3. ASSUME NEW x \in IdsOf(s \o t) PROVE x \in IdsOf(s) \cup IdsOf(t)
    <2>1. PICK i \in 1 .. (Len(s) + Len(t)) : x = (s \o t)[i].id
      BY <1>1, <1>3 DEF IdsOf
    <2>2. CASE i <= Len(s)
      BY <1>1, <2>1, <2>2 DEF IdsOf
    <2>3. CASE i > Len(s)
      <3>1. (s \o t)[i] = t[i - Len(s)] /\ i - Len(s) \in 1 .. Len(t)
        BY <1>1, <1>2, <2>3
      <3> QED  BY <1>1, <2>1, <3>1 DEF IdsOf
    <2> QED  BY <1>1, <2>2, <2>3
  <1>4. ASSUME NEW x \in IdsOf(s) PROVE x \in IdsOf(s \o t)
    <2>1. PICK i \in 1 .. Len(s) : x = s[i].id
      BY <1>1 DEF IdsOf
    <2>2. i \in 1 .. (Len(s) + Len(t)) /\ (s \o t)[i] = s[i]
      BY <1>1
    <2> QED  BY <1>1, <2>1, <2>2 DEF IdsOf
  <1>5. ASSUME NEW x \in IdsOf(t) PROVE x \in IdsOf(s \o t)
    <2>1. PICK i \in 1 .. Len(t) : x = t[i].id
      BY <1>1 DEF IdsOf
    <2>2. Len(s) + i \in 1 .. (Len(s) + Len(t)) /\ (s \o t)[Len(s) + i] = t[i]
      BY <1>1
    <2> QED  BY <1>1, <2>1, <2>2 DEF IdsOf
  <1> QED  BY <1>1, <1>3, <1>4, <1>5

LEMMA ListedAtPlaces ==
    ASSUME NEW q, NEW n, NEW s, Listed(s, q, n), NEW P, P \subseteq DOMAIN s
    PROVE  Listed(AtPlaces(s, P), q, n) /\ IdsOf(AtPlaces(s, P)) = {s[i].id : i \in P}
  <1> DEFINE c == Cardinality(P)
             r == AtPlaces(s, P)
  <1>1. Len(s) \in Nat /\ DOMAIN s = 1 .. Len(s) /\ \A i \in 1 .. Len(s) : s[i] \in SavedBelow(q, n)
    BY ListedEntry
  <1>2. /\ c \in Nat /\ r = [i \in 1 .. c |-> r[i]]
        /\ \A i \in 1 .. c : \E j \in P : r[i] = s[j]
        /\ \A j \in P : \E i \in 1 .. c : r[i] = s[j]
    <2>1. PICK N \in Nat : P \subseteq 1 .. N
      BY <1>1
    <2>2. Retains(r, s, P)
      BY <2>1, AtPlacesFacts
    <2> HIDE DEF r
    <2> QED  BY <2>2 DEF Retains
  <1> HIDE DEF c, r, SavedBelow
  <1>3. \A i \in 1 .. c : r[i] \in SavedBelow(q, n)
    BY <1>1, <1>2
  <1>4. r \in Seq(SavedBelow(q, n)) /\ DOMAIN r = 1 .. c
    BY <1>2, <1>3
  <1>5. IdsOf(r) = {s[i].id : i \in P}
    BY <1>2, <1>4 DEF IdsOf
  <1> QED  BY <1>4, <1>5 DEF r, Listed

-----------------------------------------------------------------------------
(* Live ticks of a queue, with ids and orders given out before n.          *)
LiveTicks(q) == [id : Nat, key : {key \in Keys : QueueOf(key) = q}, trigger : Int,
                 priority : Priorities, order : Int]
LiveBelow(q, n) == {t \in LiveTicks(q) : t.id < n /\ t.order < n}
Queued(S, q, n) ==
    /\ IsFiniteSet(S) /\ \A t \in S : t \in LiveBelow(q, n)
    /\ \A t, u \in S : t.order = u.order => t = u

LEMMA QueuedTyped ==
    ASSUME NEW S, NEW q, NEW n, Queued(S, q, n)
    PROVE  \A t \in S : /\ t.id \in Nat /\ t.trigger \in Int /\ t.priority \in Int /\ t.order \in Int
                        /\ t.id < n /\ t.order < n /\ t.key \in Keys /\ QueueOf(t.key) = q
                        /\ t.priority \in Priorities
  BY TickConstants DEF Queued, LiveBelow, LiveTicks

Drains(S) == {p \in S \X S : DrainsBefore(p[1], p[2])}
Packs(S) == {p \in S \X S : PacksBefore(p[1], p[2])}

LEMMA DrainsOrders ==
    ASSUME NEW S, NEW q, NEW n, Queued(S, q, n)
    PROVE  Orders(Drains(S), S) /\ Orders(Packs(S), S)
  <1>1. \A t \in S : /\ t.id \in Nat /\ t.trigger \in Int /\ t.priority \in Int /\ t.order \in Int
    BY QueuedTyped
  <1>2. \A t, u \in S : t.order = u.order => t = u
    BY DEF Queued
  <1>3. \A t, u \in S : DrainsBefore(t, u) <=>
           \/ t.trigger < u.trigger
           \/ t.trigger = u.trigger /\ \/ t.priority < u.priority
                                       \/ t.priority = u.priority /\ t.order < u.order
    BY <1>1, <1>2 DEF DrainsBefore, IntraTickOrder
  <1>4. \A t, u \in S : <<t, u>> \in Drains(S) <=> DrainsBefore(t, u)
    BY DEF Drains
  <1>5. \A t, u \in S : <<t, u>> \in Packs(S) <=> t.order < u.order
    BY <1>1, <1>2 DEF Packs, PacksBefore
  <1>6. Orders(Drains(S), S)
    <2>1. \A x \in S : <<x, x>> \notin Drains(S)
      BY <1>1, <1>3, <1>4
    <2>2. ASSUME NEW x \in S, NEW y \in S, NEW z \in S, DrainsBefore(x, y), DrainsBefore(y, z)
          PROVE  DrainsBefore(x, z)
      BY <1>1, <1>3, <2>2
    <2>3. \A x, y \in S : x = y \/ DrainsBefore(x, y) \/ DrainsBefore(y, x)
      BY <1>1, <1>2, <1>3
    <2> QED  BY <1>4, <2>1, <2>2, <2>3 DEF Orders
  <1>7. Orders(Packs(S), S)
    BY <1>1, <1>2, <1>5 DEF Orders
  <1> QED  BY <1>6, <1>7

LEMMA SortedEnumerates ==
    ASSUME NEW S, NEW q, NEW n, Queued(S, q, n)
    PROVE  /\ Cardinality(S) \in Nat
           /\ Sorted(S) = [i \in 1 .. Cardinality(S) |-> Sorted(S)[i]]
           /\ Enumerates(Sorted(S), Drains(S), S)
  <1> DEFINE c == Cardinality(S)
             front(x) == {y \in S : DrainsBefore(y, x)}
             at(i) == CHOOSE x \in S : Cardinality(front(x)) = i - 1
  <1>1. IsFiniteSet(S) /\ c \in Nat
    BY FS_CardinalityType DEF Queued
  <1>2. Orders(Drains(S), S)
    BY DrainsOrders
  <1>3. \A x \in S : front(x) = Before(Drains(S), S, x)
    BY DEF Before, Drains
  <1>4. Sorted(S) = [i \in 1 .. c |-> at(i)]
    BY DEF Sorted, InOrder
  <1>5. ASSUME NEW i \in 1 .. c
        PROVE  at(i) \in S /\ Cardinality(Before(Drains(S), S, at(i))) = i - 1
    <2>1. PICK x \in S : Cardinality(Before(Drains(S), S, x)) = i - 1
      BY <1>1, <1>2, RankedElement
    <2>2. Cardinality(front(x)) = i - 1
      BY <1>3, <2>1
    <2> HIDE DEF front
    <2>3. at(i) \in S /\ Cardinality(front(at(i))) = i - 1
      BY <2>2
    <2> QED  BY <1>3, <2>3
  <1> HIDE DEF front, at
  <1>6. /\ Sorted(S) = [i \in 1 .. c |-> Sorted(S)[i]]
        /\ \A i \in 1 .. c : Sorted(S)[i] = at(i)
    BY <1>4
  <1>7. Enumerates(Sorted(S), Drains(S), S)
    <2>1. \A i \in 1 .. c : Sorted(S)[i] \in S
                            /\ Cardinality(Before(Drains(S), S, Sorted(S)[i])) = i - 1
      BY <1>5, <1>6
    <2> QED  BY <1>1, <1>2, <1>6, <2>1, RanksEnumerate
  <1> QED  BY <1>1, <1>6, <1>7

LEMMA PackingEnumerates ==
    ASSUME NEW S, NEW q, NEW n, Queued(S, q, n)
    PROVE  /\ Cardinality(S) \in Nat
           /\ InOrder(S, PacksBefore) = [i \in 1 .. Cardinality(S) |-> InOrder(S, PacksBefore)[i]]
           /\ Enumerates(InOrder(S, PacksBefore), Packs(S), S)
  <1> DEFINE c == Cardinality(S)
             s == InOrder(S, PacksBefore)
             front(x) == {y \in S : PacksBefore(y, x)}
             at(i) == CHOOSE x \in S : Cardinality(front(x)) = i - 1
  <1>1. IsFiniteSet(S) /\ c \in Nat
    BY FS_CardinalityType DEF Queued
  <1>2. Orders(Packs(S), S)
    BY DrainsOrders
  <1>3. \A x \in S : front(x) = Before(Packs(S), S, x)
    BY DEF Before, Packs
  <1>4. s = [i \in 1 .. c |-> at(i)]
    BY DEF InOrder
  <1>5. ASSUME NEW i \in 1 .. c
        PROVE  at(i) \in S /\ Cardinality(Before(Packs(S), S, at(i))) = i - 1
    <2>1. PICK x \in S : Cardinality(Before(Packs(S), S, x)) = i - 1
      BY <1>1, <1>2, RankedElement
    <2>2. Cardinality(front(x)) = i - 1
      BY <1>3, <2>1
    <2> HIDE DEF front
    <2>3. at(i) \in S /\ Cardinality(front(at(i))) = i - 1
      BY <2>2
    <2> QED  BY <1>3, <2>3
  <1> HIDE DEF front, at, s
  <1>6. s = [i \in 1 .. c |-> s[i]] /\ \A i \in 1 .. c : s[i] = at(i)
    BY <1>4
  <1>7. Enumerates(s, Packs(S), S)
    <2>1. \A i \in 1 .. c : s[i] \in S /\ Cardinality(Before(Packs(S), S, s[i])) = i - 1
      BY <1>5, <1>6
    <2> QED  BY <1>1, <1>2, <1>6, <2>1, RanksEnumerate
  <1> QED  BY <1>1, <1>6, <1>7 DEF s

-----------------------------------------------------------------------------
(* What packing, unpacking and the batch give.                             *)
LiveIds(S) == {t.id : t \in S}
Ids(q) == IdsOf(pending[q]) \cup LiveIds(live[q])

LEMMA PackedFacts ==
    ASSUME NEW q, NEW n, Listed(pending[q], q, n), Queued(live[q], q, n), now \in Int
    PROVE  Listed(Packed(q), q, n) /\ IdsOf(Packed(q)) = Ids(q)
  <1> DEFINE S == live[q]
             c == Cardinality(S)
             s == InOrder(S, PacksBefore)
             saved(t) == [id |-> t.id, key |-> t.key, delay |-> t.trigger - now, priority |-> t.priority]
             r == [i \in DOMAIN s |-> saved(s[i])]
  <1>1. c \in Nat /\ s = [i \in 1 .. c |-> s[i]] /\ Enumerates(s, Packs(S), S)
    BY PackingEnumerates
  <1>2. Packed(q) = pending[q] \o r
    BY DEF Packed
  <1> HIDE DEF s, S
  <1>3. DOMAIN s = 1 .. c /\ (\A i \in 1 .. c : s[i] \in S) /\ (\A t \in S : \E i \in 1 .. c : s[i] = t)
    BY <1>1 DEF Enumerates
  <1>4. \A t \in S : saved(t) \in SavedBelow(q, n) /\ saved(t).id = t.id
    <2>1. ASSUME NEW t \in S PROVE saved(t) \in SavedTicks(q) /\ saved(t).id = t.id /\ t.id < n
      <3>1. /\ t.id \in Nat /\ t.trigger \in Int /\ t.id < n /\ t.key \in Keys /\ QueueOf(t.key) = q
            /\ t.priority \in Priorities
        BY QueuedTyped DEF S
      <3>2. t.trigger - now \in Int
        BY <3>1
      <3> QED  BY <3>1, <3>2 DEF SavedTicks
    <2> QED  BY <2>1 DEF SavedBelow
  <1> HIDE DEF saved
  <1>5. r = [i \in 1 .. c |-> saved(s[i])]
    BY <1>3
  <1> HIDE DEF r
  <1>6. DOMAIN r = 1 .. c /\ (\A i \in 1 .. c : r[i] \in SavedBelow(q, n) /\ r[i].id = s[i].id)
    BY <1>3, <1>4, <1>5
  <1>7. Listed(r, q, n)
    <2> HIDE DEF SavedBelow
    <2>1. r \in [1 .. c -> SavedBelow(q, n)]
      BY <1>4, <1>3, <1>5
    <2> QED  BY <1>1, <2>1 DEF Listed
  <1>8. IdsOf(r) = LiveIds(live[q])
    <2>1. ASSUME NEW x \in IdsOf(r) PROVE x \in LiveIds(S)
      BY <1>3, <1>6 DEF IdsOf, LiveIds
    <2>2. ASSUME NEW x \in LiveIds(S) PROVE x \in IdsOf(r)
      <3>1. PICK t \in S : x = t.id
        BY DEF LiveIds
      <3>2. PICK i \in 1 .. c : s[i] = t
        BY <1>3
      <3> QED  BY <1>6, <3>1, <3>2 DEF IdsOf
    <2> QED  BY <2>1, <2>2 DEF S
  <1> QED  BY <1>2, <1>7, <1>8, ListedConcat DEF Ids

LEMMA FiniteIntervals == \A k \in Nat : IsFiniteSet(1 .. k)
  <1> SUFFICES ASSUME NEW k \in Nat PROVE IsFiniteSet(1 .. k)
    OBVIOUS
  <1>1. 1 \in Int /\ k \in Int
    OBVIOUS
  <1> QED  BY <1>1, FS_Interval, Zenon

LEMMA UnpackedFacts ==
    ASSUME NEW q, NEW n \in Nat, Listed(pending[q], q, n), Queued(live[q], q, n), now \in Int,
           pending[q] # <<>> => \A t \in live[q] : t.order >= 0
    PROVE  Queued(Unpacked(q), q, n) /\ LiveIds(Unpacked(q)) = Ids(q)
  <1> DEFINE s == pending[q]
             S == live[q]
             m == Len(s)
             fresh(i) == [id |-> s[i].id, key |-> s[i].key, trigger |-> now + s[i].delay,
                          priority |-> s[i].priority, order |-> (i - 1) - m]
             F == {fresh(i) : i \in 1 .. m}
  <1>1. m \in Nat /\ DOMAIN s = 1 .. m /\ \A i \in 1 .. m : s[i] \in SavedBelow(q, n)
    BY ListedEntry
  <1>2. Unpacked(q) = S \cup F
    BY <1>1 DEF Unpacked
  <1>3. ASSUME NEW i \in 1 .. m
        PROVE  /\ fresh(i) \in LiveBelow(q, n) /\ fresh(i).id = s[i].id
               /\ fresh(i).order = (i - 1) - m /\ fresh(i).order < 0
    <2>1. /\ s[i].id \in Nat /\ s[i].key \in {key \in Keys : QueueOf(key) = q} /\ s[i].delay \in Int
          /\ s[i].priority \in Priorities /\ s[i].id < n
      BY <1>1 DEF SavedBelow, SavedTicks
    <2>2. now + s[i].delay \in Int /\ (i - 1) - m \in Int /\ (i - 1) - m < 0 /\ (i - 1) - m < n
      BY <1>1, <2>1
    <2>3. fresh(i) \in LiveTicks(q)
      BY <2>1, <2>2 DEF LiveTicks
    <2> QED  BY <2>1, <2>2, <2>3 DEF LiveBelow
  <1> HIDE DEF fresh, s, S
  <1>4. IsFiniteSet(F)
    <2>1. IsFiniteSet(1 .. m)
      BY <1>1, FiniteIntervals, Zenon
    <2> DEFINE f == [i \in 1 .. m |-> fresh(i)]
    <2>2. f \in Surjection(1 .. m, F)
      BY DEF Surjection
    <2> HIDE DEF f, F
    <2> QED  BY <2>1, <2>2, FS_Surjection
  <1>5. IsFiniteSet(S \cup F)
    BY <1>4, FS_Union DEF Queued, S
  <1>6. \A t \in S \cup F : t \in LiveBelow(q, n)
    BY <1>3 DEF Queued, S
  <1>7. ASSUME NEW t \in S \cup F, NEW u \in S \cup F, t.order = u.order PROVE t = u
    <2>1. CASE t \in S /\ u \in S
      BY <1>7, <2>1 DEF Queued, S
    <2>2. CASE t \in F /\ u \in F
      <3>1. PICK i, j \in 1 .. m : t = fresh(i) /\ u = fresh(j)
        BY <2>2
      <3>2. (i - 1) - m = (j - 1) - m
        BY <1>3, <1>7, <3>1
      <3>3. i = j
        BY <1>1, <3>2
      <3> QED  BY <3>1, <3>3
    <2>3. ASSUME NEW x \in S, NEW y \in F PROVE x.order # y.order
      <3>1. PICK i \in 1 .. m : y = fresh(i)
        OBVIOUS
      <3>2. s # <<>>
        BY <1>1, <3>1
      <3>3. x.order >= 0 /\ x.order \in Int
        BY <3>2, QueuedTyped DEF S, s
      <3>4. y.order < 0 /\ y.order = (i - 1) - m
        BY <1>3, <3>1
      <3> QED  BY <1>1, <3>3, <3>4
    <2> QED  BY <1>7, <2>1, <2>2, <2>3
  <1>8. Queued(Unpacked(q), q, n)
    BY <1>2, <1>5, <1>6, <1>7 DEF Queued
  <1>9. LiveIds(F) = IdsOf(s)
    BY <1>1, <1>3 DEF LiveIds, IdsOf
  <1>10. LiveIds(Unpacked(q)) = LiveIds(S) \cup LiveIds(F)
    BY <1>2 DEF LiveIds
  <1> QED  BY <1>8, <1>9, <1>10 DEF Ids, S, s

(* The batch, while it is of the kind the game thread is at.               *)
BatchOK ==
    /\ Len(batch) \in Nat /\ batch = [i \in 1 .. Len(batch) |-> batch[i]]
    /\ \A i \in 1 .. Len(batch) :
          /\ batch[i].key.chunk \in Chunks
          /\ batch[i] \in LiveBelow(<<batch[i].key.chunk, kind>>, nextOrder)

LEMMA NotYetStartedFacts ==
    ASSUME NEW q \in Queues, BatchOK, cursor \in Nat
    PROVE  Listed(NotYetStarted(q), q, nextOrder)
  <1> DEFINE rest == IF step = "run" /\ kind = q[2] THEN (cursor + 1)..Len(batch) ELSE {}
             P == {i \in rest : batch[i].key.chunk = q[1]}
             own == AtPlaces(batch, P)
             c == Cardinality(P)
             saved(t) == [id |-> t.id, key |-> t.key, delay |-> 0, priority |-> t.priority]
             r == [i \in DOMAIN own |-> saved(own[i])]
  <1>1. NotYetStarted(q) = r
    BY DEF NotYetStarted
  <1>2. Len(batch) \in Nat /\ P \subseteq 1 .. Len(batch)
    BY DEF BatchOK
  <1>3. ASSUME NEW i \in P PROVE batch[i] \in LiveBelow(q, nextOrder)
    <2>1. i \in 1 .. Len(batch) /\ batch[i].key.chunk = q[1] /\ kind = q[2]
      BY <1>2
    <2>2. <<batch[i].key.chunk, kind>> = q
      BY <2>1, QueueFacts
    <2> QED  BY <2>1, <2>2 DEF BatchOK
  <1> HIDE DEF P
  <1>4. Retains(own, batch, P)
    BY <1>2, AtPlacesFacts
  <1> HIDE DEF own
  <1>5. DOMAIN own = 1 .. c /\ c \in Nat /\ \A i \in 1 .. c : own[i] \in LiveBelow(q, nextOrder)
    BY <1>3, <1>4 DEF Retains
  <1>6. \A t \in LiveBelow(q, nextOrder) : saved(t) \in SavedBelow(q, nextOrder)
    BY DEF LiveBelow, LiveTicks, SavedBelow, SavedTicks
  <1> HIDE DEF saved, r
  <1>7. r \in [1 .. c -> SavedBelow(q, nextOrder)]
    <2> HIDE DEF SavedBelow, LiveBelow
    <2> QED  BY <1>5, <1>6 DEF r
  <1>8. Listed(r, q, nextOrder)
    <2> HIDE DEF SavedBelow
    <2> QED  BY <1>5, <1>7 DEF Listed
  <1> QED  BY <1>1, <1>8

-----------------------------------------------------------------------------
(* A turn of the collection.                                               *)
DueSet(c) == {t \in live[<<c, kind>>] : t.trigger <= now}

LEMMA DueFacts ==
    ASSUME NEW c, NEW n, Queued(live[<<c, kind>>], <<c, kind>>, n)
    PROVE  /\ Queued(DueSet(c), <<c, kind>>, n)
           /\ Cardinality(DueSet(c)) \in Nat /\ Len(Due(c, kind)) = Cardinality(DueSet(c))
           /\ Enumerates(Due(c, kind), Drains(DueSet(c)), DueSet(c))
           /\ Due(c, kind) \in Seq(DueSet(c))
           /\ Due(c, kind) # <<>> <=> Len(Due(c, kind)) > 0
  <1> DEFINE S == DueSet(c)
             s == Due(c, kind)
  <1>1. Queued(S, <<c, kind>>, n)
    <2>1. S \subseteq live[<<c, kind>>]
      BY DEF DueSet
    <2>2. IsFiniteSet(S)
      BY <2>1, FS_Subset DEF Queued
    <2> QED  BY <2>1, <2>2 DEF Queued
  <1>2. s = Sorted(S)
    BY DEF Due, DueSet
  <1>3. /\ Cardinality(S) \in Nat /\ s = [i \in 1 .. Cardinality(S) |-> s[i]]
        /\ Enumerates(s, Drains(S), S)
    BY <1>1, <1>2, SortedEnumerates
  <1> HIDE DEF S, s
  <1>4. s \in [1 .. Cardinality(S) -> S]
    BY <1>3 DEF Enumerates
  <1>5. s \in Seq(S) /\ Len(s) = Cardinality(S) /\ (s # <<>> <=> Len(s) > 0)
    BY <1>3, <1>4
  <1> QED  BY <1>1, <1>3, <1>5 DEF S, s

GoesOn(c, i) ==
    \A d \in Ready \ {c} : IntraTickOrder(Due(c, kind)[i], Head(Due(d, kind)))

LEMMA RunLengthFacts ==
    ASSUME NEW c \in Ready, NEW n, Queued(live[<<c, kind>>], <<c, kind>>, n),
           Len(batch) \in Nat, Len(batch) < MaxPerTick
    PROVE  /\ RunLength(c) \in 1 .. Len(Due(c, kind)) /\ Len(batch) + RunLength(c) <= MaxPerTick
           /\ \A i \in 2 .. RunLength(c) : GoesOn(c, i)
           /\ \/ RunLength(c) = Len(Due(c, kind)) \/ Len(batch) + RunLength(c) = MaxPerTick
              \/ ~ GoesOn(c, RunLength(c) + 1)
  <1> DEFINE due == Due(c, kind)
             L == Len(due)
             runs == {m \in 1 .. L : Len(batch) + m <= MaxPerTick /\ \A i \in 2 .. m : GoesOn(c, i)}
             r == CHOOSE m \in runs : \A k \in runs : k <= m
  <1>1. RunLength(c) = r
    BY DEF RunLength, GoesOn
  <1>2. L \in Nat /\ L > 0 /\ MaxPerTick \in Nat
    BY DueFacts, TickConstants DEF Ready
  <1>3. 1 \in runs
    BY <1>2
  <1>4. runs \subseteq 0 .. L
    BY <1>2
  <1>5. \A m \in runs : m \in 1 .. L /\ Len(batch) + m <= MaxPerTick /\ \A i \in 2 .. m : GoesOn(c, i)
    OBVIOUS
  <1>6. ASSUME NEW m \in runs, m + 1 <= L, Len(batch) + (m + 1) <= MaxPerTick, GoesOn(c, m + 1)
        PROVE  m + 1 \in runs
    <2>1. m + 1 \in 1 .. L
      BY <1>2, <1>5, <1>6
    <2>2. \A i \in 2 .. (m + 1) : GoesOn(c, i)
      <3>1. \A i \in 2 .. (m + 1) : i \in 2 .. m \/ i = m + 1
        BY <1>5
      <3> QED  BY <1>5, <1>6, <3>1
    <2> QED  BY <1>6, <2>1, <2>2
  <1> HIDE DEF runs, L
  <1>7. \E m \in runs : \A k \in runs : k <= m
    BY <1>2, <1>3, <1>4, GreatestExists
  <1>8. r \in runs /\ \A k \in runs : k <= r
    BY <1>7
  <1> HIDE DEF r
  <1>9. r \in 1 .. L /\ Len(batch) + r <= MaxPerTick /\ \A i \in 2 .. r : GoesOn(c, i)
    BY <1>5, <1>8
  <1>10. r = L \/ Len(batch) + r = MaxPerTick \/ ~ GoesOn(c, r + 1)
    <2> SUFFICES ASSUME r # L, Len(batch) + r # MaxPerTick, GoesOn(c, r + 1) PROVE FALSE
      OBVIOUS
    <2>1. r + 1 <= L /\ Len(batch) + (r + 1) <= MaxPerTick
      BY <1>2, <1>9
    <2>2. r + 1 <= r
      BY <1>6, <1>8, <2>1
    <2> QED  BY <1>9, <2>2
  <1> QED  BY <1>1, <1>9, <1>10 DEF L

-----------------------------------------------------------------------------
(* The inductive invariant.                                                *)
SaveShapes ==
    /\ MapOn(save, Savers) /\ MapOn(snap, Savers)
    /\ \A k \in Savers : MapOn(save[k], Chunks) /\ MapOn(snap[k], Queues)
    /\ MapOn(newest, Chunks) /\ \A c \in Chunks : newest[c] \in Savers

OwedShapes ==
    /\ MapOn(pending, Queues) /\ MapOn(disk, Queues) /\ MapOn(dirty, Chunks) /\ SaveShapes
    /\ nextOrder \in Nat /\ now \in Nat /\ cursor \in Nat

QueueOK(q) ==
    /\ Listed(pending[q], q, nextOrder) /\ Listed(disk[q], q, nextOrder)
    /\ \A k \in Savers : Listed(snap[k][q], q, nextOrder)
    /\ Queued(live[q], q, nextOrder)
    /\ pending[q] # <<>> => \A t \in live[q] : t.order >= 0
QueuesOK == \A q \in Queues : QueueOK(q)

(* Nothing that has started is owed, and between batches there is none.    *)
BatchInv ==
    /\ BatchOK /\ (step \in {"idle", "collect"} => batch = <<>>) /\ (step # "run" => cursor = 0)
    /\ \A i \in 1 .. Len(batch) : i <= cursor => batch[i].id \notin owed

(* Only a registered chunk is saved; a chunk on disk alone has no list.    *)
SavesInv ==
    \A c \in Chunks : (\E k \in Savers : save[k][c] # "none") => lifecycle[c] = "registered"
FinalInv == \A q \in Queues : lifecycle[q[1]] = "finalized" => pending[q] = <<>>

(* What the queues of a clean chunk hold is on disk, or in the newest of   *)
(* its saves, from the moment that save has read the queues - unless an    *)
(* older save has overwritten it.                                          *)
CleanIsSaved(q) ==
    lifecycle[q[1]] = "registered" /\ ~ dirty[q[1]] /\ q[1] \notin overwritten =>
        /\ save[newest[q[1]]][q[1]] = "none" => Ids(q) \subseteq IdsOf(disk[q])
        /\ save[newest[q[1]]][q[1]] \in {"packed", "blocks", "write"} =>
               Ids(q) \subseteq IdsOf(snap[newest[q[1]]][q])
DiskInv == \A q \in Queues : CleanIsSaved(q)

Kept(id) ==
    \/ \E q \in Queues : id \in Ids(q)
    \/ \E q \in Queues : lifecycle[q[1]] = "finalized" /\ id \in IdsOf(disk[q])
    \/ id \in IdsOf(batch)
    \/ id \in lost
KeptInv == \A id \in owed : Kept(id)

OwedInv ==
    OwedShapes /\ QueuesOK /\ BatchInv /\ SavesInv /\ FinalInv /\ DiskInv /\ KeptInv

-----------------------------------------------------------------------------
(* Frames.                                                                 *)
LEMMA QueuedGrows ==
    ASSUME NEW S, NEW q, NEW n \in Nat, NEW m \in Nat, n <= m, Queued(S, q, n)
    PROVE  Queued(S, q, m)
  <1>1. \A t \in S : t.id \in Nat /\ t.order \in Int /\ t \in LiveTicks(q) /\ t.id < n /\ t.order < n
    BY QueuedTyped DEF Queued, LiveBelow
  <1>2. \A t \in S : t \in LiveBelow(q, m)
    BY <1>1 DEF LiveBelow
  <1> QED  BY <1>2 DEF Queued

LEMMA QueueFrame ==
    ASSUME NEW q \in Queues, QueueOK(q), nextOrder \in Nat, nextOrder' \in Nat,
           nextOrder <= nextOrder', pending'[q] = pending[q], live'[q] = live[q],
           disk'[q] = disk[q], snap' = snap
    PROVE  QueueOK(q)'
  <1>1. /\ Listed(pending[q], q, nextOrder') /\ Listed(disk[q], q, nextOrder')
        /\ \A k \in Savers : Listed(snap[k][q], q, nextOrder')
    BY ListedGrows DEF QueueOK
  <1>2. Queued(live[q], q, nextOrder')
    BY QueuedGrows DEF QueueOK
  <1> QED  BY <1>1, <1>2 DEF QueueOK

LEMMA BatchFrame ==
    ASSUME BatchInv, nextOrder \in Nat, nextOrder' \in Nat, nextOrder <= nextOrder',
           UNCHANGED <<step, kind, batch, cursor>>, owed' \subseteq owed \cup {nextOrder}
    PROVE  BatchInv'
  <1>1. ASSUME NEW i \in 1 .. Len(batch)
        PROVE  /\ batch[i] \in LiveBelow(<<batch[i].key.chunk, kind>>, nextOrder')
               /\ batch[i].id < nextOrder /\ batch[i].id \in Nat
    <2>1. batch[i] \in LiveBelow(<<batch[i].key.chunk, kind>>, nextOrder)
      BY DEF BatchInv, BatchOK
    <2> QED  BY <2>1 DEF LiveBelow, LiveTicks
  <1>2. BatchOK'
    BY <1>1 DEF BatchInv, BatchOK
  <1>3. ASSUME NEW i \in 1 .. Len(batch), i <= cursor PROVE batch[i].id \notin owed'
    <2>1. batch[i].id # nextOrder
      <3>1. batch[i].id < nextOrder /\ batch[i].id \in Nat
        BY <1>1, Zenon
      <3> QED  BY <3>1
    <2>2. batch[i].id \notin owed
      BY <1>3 DEF BatchInv
    <2> QED  BY <2>1, <2>2
  <1> QED  BY <1>2, <1>3 DEF BatchInv

LEMMA CleanFrame ==
    ASSUME NEW q \in Queues, CleanIsSaved(q),
           lifecycle'[q[1]] = "registered" /\ ~ dirty'[q[1]] =>
               lifecycle[q[1]] = "registered" /\ ~ dirty[q[1]],
           UNCHANGED <<save, snap, newest, overwritten>>,
           Ids(q)' \subseteq Ids(q), IdsOf(disk[q]) \subseteq IdsOf(disk'[q])
    PROVE  CleanIsSaved(q)'
  BY DEF CleanIsSaved

LEMMA KeptFrame ==
    ASSUME NEW id, Kept(id), \A q \in Queues : id \in Ids(q) => id \in Ids(q)',
           \A q \in Queues : lifecycle[q[1]] = "finalized" /\ id \in IdsOf(disk[q]) =>
                lifecycle'[q[1]] = "finalized" /\ id \in IdsOf(disk'[q]),
           id \in IdsOf(batch) => id \in IdsOf(batch'), lost \subseteq lost'
    PROVE  Kept(id)'
  BY DEF Kept

(* A step that moves no tick.                                              *)
LEMMA QuietOwed ==
    ASSUME OwedInv, UNCHANGED <<pending, live, disk, snap, nextOrder, batch, lost>>,
           MapOn(dirty', Chunks), SaveShapes', now' \in Nat, cursor' \in Nat,
           BatchInv', owed' \subseteq owed,
           \A c \in Chunks :
               /\ (\E k \in Savers : save'[k][c] # "none") => lifecycle'[c] = "registered"
               /\ lifecycle'[c] = "finalized" <=> lifecycle[c] = "finalized"
               /\ lifecycle'[c] = "registered" /\ ~ dirty'[c] /\ save'[newest'[c]][c] # "taken" =>
                     /\ lifecycle[c] = "registered" /\ ~ dirty[c] /\ newest'[c] = newest[c]
                     /\ save'[newest[c]][c] = save[newest[c]][c]
                     /\ c \in overwritten => c \in overwritten'
    PROVE  OwedInv'
  <1>1. OwedShapes'
    BY DEF OwedInv, OwedShapes
  <1>2. QueuesOK'
    BY DEF OwedInv, QueuesOK, QueueOK
  <1>3. SavesInv' /\ FinalInv'
    BY QueueFacts DEF SavesInv, FinalInv, OwedInv
  <1>4. DiskInv'
    <2> SUFFICES ASSUME NEW q \in Queues PROVE CleanIsSaved(q)'
      BY DEF DiskInv
    <2>1. CleanIsSaved(q) /\ q[1] \in Chunks
      BY QueueFacts DEF OwedInv, DiskInv
    <2>2. Ids(q)' = Ids(q)
      BY DEF Ids
    <2>3. CASE save'[newest'[q[1]]][q[1]] = "taken"
      BY <2>3 DEF CleanIsSaved
    <2>4. CASE save'[newest'[q[1]]][q[1]] # "taken"
      BY <2>1, <2>2, <2>4 DEF CleanIsSaved
    <2> QED  BY <2>3, <2>4
  <1>5. KeptInv'
    <2> SUFFICES ASSUME NEW id \in owed' PROVE Kept(id)'
      BY DEF KeptInv
    <2>1. Kept(id)
      BY DEF OwedInv, KeptInv
    <2>2. \A q \in Queues : Ids(q)' = Ids(q)
      BY DEF Ids
    <2> QED  BY <2>1, <2>2, QueueFacts DEF Kept
  <1> QED  BY <1>1, <1>2, <1>3, <1>4, <1>5 DEF OwedInv

LEMMA EmptyBatch ==
    ASSUME batch' = <<>>, cursor' = 0
    PROVE  BatchInv'
  <1>1. BatchOK'
    BY DEF BatchOK
  <1> QED  BY <1>1 DEF BatchInv

LEMMA SetStage ==
    ASSUME SaveShapes, NEW k \in Savers, NEW c \in Chunks, NEW v, save' = [save EXCEPT ![k][c] = v]
    PROVE  /\ MapOn(save', Savers) /\ (\A j \in Savers : MapOn(save'[j], Chunks))
           /\ save'[k][c] = v
           /\ \A j \in Savers : \A d \in Chunks : (j = k /\ d = c) \/ save'[j][d] = save[j][d]
  BY DEF MapOn, SaveShapes

LEMMA QuietStepsOwed ==
    ASSUME IndexInv, OwedInv,
           \/ UNCHANGED tickVars \/ TickTime \/ EndCollection \/ MarkChanged \/ BeginBatch
           \/ \E changes \in BOOLEAN : RunTick(changes)
           \/ \E chunks \in SetToAllKPermutations(Chunks) : Reconcile(chunks)
           \/ \E c \in Chunks : \/ NewProto(c) \/ PromoteToFull(c) \/ Register(c)
                                \/ BeginUnloading(c) \/ Revive(c)
           \/ \E k \in Savers, c \in Chunks : TakeDirty(k, c)
    PROVE  OwedInv'
  <1> USE DEF tickVars, containers, index, game, saving, history
  <1>0. /\ MapOn(dirty, Chunks) /\ SaveShapes /\ MapOn(lifecycle, Chunks)
        /\ now \in Nat /\ cursor \in Nat /\ BatchInv /\ nextOrder \in Nat
        /\ \A c \in Chunks : (\E k \in Savers : save[k][c] # "none") => lifecycle[c] = "registered"
    BY DEF OwedInv, OwedShapes, SavesInv, IndexInv, Shapes
  <1>s. UNCHANGED <<save, snap, newest>> => SaveShapes'
    BY <1>0 DEF SaveShapes
  <1>1. CASE UNCHANGED tickVars
    <2>1. BatchInv'
      BY <1>0, <1>1, BatchFrame
    <2> QED  BY <1>0, <1>1, <2>1, <1>s, QuietOwed
  <1>2. CASE TickTime
    <2>1. BatchInv'
      BY <1>2, EmptyBatch DEF TickTime, OwedInv, BatchInv
    <2>2. now' \in Nat
      BY <1>0, <1>2 DEF TickTime
    <2> QED  BY <1>0, <1>2, <2>1, <2>2, <1>s, QuietOwed DEF TickTime
  <1>3. CASE EndCollection
    <2>1. BatchInv'
      BY <1>0, <1>3 DEF EndCollection, BatchInv, BatchOK
    <2> QED  BY <1>0, <1>3, <2>1, <1>s, QuietOwed DEF EndCollection
  <1>4. CASE MarkChanged
    <2>1. BatchInv'
      BY <1>0, <1>4 DEF MarkChanged, BatchInv, BatchOK
    <2>2. /\ MapOn(dirty', Chunks) /\ \A c \in Chunks : ~ dirty'[c] => ~ dirty[c]
          /\ UNCHANGED <<pending, live, disk, snap, nextOrder, batch, save, newest, overwritten, lost,
                         lifecycle, now, cursor, owed>>
      BY <1>4 DEF MarkChanged, MapOn
    <2> QED  BY <1>0, <2>1, <2>2, <1>s, QuietOwed
  <1>5. CASE BeginBatch
    <2>1. BatchInv'
      BY <1>0, <1>5 DEF BeginBatch, BatchInv, BatchOK
    <2> QED  BY <1>0, <1>5, <2>1, <1>s, QuietOwed DEF BeginBatch
  <1>6. ASSUME NEW changes \in BOOLEAN, RunTick(changes) PROVE OwedInv'
    <2> DEFINE d == batch[cursor + 1].key.chunk
    <2>0. /\ step = "run" /\ UNCHANGED <<step, kind, batch, nextOrder>> /\ cursor' = cursor + 1
          /\ owed' = owed \ {batch[cursor + 1].id} /\ cursor < Len(batch)
          /\ dirty' = [dirty EXCEPT ![d] = @ \/ changes]
      BY <1>6 DEF RunTick
    <2>1. BatchInv'
      <3>1. \A i \in 1 .. Len(batch) : i <= cursor' => i <= cursor \/ i = cursor + 1
        BY <1>0, <2>0 DEF BatchInv, BatchOK
      <3>2. ASSUME NEW i \in 1 .. Len(batch), i <= cursor' PROVE batch[i].id \notin owed'
        BY <1>0, <2>0, <3>1, <3>2 DEF BatchInv
      <3>3. BatchOK'
        BY <1>0, <2>0 DEF BatchInv, BatchOK
      <3> QED  BY <2>0, <3>2, <3>3 DEF BatchInv
    <2>2. /\ MapOn(dirty', Chunks) /\ \A c \in Chunks : ~ dirty'[c] => ~ dirty[c]
      BY <1>0, <2>0 DEF MapOn
    <2>3. /\ UNCHANGED <<pending, live, disk, snap, nextOrder, batch, save, newest, overwritten, lost,
                         lifecycle, now>>
          /\ cursor' \in Nat /\ owed' \subseteq owed
      BY <1>0, <1>6 DEF RunTick
    <2> QED  BY <1>0, <2>1, <2>2, <2>3, <1>s, QuietOwed
  <1>7. ASSUME NEW chunks, Reconcile(chunks) PROVE OwedInv'
    <2>1. BatchInv'
      BY <1>0, <1>7, BatchFrame DEF Reconcile
    <2> QED  BY <1>0, <1>7, <2>1, <1>s, QuietOwed DEF Reconcile
  <1>8. ASSUME NEW c \in Chunks,
               \/ NewProto(c) \/ PromoteToFull(c) \/ Register(c) \/ BeginUnloading(c) \/ Revive(c)
        PROVE  OwedInv'
    <2>1. /\ UNCHANGED <<pending, live, disk, snap, nextOrder, batch, step, kind, cursor, owed, now>>
          /\ UNCHANGED <<save, newest, overwritten, lost>>
      BY <1>8 DEF NewProto, PromoteToFull, Register, BeginUnloading, Revive
    <2>2. BatchInv' /\ SaveShapes'
      BY <1>0, <1>s, <2>1, BatchFrame
    <2>3. /\ MapOn(dirty', Chunks)
          /\ \A d \in Chunks \ {c} : dirty'[d] = dirty[d] /\ lifecycle'[d] = lifecycle[d]
      BY <1>0, <1>8 DEF NewProto, PromoteToFull, Register, BeginUnloading, Revive, MapOn
    <2>4. CASE BeginUnloading(c) \/ Revive(c)
      BY <1>0, <2>1, <2>2, <2>4, QuietOwed DEF BeginUnloading, Revive
    <2>5. CASE NewProto(c) \/ PromoteToFull(c)
      <3>1. /\ \A k \in Savers : save'[k][c] = "none"
            /\ lifecycle'[c] \in {"proto", "unpublished"} /\ lifecycle[c] \in {"absent", "proto"}
        BY <1>0, <2>1, <2>5 DEF NewProto, PromoteToFull, MapOn
      <3> QED  BY <1>0, <2>1, <2>2, <2>3, <3>1, QuietOwed
    <2>6. CASE Register(c)
      <3>1. /\ \A k \in Savers : save'[k][c] = "none"
            /\ dirty'[c] = TRUE /\ lifecycle'[c] = "registered" /\ lifecycle[c] = "unpublished"
        BY <1>0, <2>1, <2>6 DEF Register, MapOn
      <3> QED  BY <1>0, <2>1, <2>2, <2>3, <3>1, QuietOwed
    <2> QED  BY <1>8, <2>4, <2>5, <2>6
  <1>9. ASSUME NEW k \in Savers, NEW c \in Chunks, TakeDirty(k, c) PROVE OwedInv'
    <2>1. /\ UNCHANGED <<pending, live, disk, snap, nextOrder, batch, step, kind, cursor, owed, now>>
          /\ UNCHANGED <<lifecycle, lost>> /\ lifecycle[c] = "registered"
          /\ overwritten' = overwritten \ {c}
          /\ save' = [save EXCEPT ![k][c] = "taken"] /\ newest' = [newest EXCEPT ![c] = k]
          /\ dirty' = [dirty EXCEPT ![c] = FALSE]
      BY <1>9 DEF TakeDirty
    <2>2. BatchInv'
      BY <1>0, <2>1, BatchFrame
    <2>3. /\ MapOn(dirty', Chunks) /\ MapOn(newest', Chunks) /\ newest'[c] = k
          /\ \A d \in Chunks \ {c} : dirty'[d] = dirty[d] /\ newest'[d] = newest[d]
      BY <1>0, <2>1 DEF MapOn, SaveShapes
    <2>4. /\ MapOn(save', Savers) /\ (\A j \in Savers : MapOn(save'[j], Chunks))
          /\ save'[k][c] = "taken"
          /\ \A j \in Savers : \A d \in Chunks : (j = k /\ d = c) \/ save'[j][d] = save[j][d]
      <3>1. SaveShapes /\ save' = [save EXCEPT ![k][c] = "taken"]
        BY <1>0, <2>1
      <3> QED  BY <3>1 DEF SaveShapes, MapOn
    <2>5. SaveShapes'
      BY <1>0, <2>1, <2>3, <2>4 DEF SaveShapes
    <2>6. \A d \in Chunks : newest[d] \in Savers
      BY <1>0 DEF SaveShapes
    <2> QED  BY <1>0, <2>1, <2>2, <2>3, <2>4, <2>5, <2>6, QuietOwed
  <1> QED  BY <1>1, <1>2, <1>3, <1>4, <1>5, <1>6, <1>7, <1>8, <1>9

-----------------------------------------------------------------------------
(* Steps that change a pending list.                                       *)
LEMMA SchedulePendingOwed ==
    ASSUME IndexInv, OwedInv, NEW key \in Keys, NEW p \in Priorities, SchedulePending(key, p)
    PROVE  OwedInv'
  <1> DEFINE x == QueueOf(key)
             t == [id |-> nextOrder, key |-> key, delay |-> 0, priority |-> p]
  <1>0. /\ MapOn(pending, Queues) /\ nextOrder \in Nat /\ QueuesOK /\ BatchInv /\ SavesInv /\ FinalInv
        /\ DiskInv /\ KeptInv /\ OwedShapes /\ NothingBefore
    BY DEF OwedInv, OwedShapes, IndexInv
  <1>1. /\ lifecycle[key.chunk] = "proto" /\ nextOrder' = nextOrder + 1
        /\ pending' = [pending EXCEPT ![x] = Append(@, t)] /\ owed' = owed \cup {nextOrder}
        /\ UNCHANGED <<live, lifecycle, disk, snap, dirty, save, newest, overwritten, lost, now>>
        /\ UNCHANGED <<step, kind, batch, cursor>>
    BY DEF SchedulePending, index, game, saving, history
  <1>2. x \in Queues /\ x[1] = key.chunk
    BY KeyFacts
  <1>3. /\ MapOn(pending', Queues) /\ pending'[x] = Append(pending[x], t)
        /\ \A q \in Queues \ {x} : pending'[q] = pending[q]
    <2> HIDE DEF t, x
    <2> QED  BY <1>0, <1>1, <1>2 DEF MapOn
  <1>4. t \in SavedBelow(x, nextOrder') /\ t.id = nextOrder
    <2>1. t \in SavedTicks(x)
      BY <1>0, <1>2 DEF SavedTicks
    <2> QED  BY <1>0, <1>1, <2>1 DEF SavedBelow
  <1>5. nextOrder' \in Nat /\ nextOrder <= nextOrder'
    BY <1>0, <1>1
  <1> HIDE DEF t, x
  <1>6. Listed(pending'[x], x, nextOrder') /\ IdsOf(pending'[x]) = IdsOf(pending[x]) \cup {nextOrder}
    <2>1. Listed(pending[x], x, nextOrder')
      BY <1>0, <1>2, <1>5, ListedGrows DEF QueuesOK, QueueOK
    <2> QED  BY <1>3, <1>4, <2>1, ListedAppend
  <1>7. live[x] = {}
    BY <1>0, <1>1, <1>2 DEF NothingBefore
  <1>8. QueuesOK'
    <2>1. ASSUME NEW q \in Queues, q # x PROVE QueueOK(q)'
      BY <1>0, <1>1, <1>3, <1>5, <2>1, QueueFrame DEF QueuesOK
    <2>2. QueueOK(x)'
      <3>1. QueueOK(x)
        BY <1>0, <1>2 DEF QueuesOK
      <3>2. /\ Listed(disk[x], x, nextOrder')
            /\ \A k \in Savers : Listed(snap[k][x], x, nextOrder')
        BY <1>0, <1>5, <3>1, ListedGrows DEF QueueOK
      <3>3. Queued(live[x], x, nextOrder')
        BY <1>0, <1>5, <3>1, QueuedGrows DEF QueueOK
      <3> QED  BY <1>1, <1>6, <1>7, <3>2, <3>3 DEF QueueOK
    <2> QED  BY <2>1, <2>2 DEF QueuesOK
  <1>9. BatchInv'
    BY <1>0, <1>1, <1>5, BatchFrame
  <1>10. \A q \in Queues : Ids(q) \subseteq Ids(q)' /\ (q # x => Ids(q)' = Ids(q))
    BY <1>1, <1>3, <1>6 DEF Ids
  <1>11. DiskInv'
    <2> SUFFICES ASSUME NEW q \in Queues PROVE CleanIsSaved(q)'
      BY DEF DiskInv
    <2>1. CASE q = x
      BY <1>1, <1>2, <2>1 DEF CleanIsSaved
    <2>2. CASE q # x
      BY <1>0, <1>1, <1>10, <2>2 DEF DiskInv, CleanIsSaved
    <2> QED  BY <2>1, <2>2
  <1>12. KeptInv'
    <2>1. ASSUME NEW id \in owed PROVE Kept(id)'
      BY <1>0, <1>1, <1>10 DEF KeptInv, Kept
    <2>2. ASSUME NEW id, id = nextOrder PROVE Kept(id)'
      BY <1>2, <1>6, <2>2 DEF Kept, Ids
    <2> QED  BY <1>1, <2>1, <2>2 DEF KeptInv
  <1>13. OwedShapes' /\ SavesInv'
    BY <1>0, <1>1, <1>3, <1>5 DEF OwedShapes, SaveShapes, SavesInv
  <1>14. FinalInv'
    <2> SUFFICES ASSUME NEW q \in Queues, lifecycle[q[1]] = "finalized" PROVE pending'[q] = <<>>
      BY <1>1 DEF FinalInv
    <2>1. q # x
      BY <1>1, <1>2
    <2> QED  BY <1>0, <1>3, <2>1 DEF FinalInv
  <1> QED  BY <1>8, <1>9, <1>11, <1>12, <1>13, <1>14 DEF OwedInv

LEMMA RemovePendingOwed ==
    ASSUME IndexInv, OwedInv, NEW key \in Keys, RemovePending(key)
    PROVE  OwedInv'
  <1> DEFINE x == QueueOf(key)
             P == {i \in DOMAIN pending[x] : pending[x][i].key # key}
  <1>0. /\ MapOn(pending, Queues) /\ nextOrder \in Nat /\ QueuesOK /\ BatchInv /\ SavesInv /\ FinalInv
        /\ DiskInv /\ KeptInv /\ OwedShapes /\ NothingBefore
    BY DEF OwedInv, OwedShapes, IndexInv
  <1>1. /\ lifecycle[key.chunk] = "proto"
        /\ pending' = [pending EXCEPT ![x] = AtPlaces(@, P)]
        /\ owed' = owed \ {pending[x][i].id : i \in DOMAIN pending[x] \ P}
        /\ UNCHANGED <<live, lifecycle, disk, snap, dirty, save, newest, overwritten, lost, now, nextOrder>>
        /\ UNCHANGED <<step, kind, batch, cursor>>
    BY DEF RemovePending, index, game, saving, history
  <1>2. x \in Queues /\ x[1] = key.chunk
    BY KeyFacts
  <1>p. P \subseteq DOMAIN pending[x]
    OBVIOUS
  <1> HIDE DEF x, P
  <1>3. /\ MapOn(pending', Queues) /\ pending'[x] = AtPlaces(pending[x], P)
        /\ \A q \in Queues \ {x} : pending'[q] = pending[q]
    BY <1>0, <1>1, <1>2 DEF MapOn
  <1>6. /\ Listed(pending'[x], x, nextOrder)
        /\ IdsOf(pending'[x]) = {pending[x][i].id : i \in P}
    <2>1. Listed(pending[x], x, nextOrder)
      BY <1>0, <1>2 DEF QueuesOK, QueueOK
    <2> QED  BY <1>3, <1>p, <2>1, ListedAtPlaces
  <1>7. live[x] = {}
    BY <1>0, <1>1, <1>2 DEF NothingBefore
  <1>8. QueuesOK'
    <2>1. ASSUME NEW q \in Queues, q # x PROVE QueueOK(q)'
      BY <1>0, <1>1, <1>3, <2>1 DEF QueuesOK, QueueOK
    <2>2. QueueOK(x)'
      BY <1>0, <1>1, <1>2, <1>6, <1>7 DEF QueuesOK, QueueOK
    <2> QED  BY <2>1, <2>2 DEF QueuesOK
  <1>9. BatchInv'
    BY <1>0, <1>1, BatchFrame
  <1>10. \A q \in Queues : q # x => Ids(q)' = Ids(q)
    BY <1>1, <1>3 DEF Ids
  <1>11. DiskInv'
    <2> SUFFICES ASSUME NEW q \in Queues PROVE CleanIsSaved(q)'
      BY DEF DiskInv
    <2>1. CASE q = x
      BY <1>1, <1>2, <2>1 DEF CleanIsSaved
    <2>2. CASE q # x
      BY <1>0, <1>1, <1>10, <2>2 DEF DiskInv, CleanIsSaved
    <2> QED  BY <2>1, <2>2
  <1>12. KeptInv'
    <2> SUFFICES ASSUME NEW id \in owed' PROVE Kept(id)'
      BY DEF KeptInv
    <2>1. Kept(id)
      BY <1>0, <1>1 DEF KeptInv
    <2>2. id \in Ids(x) => id \in Ids(x)'
      <3> SUFFICES ASSUME id \in Ids(x) PROVE id \in Ids(x)'
        OBVIOUS
      <3>1. PICK i \in DOMAIN pending[x] : id = pending[x][i].id
        BY <1>7 DEF Ids, IdsOf, LiveIds
      <3>2. i \in P
        BY <1>1, <3>1
      <3> QED  BY <1>6, <3>1, <3>2 DEF Ids
    <2> QED  BY <1>1, <1>10, <2>1, <2>2 DEF Kept
  <1>13. OwedShapes' /\ SavesInv'
    BY <1>0, <1>1, <1>3 DEF OwedShapes, SaveShapes, SavesInv
  <1>14. FinalInv'
    <2> SUFFICES ASSUME NEW q \in Queues, lifecycle[q[1]] = "finalized" PROVE pending'[q] = <<>>
      BY <1>1 DEF FinalInv
    <2>1. q # x
      BY <1>1, <1>2
    <2> QED  BY <1>0, <1>3, <2>1 DEF FinalInv
  <1> QED  BY <1>8, <1>9, <1>11, <1>12, <1>13, <1>14 DEF OwedInv

LEMMA LoadFullOwed ==
    ASSUME IndexInv, OwedInv, NEW c \in Chunks, LoadFull(c)
    PROVE  OwedInv'
  <1>0. /\ nextOrder \in Nat /\ QueuesOK /\ BatchInv /\ SavesInv /\ FinalInv
        /\ DiskInv /\ KeptInv /\ OwedShapes /\ NothingBefore /\ MapOn(lifecycle, Chunks)
    BY DEF OwedInv, OwedShapes, IndexInv, Shapes
  <1>1. /\ lifecycle[c] = "finalized" /\ lifecycle' = [lifecycle EXCEPT ![c] = "registered"]
        /\ pending' = [q \in Queues |-> IF q[1] = c THEN disk[q] ELSE pending[q]]
        /\ UNCHANGED <<live, disk, snap, dirty, save, newest, overwritten, lost, now, nextOrder, owed>>
        /\ UNCHANGED <<step, kind, batch, cursor>>
    BY DEF LoadFull, index, game, saving, history
  <1>2. /\ MapOn(pending', Queues)
        /\ \A q \in Queues : pending'[q] = IF q[1] = c THEN disk[q] ELSE pending[q]
        /\ lifecycle'[c] = "registered" /\ \A d \in Chunks \ {c} : lifecycle'[d] = lifecycle[d]
    BY <1>0, <1>1 DEF MapOn
  <1>3. \A q \in Queues : q[1] = c => live[q] = {} /\ pending[q] = <<>>
    BY <1>0, <1>1 DEF NothingBefore, FinalInv
  <1>4. save[newest[c]][c] = "none"
    BY <1>0, <1>1 DEF SavesInv, OwedShapes, SaveShapes
  <1>5. QueuesOK'
    <2> SUFFICES ASSUME NEW q \in Queues PROVE QueueOK(q)'
      BY DEF QueuesOK
    <2>1. QueueOK(q)
      BY <1>0 DEF QueuesOK
    <2>2. CASE q[1] = c
      BY <1>1, <1>2, <1>3, <2>1, <2>2 DEF QueueOK
    <2>3. CASE q[1] # c
      BY <1>1, <1>2, <2>1, <2>3 DEF QueueOK
    <2> QED  BY <2>2, <2>3
  <1>6. BatchInv'
    BY <1>0, <1>1, BatchFrame
  <1>7. \A q \in Queues : /\ q[1] # c => Ids(q)' = Ids(q)
                          /\ q[1] = c => Ids(q)' = IdsOf(disk[q]) /\ Ids(q) = {}
    <2>1. IdsOf(<<>>) = {} /\ LiveIds({}) = {}
      BY ListedEmpty DEF LiveIds
    <2> QED  BY <1>1, <1>2, <1>3, <2>1 DEF Ids
  <1>8. DiskInv'
    <2> SUFFICES ASSUME NEW q \in Queues PROVE CleanIsSaved(q)'
      BY DEF DiskInv
    <2>1. CASE q[1] = c
      BY <1>1, <1>4, <1>7, <2>1 DEF CleanIsSaved
    <2>2. CASE q[1] # c
      BY <1>0, <1>1, <1>2, <1>7, <2>2, QueueFacts DEF DiskInv, CleanIsSaved
    <2> QED  BY <2>1, <2>2
  <1>9. KeptInv'
    <2> SUFFICES ASSUME NEW id \in owed PROVE Kept(id)'
      BY <1>1 DEF KeptInv
    <2>1. Kept(id)
      BY <1>0 DEF KeptInv
    <2>2. ASSUME NEW q \in Queues, id \in Ids(q) PROVE Kept(id)'
      BY <1>7, <2>2 DEF Kept
    <2>3. ASSUME NEW q \in Queues, lifecycle[q[1]] = "finalized", id \in IdsOf(disk[q]) PROVE Kept(id)'
      <3>1. CASE q[1] = c
        BY <1>7, <2>3, <3>1 DEF Kept
      <3>2. CASE q[1] # c
        BY <1>1, <1>2, <2>3, <3>2, QueueFacts DEF Kept
      <3> QED  BY <3>1, <3>2
    <2>4. ASSUME id \in IdsOf(batch) \cup lost PROVE Kept(id)'
      BY <1>1, <2>4 DEF Kept
    <2> QED  BY <2>1, <2>2, <2>3, <2>4 DEF Kept
  <1>10. OwedShapes' /\ SavesInv'
    BY <1>0, <1>1, <1>2, <1>4 DEF OwedShapes, SaveShapes, SavesInv
  <1>11. FinalInv'
    <2> SUFFICES ASSUME NEW q \in Queues, lifecycle'[q[1]] = "finalized" PROVE pending'[q] = <<>>
      BY DEF FinalInv
    <2>1. q[1] # c /\ lifecycle[q[1]] = "finalized"
      BY <1>2, QueueFacts
    <2> QED  BY <1>0, <1>2, <2>1 DEF FinalInv
  <1> QED  BY <1>5, <1>6, <1>8, <1>9, <1>10, <1>11 DEF OwedInv

-----------------------------------------------------------------------------
(* Steps that change the live ticks.                                       *)
LEMMA UnpackOwed ==
    ASSUME IndexInv, OwedInv, NEW c \in Chunks, Unpack(c)
    PROVE  OwedInv'
  <1>0. /\ nextOrder \in Nat /\ QueuesOK /\ BatchInv /\ SavesInv /\ FinalInv /\ now \in Nat
        /\ DiskInv /\ KeptInv /\ OwedShapes
    BY DEF OwedInv, OwedShapes
  <1>1. /\ lifecycle[c] = "registered"
        /\ live' = [q \in Queues |-> IF q[1] = c THEN Unpacked(q) ELSE live[q]]
        /\ pending' = [q \in Queues |-> IF q[1] = c THEN <<>> ELSE pending[q]]
        /\ UNCHANGED <<lifecycle, disk, snap, dirty, save, newest, overwritten, lost, now, nextOrder, owed>>
        /\ UNCHANGED <<step, kind, batch, cursor>>
    BY DEF Unpack, Empty, game, saving, history
  <1>2. /\ MapOn(pending', Queues)
        /\ \A q \in Queues : /\ pending'[q] = IF q[1] = c THEN <<>> ELSE pending[q]
                             /\ live'[q] = IF q[1] = c THEN Unpacked(q) ELSE live[q]
    <2> HIDE DEF Unpacked
    <2> QED  BY <1>1 DEF MapOn
  <1>3. ASSUME NEW q \in Queues
        PROVE  Queued(Unpacked(q), q, nextOrder) /\ LiveIds(Unpacked(q)) = Ids(q)
    <2>1. now \in Int
      BY <1>0
    <2> QED  BY <1>0, <2>1, UnpackedFacts DEF QueuesOK, QueueOK
  <1> HIDE DEF Unpacked
  <1>4. QueuesOK'
    <2> SUFFICES ASSUME NEW q \in Queues PROVE QueueOK(q)'
      BY DEF QueuesOK
    <2>1. QueueOK(q)
      BY <1>0 DEF QueuesOK
    <2>2. CASE q[1] = c
      BY <1>1, <1>2, <1>3, <2>1, <2>2, ListedEmpty DEF QueueOK
    <2>3. CASE q[1] # c
      BY <1>1, <1>2, <2>1, <2>3 DEF QueueOK
    <2> QED  BY <2>2, <2>3
  <1>5. BatchInv'
    BY <1>0, <1>1, BatchFrame
  <1>6. ASSUME NEW q \in Queues PROVE Ids(q)' = Ids(q)
    <2>1. CASE q[1] = c
      <3>1. Ids(q)' = IdsOf(<<>>) \cup LiveIds(Unpacked(q))
        BY <1>2, <2>1 DEF Ids
      <3> QED  BY <1>3, <3>1, ListedEmpty
    <2>2. CASE q[1] # c
      BY <1>2, <2>2 DEF Ids
    <2> QED  BY <2>1, <2>2
  <1>7. DiskInv'
    BY <1>0, <1>1, <1>6 DEF DiskInv, CleanIsSaved
  <1>8. KeptInv'
    BY <1>0, <1>1, <1>6 DEF KeptInv, Kept
  <1>9. OwedShapes' /\ SavesInv'
    BY <1>0, <1>1, <1>2 DEF OwedShapes, SaveShapes, SavesInv
  <1>10. FinalInv'
    BY <1>0, <1>1, <1>2 DEF FinalInv
  <1> QED  BY <1>4, <1>5, <1>7, <1>8, <1>9, <1>10 DEF OwedInv

(* The chunk is clean and no save is under way: what its queues held is    *)
(* on disk.                                                                *)
LEMMA UnregisterOwed ==
    ASSUME IndexInv, OwedInv, NEW c \in Chunks, Unregister(c), lifecycle[c] = "registered"
    PROVE  OwedInv'
  <1>0. /\ nextOrder \in Nat /\ QueuesOK /\ BatchInv /\ SavesInv /\ FinalInv
        /\ DiskInv /\ KeptInv /\ OwedShapes /\ MapOn(lifecycle, Chunks)
    BY DEF OwedInv, OwedShapes, IndexInv, Shapes
  <1>1. /\ ~ dirty[c] /\ (\A k \in Savers : save[k][c] = "none")
        /\ lifecycle' = [lifecycle EXCEPT ![c] = "finalized"]
        /\ live' = [q \in Queues |-> IF q[1] = c THEN {} ELSE live[q]]
        /\ pending' = [q \in Queues |-> IF q[1] = c THEN <<>> ELSE pending[q]]
        /\ UNCHANGED <<disk, snap, dirty, save, newest, now, nextOrder, owed>>
        /\ lost' = IF c \in overwritten THEN lost \cup (IdsIn(c) \ SavedIds(c)) ELSE lost
        /\ overwritten' = overwritten \ {c}
        /\ UNCHANGED <<step, kind, batch, cursor>>
    BY DEF Unregister, Empty, game, saving, history
  <1>2. /\ MapOn(pending', Queues)
        /\ \A q \in Queues : /\ pending'[q] = IF q[1] = c THEN <<>> ELSE pending[q]
                             /\ live'[q] = IF q[1] = c THEN {} ELSE live[q]
        /\ lifecycle'[c] = "finalized" /\ \A d \in Chunks \ {c} : lifecycle'[d] = lifecycle[d]
    BY <1>0, <1>1 DEF MapOn
  <1>3. \A q : Queued({}, q, nextOrder)
    BY FS_EmptySet DEF Queued
  <1>4. QueuesOK'
    <2> SUFFICES ASSUME NEW q \in Queues PROVE QueueOK(q)'
      BY DEF QueuesOK
    <2>1. QueueOK(q)
      BY <1>0 DEF QueuesOK
    <2>2. CASE q[1] = c
      BY <1>1, <1>2, <1>3, <2>1, <2>2, ListedEmpty DEF QueueOK
    <2>3. CASE q[1] # c
      BY <1>1, <1>2, <2>1, <2>3 DEF QueueOK
    <2> QED  BY <2>2, <2>3
  <1>5. BatchInv'
    BY <1>0, <1>1, BatchFrame
  <1>6. \A q \in Queues : q[1] # c => Ids(q)' = Ids(q) /\ lifecycle'[q[1]] = lifecycle[q[1]]
    BY <1>2, QueueFacts DEF Ids
  <1>7. c \notin overwritten => \A q \in Queues : q[1] = c => Ids(q) \subseteq IdsOf(disk[q])
    BY <1>0, <1>1 DEF DiskInv, CleanIsSaved, OwedShapes, SaveShapes
  <1>l. lost \subseteq lost'
    BY <1>1
  <1>i. \A q \in Queues : q[1] = c => Ids(q) \subseteq IdsIn(c)
    <2> SUFFICES ASSUME NEW q \in Queues, q[1] = c, NEW id \in Ids(q) PROVE id \in IdsIn(c)
      OBVIOUS
    <2>1. q[2] \in Kinds /\ q = <<c, q[2]>>
      BY QueueFacts
    <2>2. \E t \in ToSet(pending[q]) \cup live[q] : id = t.id
      BY DEF Ids, IdsOf, LiveIds, ToSet
    <2> QED  BY <2>1, <2>2 DEF IdsIn
  <1>s. \A id \in SavedIds(c) : \E q \in Queues : q[1] = c /\ id \in IdsOf(disk[q])
    <2> SUFFICES ASSUME NEW id \in SavedIds(c)
                 PROVE  \E q \in Queues : q[1] = c /\ id \in IdsOf(disk[q])
      OBVIOUS
    <2>1. PICK k \in Kinds : \E t \in ToSet(disk[<<c, k>>]) : id = t.id
      BY DEF SavedIds
    <2>2. <<c, k>> \in Queues
      BY DEF Queues
    <2>3. id \in IdsOf(disk[<<c, k>>])
      BY <2>1 DEF IdsOf, ToSet
    <2> QED  BY <2>2, <2>3
  <1>8. DiskInv'
    BY <1>0, <1>1, <1>2, <1>6 DEF DiskInv, CleanIsSaved
  <1>9. KeptInv'
    <2> SUFFICES ASSUME NEW id \in owed PROVE Kept(id)'
      BY <1>1 DEF KeptInv
    <2>1. Kept(id)
      BY <1>0 DEF KeptInv
    <2>2. ASSUME NEW q \in Queues, id \in Ids(q) PROVE Kept(id)'
      <3>1. CASE q[1] = c /\ c \notin overwritten
        BY <1>1, <1>2, <1>7, <2>2, <3>1 DEF Kept
      <3>3. CASE q[1] = c /\ c \in overwritten
        <4>1. CASE id \in SavedIds(c)
          BY <1>1, <1>2, <1>s, <4>1 DEF Kept
        <4>2. CASE id \notin SavedIds(c)
          BY <1>1, <1>i, <2>2, <3>3, <4>2 DEF Kept
        <4> QED  BY <4>1, <4>2
      <3>2. CASE q[1] # c
        BY <1>6, <2>2, <3>2 DEF Kept
      <3> QED  BY <3>1, <3>2, <3>3
    <2>3. ASSUME NEW q \in Queues, lifecycle[q[1]] = "finalized", id \in IdsOf(disk[q]) PROVE Kept(id)'
      BY <1>1, <1>2, <1>6, <2>3 DEF Kept
    <2>4. ASSUME id \in IdsOf(batch) \cup lost PROVE Kept(id)'
      BY <1>1, <1>l, <2>4 DEF Kept
    <2> QED  BY <2>1, <2>2, <2>3, <2>4 DEF Kept
  <1>10. OwedShapes' /\ SavesInv'
    BY <1>0, <1>1, <1>2 DEF OwedShapes, SaveShapes, SavesInv
  <1>11. FinalInv'
    BY <1>0, <1>2, <1>6 DEF FinalInv
  <1> QED  BY <1>4, <1>5, <1>8, <1>9, <1>10, <1>11 DEF OwedInv

LEMMA ScheduleOwed ==
    ASSUME IndexInv, OwedInv, NEW key \in Keys, NEW delay \in 0 .. MaxDelay, NEW p \in Priorities,
           Schedule(key, delay, p)
    PROVE  OwedInv'
  <1> DEFINE x == QueueOf(key)
             t == [id |-> nextOrder, key |-> key, trigger |-> now + delay,
                   priority |-> p, order |-> nextOrder]
  <1>0. /\ nextOrder \in Nat /\ QueuesOK /\ BatchInv /\ SavesInv /\ FinalInv /\ now \in Nat
        /\ DiskInv /\ KeptInv /\ OwedShapes /\ MapOn(live, Queues) /\ MapOn(dirty, Chunks)
    BY DEF OwedInv, OwedShapes, IndexInv, Shapes
  <1>1. /\ nextOrder' = nextOrder + 1
        /\ UNCHANGED <<pending, lifecycle, disk, snap, save, newest, overwritten, lost, now>>
        /\ UNCHANGED <<step, kind, batch, cursor>>
        /\ \/ UNCHANGED <<live, dirty, owed>>
           \/ /\ live' = [live EXCEPT ![x] = @ \cup {t}] /\ owed' = owed \cup {nextOrder}
              /\ dirty' = [dirty EXCEPT ![key.chunk] = TRUE]
    BY DEF Schedule, game, history
  <1>2. x \in Queues /\ x[1] = key.chunk /\ key.chunk \in Chunks
    BY KeyFacts
  <1>3. nextOrder' \in Nat /\ nextOrder <= nextOrder'
    BY <1>0, <1>1
  <1>4. t \in LiveBelow(x, nextOrder') /\ t.id = nextOrder /\ t.order = nextOrder
    <2>1. now + delay \in Int
      BY <1>0, TickConstants
    <2>2. t \in LiveTicks(x)
      BY <1>0, <1>2, <2>1 DEF LiveTicks
    <2> QED  BY <1>0, <1>1, <2>2 DEF LiveBelow
  <1> HIDE DEF t, x
  <1>5. BatchInv'
    BY <1>0, <1>1, <1>3, BatchFrame
  <1>6. CASE UNCHANGED <<live, dirty, owed>>
    <2>1. QueuesOK'
      BY <1>0, <1>1, <1>3, <1>6, QueueFrame DEF QueuesOK
    <2>2. \A q \in Queues : Ids(q)' = Ids(q)
      BY <1>1, <1>6 DEF Ids
    <2>3. DiskInv' /\ KeptInv'
      BY <1>0, <1>1, <1>6, <2>2 DEF DiskInv, CleanIsSaved, KeptInv, Kept
    <2>4. OwedShapes' /\ SavesInv' /\ FinalInv'
      BY <1>0, <1>1, <1>3, <1>6 DEF OwedShapes, SaveShapes, SavesInv, FinalInv
    <2> QED  BY <1>5, <2>1, <2>3, <2>4 DEF OwedInv
  <1>7. CASE /\ live' = [live EXCEPT ![x] = @ \cup {t}] /\ owed' = owed \cup {nextOrder}
             /\ dirty' = [dirty EXCEPT ![key.chunk] = TRUE]
    <2>1. /\ live'[x] = live[x] \cup {t} /\ \A q \in Queues \ {x} : live'[q] = live[q]
          /\ MapOn(dirty', Chunks) /\ dirty'[key.chunk] = TRUE
          /\ \A d \in Chunks \ {key.chunk} : dirty'[d] = dirty[d]
      BY <1>0, <1>2, <1>7 DEF MapOn
    <2>2. QueuesOK'
      <3>1. ASSUME NEW q \in Queues, q # x PROVE QueueOK(q)'
        BY <1>0, <1>1, <1>3, <2>1, <3>1, QueueFrame DEF QueuesOK
      <3>2. QueueOK(x)'
        <4>1. /\ Listed(pending[x], x, nextOrder') /\ Listed(disk[x], x, nextOrder')
              /\ \A k \in Savers : Listed(snap[k][x], x, nextOrder')
          BY <1>0, <1>2, <1>3, ListedGrows DEF QueuesOK, QueueOK
        <4>2. Queued(live[x], x, nextOrder') /\ Queued(live[x], x, nextOrder)
          BY <1>0, <1>2, <1>3, QueuedGrows DEF QueuesOK, QueueOK
        <4>3. \A u \in live[x] : u.order < nextOrder /\ u.order \in Int
          BY <4>2, QueuedTyped
        <4>4. \A u \in live[x] : u.order # t.order
          BY <1>0, <1>4, <4>3
        <4>5. IsFiniteSet(live[x] \cup {t})
          BY <4>2, FS_AddElement DEF Queued
        <4>6. Queued(live'[x], x, nextOrder')
          BY <1>4, <2>1, <4>2, <4>4, <4>5 DEF Queued
        <4>7. pending[x] # <<>> => \A u \in live'[x] : u.order >= 0
          BY <1>0, <1>2, <1>4, <2>1 DEF QueuesOK, QueueOK
        <4> QED  BY <1>1, <4>1, <4>6, <4>7 DEF QueueOK
      <3> QED  BY <3>1, <3>2 DEF QueuesOK
    <2>3. \A q \in Queues : Ids(q) \subseteq Ids(q)' /\ (q # x => Ids(q)' = Ids(q))
      BY <1>1, <2>1 DEF Ids, LiveIds
    <2>4. nextOrder \in Ids(x)'
      BY <1>4, <2>1 DEF Ids, LiveIds
    <2>5. DiskInv'
      <3> SUFFICES ASSUME NEW q \in Queues PROVE CleanIsSaved(q)'
        BY DEF DiskInv
      <3>1. CASE q[1] = key.chunk
        BY <2>1, <3>1 DEF CleanIsSaved
      <3>2. CASE q[1] # key.chunk
        BY <1>0, <1>1, <1>2, <2>1, <2>3, <3>2, QueueFacts DEF DiskInv, CleanIsSaved
      <3> QED  BY <3>1, <3>2
    <2>6. KeptInv'
      <3>1. ASSUME NEW id \in owed PROVE Kept(id)'
        BY <1>0, <1>1, <2>3 DEF KeptInv, Kept
      <3>2. ASSUME NEW id, id = nextOrder PROVE Kept(id)'
        BY <1>2, <2>4, <3>2 DEF Kept
      <3> QED  BY <1>7, <3>1, <3>2 DEF KeptInv
    <2>7. OwedShapes' /\ SavesInv' /\ FinalInv'
      BY <1>0, <1>1, <1>3, <2>1 DEF OwedShapes, SaveShapes, SavesInv, FinalInv
    <2> QED  BY <1>5, <2>2, <2>5, <2>6, <2>7 DEF OwedInv
  <1> QED  BY <1>1, <1>6, <1>7

(* A chunk on its way out is registered.                                   *)
UnloadingInv == \A c \in Chunks : place[c] = "unloading" => lifecycle[c] = "registered"

LEMMA UnloadingStep ==
    ASSUME IndexInv, UnloadingInv, [TickNext]_tickVars
    PROVE  UnloadingInv'
  <1> USE DEF tickVars, containers
  <1>0. MapOn(place, Chunks) /\ MapOn(lifecycle, Chunks)
    BY DEF IndexInv, Shapes
  <1>1. CASE UNCHANGED <<place, lifecycle>>
    BY <1>1 DEF UnloadingInv
  <1>2. ASSUME NEW c \in Chunks, NewProto(c) \/ LoadFull(c) \/ Unregister(c) PROVE UnloadingInv'
    <2>1. place'[c] \in {"map", "none"} /\ \A d \in Chunks \ {c} : place'[d] = place[d] /\ lifecycle'[d] = lifecycle[d]
      BY <1>0, <1>2 DEF NewProto, LoadFull, Unregister, MapOn
    <2> QED  BY <2>1 DEF UnloadingInv
  <1>3. ASSUME NEW c \in Chunks, PromoteToFull(c) \/ Register(c) PROVE UnloadingInv'
    <2>1. /\ place' = place /\ lifecycle[c] # "registered"
          /\ \A d \in Chunks \ {c} : lifecycle'[d] = lifecycle[d]
      BY <1>0, <1>3 DEF PromoteToFull, Register, MapOn
    <2> QED  BY <2>1 DEF UnloadingInv
  <1>4. ASSUME NEW c \in Chunks, BeginUnloading(c) \/ Revive(c) PROVE UnloadingInv'
    <2>1. /\ lifecycle' = lifecycle /\ (lifecycle[c] = "registered" \/ place'[c] = "map")
          /\ \A d \in Chunks \ {c} : place'[d] = place[d]
      BY <1>0, <1>4 DEF BeginUnloading, Revive, MapOn
    <2> QED  BY <1>4, <2>1 DEF UnloadingInv, Revive, BeginUnloading
  <1> QED
    BY <1>1, <1>2, <1>3, <1>4
    DEF TickNext, ChunkStep, ScheduleStep, GameStep, SaveStep, RemovePending, Reconcile, SchedulePending,
        Schedule, TickTime, TakeDue, EndCollection, MarkChanged, BeginBatch, EndBatch, DrainTurn, RunTick,
        TakeDirty, Pack, AddBlocks, AddFluids, Write, WriteFails, Unpack

-----------------------------------------------------------------------------
(* Collections and batches.                                                *)
LEMMA TakeDueOwed ==
    ASSUME OwedInv, TakeDue
    PROVE  OwedInv'
  <1>1. /\ batch = <<>> /\ cursor = 0 /\ batch' = <<>> /\ cursor' = 0
        /\ UNCHANGED <<pending, live, disk, snap, nextOrder, batch, dirty, save, newest, overwritten,
                       lost, lifecycle, now, owed>>
    BY DEF OwedInv, BatchInv, TakeDue, containers, saving, history
  <1>2. BatchInv'
    BY <1>1, EmptyBatch
  <1>3. /\ MapOn(dirty, Chunks) /\ SaveShapes /\ now \in Nat /\ cursor \in Nat /\ SavesInv
    BY DEF OwedInv, OwedShapes
  <1>4. SaveShapes'
    BY <1>1, <1>3 DEF SaveShapes
  <1> QED  BY <1>1, <1>2, <1>3, <1>4, QuietOwed DEF SavesInv

LEMMA EndBatchOwed ==
    ASSUME OwedInv, EndBatch
    PROVE  OwedInv'
  <1>0. /\ QueuesOK /\ BatchInv /\ SavesInv /\ FinalInv /\ DiskInv /\ KeptInv /\ OwedShapes
    BY DEF OwedInv
  <1>1. /\ cursor = Len(batch) /\ batch' = <<>> /\ cursor' = 0
        /\ UNCHANGED <<pending, live, disk, snap, nextOrder, dirty, save, newest, overwritten, lost,
                       lifecycle, now, owed>>
    BY DEF EndBatch, containers, saving, history
  <1>2. BatchInv'
    BY <1>1, EmptyBatch
  <1>3. \A q \in Queues : Ids(q)' = Ids(q)
    BY <1>1 DEF Ids
  <1>4. ASSUME NEW id \in owed PROVE id \notin IdsOf(batch)
    <2> SUFFICES ASSUME id \in IdsOf(batch) PROVE FALSE
      OBVIOUS
    <2>1. DOMAIN batch = 1 .. Len(batch) /\ Len(batch) \in Nat
      BY <1>0 DEF BatchInv, BatchOK
    <2>2. PICK i \in 1 .. Len(batch) : id = batch[i].id
      BY <2>1 DEF IdsOf
    <2>3. i <= cursor
      BY <1>1, <2>1
    <2> QED  BY <1>0, <2>2, <2>3 DEF BatchInv
  <1>5. KeptInv'
    BY <1>0, <1>1, <1>3, <1>4 DEF KeptInv, Kept
  <1>6. QueuesOK' /\ DiskInv' /\ SavesInv' /\ FinalInv'
    BY <1>0, <1>1, <1>3 DEF QueuesOK, QueueOK, DiskInv, CleanIsSaved, SavesInv, FinalInv
  <1>7. OwedShapes'
    BY <1>0, <1>1 DEF OwedShapes, SaveShapes
  <1> QED  BY <1>2, <1>5, <1>6, <1>7 DEF OwedInv

(* What a turn takes out of the live ticks is in the batch.                *)
LEMMA DrainTurnFacts ==
    ASSUME IndexInv, OwedInv, NEW c \in Chunks, DrainTurn(c)
    PROVE  LET due == Due(c, kind)
               r == RunLength(c)
               run == SubSeq(due, 1, r)
           IN  /\ <<c, kind>> \in Queues /\ Queued(live[<<c, kind>>], <<c, kind>>, nextOrder)
               /\ Len(batch) \in Nat /\ r \in 1 .. Len(due) /\ Len(due) \in Nat
               /\ Len(batch) + r <= MaxPerTick
               /\ ToSet(run) = {due[i] : i \in 1 .. r}
               /\ \A i \in 1 .. Len(due) : due[i] \in live[<<c, kind>>]
               /\ Len(batch') = Len(batch) + r
               /\ batch' = [i \in 1 .. (Len(batch) + r) |-> batch'[i]]
               /\ \A i \in 1 .. Len(batch) : batch'[i] = batch[i]
               /\ \A i \in 1 .. r : batch'[Len(batch) + i] = due[i]
  <1> DEFINE due == Due(c, kind)
             r == RunLength(c)
             run == SubSeq(due, 1, r)
             S == DueSet(c)
  <1>1. kind \in Kinds /\ <<c, kind>> \in Queues
    BY QueueFacts DEF IndexInv, Shapes
  <1>2. Queued(live[<<c, kind>>], <<c, kind>>, nextOrder)
    BY <1>1 DEF OwedInv, QueuesOK, QueueOK
  <1>3. /\ Len(batch) \in Nat /\ batch = [i \in 1 .. Len(batch) |-> batch[i]]
        /\ Len(batch) < MaxPerTick /\ c \in Ready /\ batch' = batch \o run
    BY DEF OwedInv, BatchInv, BatchOK, DrainTurn
  <1>4. due \in Seq(S) /\ Len(due) \in Nat
    BY <1>2, DueFacts
  <1>5. r \in 1 .. Len(due) /\ Len(batch) + r <= MaxPerTick
    BY <1>2, <1>3, RunLengthFacts
  <1>6. \A t \in S : t \in live[<<c, kind>>]
    BY DEF DueSet
  <1> HIDE DEF due, r, S
  <1>7. run = [i \in 1 .. r |-> due[i]]
    BY <1>4, <1>5
  <1>8. Len(run) = r /\ DOMAIN run = 1 .. r /\ \A i \in 1 .. r : run[i] = due[i]
    BY <1>4, <1>5, <1>7
  <1>9. ToSet(run) = {due[i] : i \in 1 .. r}
    <2> HIDE DEF run
    <2> QED  BY <1>8 DEF ToSet
  <1>10. \A i \in 1 .. Len(due) : due[i] \in live[<<c, kind>>]
    BY <1>4, <1>6
  <1> HIDE DEF run
  <1>12. /\ Len(batch') = Len(batch) + r /\ batch' = [i \in 1 .. (Len(batch) + r) |-> batch'[i]]
         /\ \A i \in 1 .. Len(batch) : batch'[i] = batch[i]
         /\ \A i \in 1 .. r : batch'[Len(batch) + i] = due[i]
    <2>1. r \in Nat /\ run = [i \in 1 .. r |-> run[i]]
      BY <1>4, <1>5, <1>7
    <2>2. PICK m \in Nat : m = Len(batch)
      BY <1>3
    <2>3. /\ Len(batch \o run) = m + r /\ batch \o run = [i \in 1 .. (m + r) |-> (batch \o run)[i]]
          /\ \A i \in 1 .. m : (batch \o run)[i] = batch[i]
          /\ \A i \in 1 .. r : (batch \o run)[m + i] = run[i]
      <3>1. batch = [i \in 1 .. m |-> batch[i]]
        BY <1>3, <2>2
      <3> QED  BY <2>1, <3>1, ConcatFacts
    <2> QED  BY <1>3, <1>8, <2>2, <2>3
  <1> QED  BY <1>1, <1>2, <1>3, <1>4, <1>5, <1>9, <1>10, <1>12 DEF due, r, run

LEMMA DrainTurnOwed ==
    ASSUME IndexInv, OwedInv, NEW c \in Chunks, DrainTurn(c)
    PROVE  OwedInv'
  <1> DEFINE x == <<c, kind>>
             due == Due(c, kind)
             r == RunLength(c)
             gone == ToSet(SubSeq(due, 1, r))
  <1>0. /\ QueuesOK /\ BatchInv /\ SavesInv /\ FinalInv /\ DiskInv /\ KeptInv /\ OwedShapes
        /\ MapOn(live, Queues) /\ nextOrder \in Nat
    BY DEF OwedInv, OwedShapes, IndexInv, Shapes
  <1>1. /\ step = "drain" /\ live' = [live EXCEPT ![x] = @ \ gone]
        /\ UNCHANGED <<pending, lifecycle, disk, snap, dirty, save, newest, overwritten, lost, now, nextOrder, owed>>
        /\ UNCHANGED <<step, kind, cursor>>
    BY DEF DrainTurn, saving, history
  <1>2. /\ x \in Queues /\ Queued(live[x], x, nextOrder)
        /\ Len(batch) \in Nat /\ r \in 1 .. Len(due) /\ Len(due) \in Nat
        /\ gone = {due[i] : i \in 1 .. r}
        /\ \A i \in 1 .. Len(due) : due[i] \in live[x]
        /\ Len(batch') = Len(batch) + r
        /\ batch' = [i \in 1 .. (Len(batch) + r) |-> batch'[i]]
        /\ \A i \in 1 .. Len(batch) : batch'[i] = batch[i]
        /\ \A i \in 1 .. r : batch'[Len(batch) + i] = due[i]
    BY DrainTurnFacts
  <1>3. x[1] = c /\ x[2] = kind
    OBVIOUS
  <1> HIDE DEF x, due, r, gone
  <1>4. live'[x] = live[x] \ gone /\ \A q \in Queues \ {x} : live'[q] = live[q]
    BY <1>0, <1>1, <1>2 DEF MapOn
  <1>5. r \in Nat /\ \A i \in 1 .. r : due[i] \in live[x]
    BY <1>2
  <1>6. \A i \in 1 .. (Len(batch) + r) : i \in 1 .. Len(batch) \/ \E j \in 1 .. r : i = Len(batch) + j
    <2> SUFFICES ASSUME NEW i \in 1 .. (Len(batch) + r), i > Len(batch) PROVE i - Len(batch) \in 1 .. r /\ i = Len(batch) + (i - Len(batch))
      BY <1>2, <1>5
    <2> QED  BY <1>2, <1>5
  <1>7. BatchInv'
    <2>1. ASSUME NEW i \in 1 .. Len(batch')
          PROVE  /\ batch'[i].key.chunk \in Chunks
                 /\ batch'[i] \in LiveBelow(<<batch'[i].key.chunk, kind>>, nextOrder)
      <3>1. CASE i \in 1 .. Len(batch)
        BY <1>0, <1>2, <3>1 DEF BatchInv, BatchOK
      <3>2. ASSUME NEW j \in 1 .. r, i = Len(batch) + j
            PROVE  /\ batch'[i].key.chunk \in Chunks
                   /\ batch'[i] \in LiveBelow(<<batch'[i].key.chunk, kind>>, nextOrder)
        <4>1. batch'[i] = due[j] /\ due[j] \in live[x]
          BY <1>2, <1>5, <3>2
        <4>q. Queued(live[x], x, nextOrder)
          BY <1>2
        <4>2. due[j] \in LiveBelow(x, nextOrder) /\ QueueOf(due[j].key) = x
          <5>1. due[j] \in LiveBelow(x, nextOrder)
            BY <4>1, <4>q DEF Queued
          <5>2. QueueOf(due[j].key) = x
            BY <5>1 DEF LiveBelow, LiveTicks
          <5> QED  BY <5>1, <5>2
        <4>3. due[j].key.chunk = c
          BY <1>3, <4>2 DEF QueueOf
        <4> QED  BY <4>1, <4>2, <4>3 DEF x
      <3>3. i \in 1 .. (Len(batch) + r)
        BY <1>2
      <3>4. i \in 1 .. Len(batch) \/ \E j \in 1 .. r : i = Len(batch) + j
        BY <1>6, <3>3, Zenon
      <3> QED  BY <3>1, <3>2, <3>4, Zenon
    <2>2. BatchOK'
      <3>1. Len(batch') \in Nat /\ batch' = [i \in 1 .. Len(batch') |-> batch'[i]]
        BY <1>2, <1>5
      <3> QED  BY <1>1, <2>1, <3>1 DEF BatchOK
    <2>3. cursor = 0
      BY <1>0, <1>1 DEF BatchInv
    <2>4. \A i \in 1 .. Len(batch') : ~ (i <= cursor)
      BY <2>3
    <2> QED  BY <1>1, <2>2, <2>3, <2>4 DEF BatchInv
  <1>8. QueuesOK'
    <2>1. ASSUME NEW q \in Queues, q # x PROVE QueueOK(q)'
      BY <1>0, <1>1, <1>4, <2>1 DEF QueuesOK, QueueOK
    <2>2. ASSUME NEW q \in Queues, q = x PROVE QueueOK(q)'
      <3>1. IsFiniteSet(live[x] \ gone)
        BY <1>2, FS_Subset DEF Queued
      <3>2. Queued(live'[q], q, nextOrder)
        BY <1>2, <1>4, <2>2, <3>1 DEF Queued
      <3>3. QueueOK(q)
        BY <1>0 DEF QueuesOK
      <3> QED  BY <1>1, <3>2, <3>3 DEF QueueOK
    <2> QED  BY <2>1, <2>2 DEF QueuesOK
  <1>9. \A q \in Queues : Ids(q)' \subseteq Ids(q) /\ (q # x => Ids(q)' = Ids(q))
    BY <1>1, <1>4 DEF Ids, LiveIds
  <1>10. DiskInv'
    BY <1>0, <1>1, <1>9, CleanFrame DEF DiskInv
  <1>11. DOMAIN batch' = 1 .. (Len(batch) + r) /\ DOMAIN batch = 1 .. Len(batch)
    BY <1>0, <1>2 DEF BatchInv, BatchOK
  <1>12. KeptInv'
    <2> SUFFICES ASSUME NEW id \in owed PROVE Kept(id)'
      BY <1>1 DEF KeptInv
    <2>1. Kept(id)
      BY <1>0 DEF KeptInv
    <2>2. ASSUME NEW q \in Queues, id \in Ids(q), q # x PROVE Kept(id)'
      BY <1>9, <2>2 DEF Kept
    <2>3. ASSUME id \in Ids(x) PROVE Kept(id)'
      <3>1. CASE id \in IdsOf(pending[x])
        BY <1>1, <1>2, <3>1 DEF Kept, Ids
      <3>2. ASSUME NEW t \in live[x], id = t.id PROVE Kept(id)'
        <4>1. CASE t \notin gone
          BY <1>2, <1>4, <3>2, <4>1 DEF Kept, Ids, LiveIds
        <4>2. CASE t \in gone
          <5>1. PICK i \in 1 .. r : t = due[i]
            BY <1>2, <4>2
          <5>2. Len(batch) + i \in DOMAIN batch' /\ batch'[Len(batch) + i] = t
            BY <1>2, <1>5, <1>11, <5>1
          <5> QED  BY <3>2, <5>2 DEF Kept, IdsOf
        <4> QED  BY <4>1, <4>2
      <3> QED  BY <2>3, <3>1, <3>2 DEF Ids, LiveIds
    <2>6. ASSUME id \in lost PROVE Kept(id)'
      BY <1>1, <2>6 DEF Kept
    <2>4. ASSUME id \in IdsOf(batch) PROVE Kept(id)'
      <3>1. PICK i \in 1 .. Len(batch) : id = batch[i].id
        BY <1>11, <2>4 DEF IdsOf
      <3>2. i \in DOMAIN batch' /\ batch'[i] = batch[i]
        BY <1>2, <1>5, <1>11
      <3> QED  BY <3>1, <3>2 DEF Kept, IdsOf
    <2>5. ASSUME NEW q \in Queues, lifecycle[q[1]] = "finalized", id \in IdsOf(disk[q]) PROVE Kept(id)'
      BY <1>1, <2>5 DEF Kept
    <2> QED  BY <2>1, <2>2, <2>3, <2>4, <2>5, <2>6 DEF Kept
  <1>13. OwedShapes' /\ SavesInv' /\ FinalInv'
    BY <1>0, <1>1 DEF OwedShapes, SaveShapes, SavesInv, FinalInv
  <1> QED  BY <1>7, <1>8, <1>10, <1>12, <1>13 DEF OwedInv

-----------------------------------------------------------------------------
(* Saves.                                                                  *)
LEMMA PackOwed ==
    ASSUME OwedInv, NEW k \in Savers, NEW c \in Chunks, Pack(k, c)
    PROVE  OwedInv'
  <1>0. /\ QueuesOK /\ BatchInv /\ SavesInv /\ FinalInv /\ DiskInv /\ KeptInv /\ OwedShapes
        /\ SaveShapes /\ nextOrder \in Nat /\ now \in Nat
    BY DEF OwedInv, OwedShapes
  <1>1. /\ save[k][c] = "taken" /\ save' = [save EXCEPT ![k][c] = "packed"]
        /\ snap' = [snap EXCEPT ![k] = [q \in Queues |-> IF q[1] = c THEN Packed(q) ELSE @[q]]]
        /\ UNCHANGED <<pending, live, lifecycle, disk, dirty, newest, overwritten, lost>>
        /\ UNCHANGED <<step, kind, batch, cursor, now, nextOrder, owed>>
    BY DEF Pack, containers, game, history
  <1>2. ASSUME NEW q \in Queues PROVE Listed(Packed(q), q, nextOrder) /\ IdsOf(Packed(q)) = Ids(q)
    <2>1. now \in Int
      BY <1>0
    <2> QED  BY <1>0, <2>1, PackedFacts DEF QueuesOK, QueueOK
  <1> HIDE DEF Packed
  <1>3. /\ MapOn(snap', Savers) /\ (\A j \in Savers : MapOn(snap'[j], Queues))
        /\ (\A q \in Queues : snap'[k][q] = IF q[1] = c THEN Packed(q) ELSE snap[k][q])
        /\ \A j \in Savers \ {k} : snap'[j] = snap[j]
    BY <1>0, <1>1 DEF MapOn, SaveShapes
  <1>4. /\ MapOn(save', Savers) /\ (\A j \in Savers : MapOn(save'[j], Chunks))
        /\ save'[k][c] = "packed"
        /\ \A j \in Savers : \A d \in Chunks : (j = k /\ d = c) \/ save'[j][d] = save[j][d]
    BY <1>0, <1>1, SetStage
  <1>5. QueuesOK'
    <2> SUFFICES ASSUME NEW q \in Queues PROVE QueueOK(q)'
      BY DEF QueuesOK
    <2>1. QueueOK(q)
      BY <1>0 DEF QueuesOK
    <2>2. ASSUME NEW j \in Savers PROVE Listed(snap'[j][q], q, nextOrder)
      <3>1. CASE j = k /\ q[1] = c
        BY <1>2, <1>3, <3>1
      <3>2. CASE j # k \/ q[1] # c
        BY <1>3, <2>1, <3>2 DEF QueueOK
      <3> QED  BY <3>1, <3>2
    <2> QED  BY <1>1, <2>1, <2>2 DEF QueueOK
  <1>6. BatchInv'
    BY <1>0, <1>1, BatchFrame
  <1>7. \A q \in Queues : Ids(q)' = Ids(q)
    BY <1>1 DEF Ids
  <1>8. DiskInv'
    <2> SUFFICES ASSUME NEW q \in Queues PROVE CleanIsSaved(q)'
      BY DEF DiskInv
    <2>1. CleanIsSaved(q) /\ q[1] \in Chunks /\ newest[q[1]] \in Savers
      BY <1>0, QueueFacts DEF DiskInv, SaveShapes
    <2>2. CASE q[1] = c /\ newest[c] = k
      <3>1. Ids(q)' \subseteq IdsOf(snap'[k][q])
        BY <1>2, <1>3, <1>7, <2>2
      <3> QED  BY <1>1, <1>4, <2>2, <3>1 DEF CleanIsSaved
    <2>3. CASE q[1] # c \/ newest[q[1]] # k
      <3>1. /\ snap'[newest[q[1]]][q] = snap[newest[q[1]]][q]
            /\ save'[newest[q[1]]][q[1]] = save[newest[q[1]]][q[1]]
        BY <1>3, <1>4, <2>1, <2>3
      <3> QED  BY <1>1, <1>7, <2>1, <3>1 DEF CleanIsSaved
    <2> QED  BY <2>2, <2>3
  <1>9. KeptInv'
    BY <1>0, <1>1, <1>7 DEF KeptInv, Kept
  <1>10. OwedShapes' /\ FinalInv'
    BY <1>0, <1>1, <1>3, <1>4 DEF OwedShapes, SaveShapes, FinalInv
  <1>11. SavesInv'
    BY <1>0, <1>1, <1>4 DEF SavesInv
  <1> QED  BY <1>5, <1>6, <1>8, <1>9, <1>10, <1>11 DEF OwedInv

(* What is still to run of the batch only adds to a snapshot.              *)
LEMMA AddOwed ==
    ASSUME OwedInv, NEW k \in Savers, NEW c \in Chunks, NEW kd \in Kinds,
           \/ AddBlocks(k, c) /\ kd = "block"
           \/ AddFluids(k, c) /\ kd = "fluid"
    PROVE  OwedInv'
  <1> DEFINE x == <<c, kd>>
             more == NotYetStarted(x)
  <1>0. /\ QueuesOK /\ BatchInv /\ SavesInv /\ FinalInv /\ DiskInv /\ KeptInv /\ OwedShapes
        /\ SaveShapes /\ nextOrder \in Nat /\ cursor \in Nat
    BY DEF OwedInv, OwedShapes
  <1>1. PICK b \in {"blocks", "write"} :
            /\ save[k][c] \in {"packed", "blocks"} /\ save' = [save EXCEPT ![k][c] = b]
            /\ snap' = [snap EXCEPT ![k][x] = @ \o more]
    BY DEF AddBlocks, AddFluids
  <1>u. /\ UNCHANGED <<pending, live, lifecycle, disk, dirty, newest, overwritten, lost>>
        /\ UNCHANGED <<step, kind, batch, cursor, now, nextOrder, owed>>
    BY DEF AddBlocks, AddFluids, containers, game, history
  <1>2. x \in Queues /\ x[1] = c
    BY QueueFacts, KindsFacts
  <1>3. Listed(more, x, nextOrder)
    BY <1>0, <1>2, NotYetStartedFacts DEF BatchInv
  <1> HIDE DEF x, more
  <1>4. /\ MapOn(snap', Savers) /\ (\A j \in Savers : MapOn(snap'[j], Queues))
        /\ snap'[k][x] = snap[k][x] \o more
        /\ \A j \in Savers : \A q \in Queues : (j = k /\ q = x) \/ snap'[j][q] = snap[j][q]
    <2> DEFINE v == snap[k][x] \o more
    <2>1. snap' = [snap EXCEPT ![k][x] = v]
      BY <1>0, <1>1, <1>2 DEF SaveShapes, MapOn
    <2> HIDE DEF v
    <2>2. /\ MapOn(snap', Savers) /\ (\A j \in Savers : MapOn(snap'[j], Queues)) /\ snap'[k][x] = v
          /\ \A j \in Savers : \A q \in Queues : (j = k /\ q = x) \/ snap'[j][q] = snap[j][q]
      BY <1>0, <1>2, <2>1 DEF SaveShapes, MapOn
    <2> QED  BY <2>2 DEF v
  <1>5. /\ MapOn(save', Savers) /\ (\A j \in Savers : MapOn(save'[j], Chunks))
        /\ save'[k][c] = b
        /\ \A j \in Savers : \A d \in Chunks : (j = k /\ d = c) \/ save'[j][d] = save[j][d]
    BY <1>0, <1>1, SetStage
  <1>6. Listed(snap'[k][x], x, nextOrder) /\ IdsOf(snap[k][x]) \subseteq IdsOf(snap'[k][x])
    <2>1. Listed(snap[k][x], x, nextOrder)
      BY <1>0, <1>2 DEF QueuesOK, QueueOK
    <2> QED  BY <1>3, <1>4, <2>1, ListedConcat
  <1>7. QueuesOK'
    <2> SUFFICES ASSUME NEW q \in Queues PROVE QueueOK(q)'
      BY DEF QueuesOK
    <2>1. QueueOK(q)
      BY <1>0 DEF QueuesOK
    <2>2. ASSUME NEW j \in Savers PROVE Listed(snap'[j][q], q, nextOrder)
      BY <1>4, <1>6, <2>1 DEF QueueOK
    <2> QED  BY <1>u, <2>1, <2>2 DEF QueueOK
  <1>8. BatchInv'
    BY <1>0, <1>u, BatchFrame
  <1>9. \A q \in Queues : Ids(q)' = Ids(q)
    BY <1>u DEF Ids
  <1>10. DiskInv'
    <2> SUFFICES ASSUME NEW q \in Queues PROVE CleanIsSaved(q)'
      BY DEF DiskInv
    <2>1. CleanIsSaved(q) /\ q[1] \in Chunks /\ newest[q[1]] \in Savers
      BY <1>0, QueueFacts DEF DiskInv, SaveShapes
    <2>2. IdsOf(snap[newest[q[1]]][q]) \subseteq IdsOf(snap'[newest[q[1]]][q])
      BY <1>4, <1>6, <2>1
    <2>3. CASE q[1] = c /\ newest[c] = k
      BY <1>1, <1>u, <1>5, <1>9, <2>1, <2>2, <2>3 DEF CleanIsSaved
    <2>4. CASE q[1] # c \/ newest[q[1]] # k
      <3>1. save'[newest[q[1]]][q[1]] = save[newest[q[1]]][q[1]]
        BY <1>5, <2>1, <2>4
      <3> QED  BY <1>u, <1>9, <2>1, <2>2, <3>1 DEF CleanIsSaved
    <2> QED  BY <2>3, <2>4
  <1>11. KeptInv'
    BY <1>0, <1>u, <1>9 DEF KeptInv, Kept
  <1>12. OwedShapes' /\ FinalInv'
    BY <1>0, <1>u, <1>4, <1>5 DEF OwedShapes, SaveShapes, FinalInv
  <1>13. SavesInv'
    BY <1>0, <1>1, <1>u, <1>5 DEF SavesInv
  <1> QED  BY <1>7, <1>8, <1>10, <1>11, <1>12, <1>13 DEF OwedInv

LEMMA EndSaveFacts ==
    ASSUME SaveShapes, NEW k \in Savers, NEW c \in Chunks, EndSave(k, c), newest' = newest
    PROVE  /\ SaveShapes' /\ save[k][c] = "write" /\ save'[k][c] = "none"
           /\ \A j \in Savers : \A d \in Chunks : (j = k /\ d = c) \/ save'[j][d] = save[j][d]
           /\ (\A q \in Queues : snap'[k][q] = IF q[1] = c THEN <<>> ELSE snap[k][q])
           /\ \A j \in Savers \ {k} : snap'[j] = snap[j]
  <1>1. /\ save[k][c] = "write" /\ save' = [save EXCEPT ![k][c] = "none"]
        /\ snap' = [snap EXCEPT ![k] = [q \in Queues |-> IF q[1] = c THEN <<>> ELSE @[q]]]
    BY DEF EndSave
  <1>2. /\ MapOn(save', Savers) /\ (\A j \in Savers : MapOn(save'[j], Chunks))
        /\ save'[k][c] = "none"
        /\ \A j \in Savers : \A d \in Chunks : (j = k /\ d = c) \/ save'[j][d] = save[j][d]
    BY <1>1, SetStage
  <1>3. /\ MapOn(snap', Savers) /\ (\A j \in Savers : MapOn(snap'[j], Queues))
        /\ (\A q \in Queues : snap'[k][q] = IF q[1] = c THEN <<>> ELSE snap[k][q])
        /\ \A j \in Savers \ {k} : snap'[j] = snap[j]
    BY <1>1 DEF MapOn, SaveShapes
  <1> QED  BY <1>1, <1>2, <1>3 DEF SaveShapes

(* A write leaves the newest snapshot on disk or in its save, or says that *)
(* it was overwritten; a failed one sets the flag.                         *)
LEMMA WriteOwed ==
    ASSUME OwedInv, NEW k \in Savers, NEW c \in Chunks, Write(k, c) \/ WriteFails(k, c)
    PROVE  OwedInv'
  <1>0. /\ QueuesOK /\ BatchInv /\ SavesInv /\ FinalInv /\ DiskInv /\ KeptInv /\ OwedShapes
        /\ SaveShapes /\ MapOn(dirty, Chunks) /\ MapOn(disk, Queues) /\ nextOrder \in Nat
    BY DEF OwedInv, OwedShapes
  <1>1. /\ UNCHANGED <<pending, live, lifecycle, newest, lost>> /\ EndSave(k, c)
        /\ UNCHANGED <<step, kind, batch, cursor, now, nextOrder, owed>>
    BY DEF Write, WriteFails, containers, game, history
  <1>2. /\ SaveShapes' /\ save[k][c] = "write" /\ save'[k][c] = "none"
        /\ \A j \in Savers : \A d \in Chunks : (j = k /\ d = c) \/ save'[j][d] = save[j][d]
        /\ (\A q \in Queues : snap'[k][q] = IF q[1] = c THEN <<>> ELSE snap[k][q])
        /\ \A j \in Savers \ {k} : snap'[j] = snap[j]
    BY <1>0, <1>1, EndSaveFacts
  <1>3. /\ MapOn(disk', Queues) /\ MapOn(dirty', Chunks)
        /\ \A q \in Queues : disk'[q] = disk[q] \/ (q[1] = c /\ disk'[q] = snap[k][q])
    BY <1>0 DEF Write, WriteFails, MapOn
  <1>4. QueuesOK'
    <2> SUFFICES ASSUME NEW q \in Queues PROVE QueueOK(q)'
      BY DEF QueuesOK
    <2>1. QueueOK(q)
      BY <1>0 DEF QueuesOK
    <2>2. ASSUME NEW j \in Savers PROVE Listed(snap'[j][q], q, nextOrder)
      BY <1>2, <2>1, ListedEmpty DEF QueueOK
    <2>3. Listed(disk'[q], q, nextOrder)
      BY <1>3, <2>1 DEF QueueOK
    <2> QED  BY <1>1, <2>1, <2>2, <2>3 DEF QueueOK
  <1>5. BatchInv'
    BY <1>0, <1>1, BatchFrame
  <1>6. \A q \in Queues : Ids(q)' = Ids(q)
    BY <1>1 DEF Ids
  <1>7. DiskInv'
    <2> SUFFICES ASSUME NEW q \in Queues PROVE CleanIsSaved(q)'
      BY DEF DiskInv
    <2>1. CleanIsSaved(q) /\ q[1] \in Chunks /\ newest[q[1]] \in Savers
      BY <1>0, QueueFacts DEF DiskInv, SaveShapes
    <2>2. CASE q[1] # c
      <3>1. /\ snap'[newest[q[1]]][q] = snap[newest[q[1]]][q] /\ disk'[q] = disk[q]
            /\ save'[newest[q[1]]][q[1]] = save[newest[q[1]]][q[1]]
        BY <1>2, <1>3, <2>1, <2>2
      <3>2. dirty'[q[1]] = dirty[q[1]] /\ (q[1] \in overwritten' <=> q[1] \in overwritten)
        BY <1>0, <2>1, <2>2 DEF Write, WriteFails, MapOn, history
      <3> QED  BY <1>1, <1>6, <2>1, <3>1, <3>2 DEF CleanIsSaved
    <2>3. CASE q[1] = c /\ WriteFails(k, c)
      <3>1. dirty'[c] = TRUE
        BY <1>0, <2>3 DEF WriteFails, MapOn
      <3> QED  BY <2>3, <3>1 DEF CleanIsSaved
    <2>4. CASE q[1] = c /\ Write(k, c)
      <3>1. /\ disk'[q] = snap[k][q] /\ dirty' = dirty
            /\ overwritten' = IF Outrun(k, c) THEN overwritten \cup {c} ELSE overwritten
        BY <2>4 DEF Write
      <3>2. CASE newest[c] = k
        BY <1>1, <1>2, <1>6, <2>1, <2>4, <3>1, <3>2 DEF CleanIsSaved
      <3>3. CASE newest[c] # k /\ save[newest[c]][c] = "none"
        BY <1>1, <2>4, <3>1, <3>3 DEF CleanIsSaved, Outrun
      <3>4. CASE newest[c] # k /\ save[newest[c]][c] # "none"
        <4>1. snap'[newest[c]] = snap[newest[c]] /\ save'[newest[c]][c] = save[newest[c]][c]
          BY <1>2, <2>1, <2>4, <3>4
        <4> QED  BY <1>1, <1>6, <2>1, <2>4, <3>1, <3>4, <4>1 DEF CleanIsSaved
      <3> QED  BY <3>2, <3>3, <3>4
    <2> QED  BY <2>2, <2>3, <2>4
  <1>8. lifecycle[c] = "registered"
    BY <1>0, <1>2 DEF SavesInv
  <1>9. KeptInv'
    <2>1. \A q \in Queues : lifecycle[q[1]] = "finalized" => disk'[q] = disk[q]
      BY <1>3, <1>8
    <2> QED  BY <1>0, <1>1, <1>6, <2>1 DEF KeptInv, Kept
  <1>10. OwedShapes' /\ FinalInv'
    BY <1>0, <1>1, <1>2, <1>3 DEF OwedShapes, FinalInv
  <1>11. SavesInv'
    BY <1>0, <1>1, <1>2, <1>8 DEF SavesInv
  <1> QED  BY <1>4, <1>5, <1>7, <1>9, <1>10, <1>11 DEF OwedInv

-----------------------------------------------------------------------------
LEMMA OwedStep ==
    IndexInv /\ UnloadingInv /\ OwedInv /\ [TickNext]_tickVars => OwedInv'
  <1> SUFFICES ASSUME IndexInv, UnloadingInv, OwedInv, [TickNext]_tickVars PROVE OwedInv'
    OBVIOUS
  <1>1. CASE ChunkStep
    <2>1. ASSUME NEW c \in Chunks, Unregister(c) PROVE OwedInv'
      <3>1. lifecycle[c] = "registered"
        BY <2>1 DEF Unregister, UnloadingInv
      <3> QED  BY <2>1, <3>1, UnregisterOwed
    <2> QED  BY <1>1, <2>1, QuietStepsOwed, LoadFullOwed, UnpackOwed, RemovePendingOwed DEF ChunkStep
  <1>2. CASE ScheduleStep
    BY <1>2, SchedulePendingOwed, ScheduleOwed DEF ScheduleStep
  <1>3. CASE GameStep
    BY <1>3, QuietStepsOwed, TakeDueOwed, EndBatchOwed, DrainTurnOwed DEF GameStep
  <1>4. CASE SaveStep
    BY <1>4, KindsFacts, QuietStepsOwed, PackOwed, AddOwed, WriteOwed DEF SaveStep
  <1>5. CASE UNCHANGED tickVars
    BY <1>5, QuietStepsOwed
  <1> QED  BY <1>1, <1>2, <1>3, <1>4, <1>5 DEF TickNext

(* The lists a saved world starts from.                                    *)
LEMMA SavedLists ==
    ASSUME NEW lists, SavedWorld(lists)
    PROVE  /\ \A q \in Queues : Listed(disk[q], q, nextOrder)
           /\ \A id \in owed : \E c \in Chunks : id \in IdsOf(disk[<<c, "block">>])
  <1>1. /\ disk = [q \in Queues |-> IF q[2] = "block" THEN lists[q[1]] ELSE <<>>]
        /\ owed = UNION {{t.id : t \in ToSet(lists[c])} : c \in Chunks}
        /\ nextOrder \in Nat /\ owed = 0 .. (nextOrder - 1)
        /\ \A c \in Chunks : lists[c] \in Seq(SavedTicks(<<c, "block">>))
    BY DEF SavedWorld
  <1>2. ASSUME NEW c \in Chunks PROVE {t.id : t \in ToSet(lists[c])} = IdsOf(lists[c])
    BY DEF ToSet, IdsOf
  <1>3. ASSUME NEW c \in Chunks PROVE Listed(lists[c], <<c, "block">>, nextOrder)
    <2> DEFINE q == <<c, "block">>
    <2> HIDE DEF q
    <2>1. lists[c] \in Seq(SavedTicks(q))
      BY <1>1 DEF q
    <2>2. IdsOf(lists[c]) \subseteq owed
      BY <1>1, <1>2
    <2>3. \A i \in 1 .. Len(lists[c]) : lists[c][i] \in SavedBelow(q, nextOrder)
      <3> SUFFICES ASSUME NEW i \in 1 .. Len(lists[c]) PROVE lists[c][i] \in SavedBelow(q, nextOrder)
        OBVIOUS
      <3>0. i \in DOMAIN lists[c]
        BY <2>1
      <3>1. lists[c][i].id \in IdsOf(lists[c])
        BY <3>0 DEF IdsOf
      <3>2. lists[c][i].id < nextOrder
        <4>1. nextOrder \in Nat /\ owed = 0 .. (nextOrder - 1)
          BY <1>1
        <4>2. PICK id \in owed : id = lists[c][i].id
          BY <2>2, <3>1
        <4> QED  BY <4>1, <4>2
      <3>3. lists[c][i] \in SavedTicks(q)
        BY <2>1
      <3> QED  BY <3>2, <3>3 DEF SavedBelow
    <2> HIDE DEF SavedBelow
    <2>4. lists[c] \in Seq(SavedBelow(q, nextOrder))
      BY <2>1, <2>3
    <2> QED  BY <2>4 DEF Listed, q
  <1>4. \A q \in Queues : Listed(disk[q], q, nextOrder)
    <2> SUFFICES ASSUME NEW q \in Queues PROVE Listed(disk[q], q, nextOrder)
      OBVIOUS
    <2>1. CASE q[2] = "block"
      <3>1. q = <<q[1], "block">> /\ q[1] \in Chunks
        BY <2>1, QueueFacts
      <3>2. disk[q] = lists[q[1]]
        BY <1>1, <2>1
      <3> QED  BY <1>3, <3>1, <3>2
    <2>2. CASE q[2] # "block"
      BY <1>1, <2>2, ListedEmpty
    <2> QED  BY <2>1, <2>2
  <1>5. ASSUME NEW id \in owed PROVE \E c \in Chunks : id \in IdsOf(disk[<<c, "block">>])
    <2>1. PICK c \in Chunks : id \in IdsOf(lists[c])
      BY <1>1, <1>2
    <2>2. disk[<<c, "block">>] = lists[c]
      BY <1>1, QueueFacts, KindsFacts
    <2> QED  BY <2>1, <2>2
  <1> QED  BY <1>4, <1>5

LEMMA OwedInit ==
    ASSUME NEW lists, NewWorld \/ SavedWorld(lists)
    PROVE  OwedInv /\ UnloadingInv
  <1>1. /\ pending = [q \in Queues |-> <<>>] /\ live = [q \in Queues |-> {}]
        /\ place = [c \in Chunks |-> "none"]
        /\ dirty = [c \in Chunks |-> FALSE]
        /\ save = [k \in Savers |-> [c \in Chunks |-> "none"]]
        /\ snap = [k \in Savers |-> [q \in Queues |-> <<>>]]
        /\ newest = [c \in Chunks |-> "pass"] /\ "pass" \in Savers
        /\ batch = <<>> /\ cursor = 0 /\ now \in Nat
    BY DEF NewWorld, SavedWorld, NothingLoaded, Savers
  <1>2. /\ nextOrder \in Nat /\ MapOn(disk, Queues)
        /\ \A c \in Chunks : lifecycle[c] # "registered"
    BY TickConstants DEF NewWorld, SavedWorld, MapOn
  <1>3. /\ \A q \in Queues : Listed(disk[q], q, nextOrder)
        /\ \A id \in owed : /\ \A c \in Chunks : lifecycle[c] = "finalized"
                            /\ \E c \in Chunks : id \in IdsOf(disk[<<c, "block">>])
    <2>1. CASE NewWorld
      BY <2>1, ListedEmpty DEF NewWorld
    <2>2. CASE SavedWorld(lists)
      <3>1. \A c \in Chunks : lifecycle[c] = "finalized"
        BY <2>2 DEF SavedWorld
      <3> QED  BY <2>2, <3>1, SavedLists
    <2> QED  BY <2>1, <2>2
  <1>4. OwedShapes
    BY <1>1, <1>2 DEF OwedShapes, SaveShapes, MapOn
  <1>5. QueuesOK
    <2> SUFFICES ASSUME NEW q \in Queues PROVE QueueOK(q)
      BY DEF QueuesOK
    <2>1. Queued({}, q, nextOrder)
      BY FS_EmptySet DEF Queued
    <2>2. pending[q] = <<>> /\ live[q] = {} /\ \A k \in Savers : snap[k][q] = <<>>
      BY <1>1
    <2> QED  BY <1>3, <2>1, <2>2, ListedEmpty DEF QueueOK
  <1>6. BatchInv
    <2>1. BatchOK
      BY <1>1 DEF BatchOK
    <2> QED  BY <1>1, <2>1 DEF BatchInv
  <1>7. SavesInv /\ FinalInv /\ UnloadingInv
    BY <1>1 DEF SavesInv, FinalInv, UnloadingInv
  <1>8. DiskInv
    BY <1>2, QueueFacts DEF DiskInv, CleanIsSaved
  <1>9. KeptInv
    <2> SUFFICES ASSUME NEW id \in owed PROVE Kept(id)
      BY DEF KeptInv
    <2>1. PICK c \in Chunks : id \in IdsOf(disk[<<c, "block">>])
      BY <1>3
    <2>2. <<c, "block">> \in Queues /\ <<c, "block">>[1] = c /\ lifecycle[c] = "finalized"
      BY <1>3, QueueFacts, KindsFacts
    <2> QED  BY <2>1, <2>2 DEF Kept
  <1> QED  BY <1>4, <1>5, <1>6, <1>7, <1>8, <1>9 DEF OwedInv

(* No accepted tick is lost before it starts: whatever saves, collections, *)
(* schedule calls, unpackings and unloads interleave, it stays in its      *)
(* chunk's queues, in the batch, or, once the chunk is unloaded, in the    *)
(* last list saved of it.  Saves of one chunk may overlap and fail; the    *)
(* exception is a chunk that is unloaded clean after the write of an older *)
(* save has landed on that of the newest one.                              *)
THEOREM NoOwedTickIsLost ==
    ASSUME NEW lists
    PROVE  (NewWorld \/ SavedWorld(lists)) /\ [][TickNext]_tickVars => []OwedTicksAreKept
  <1>1. OwedInv => OwedTicksAreKept
    <2> SUFFICES ASSUME KeptInv, NEW id \in owed \ lost
                 PROVE  \/ \E q \in Queues :
                             \/ \E t \in ToSet(pending[q]) \cup live[q] : t.id = id
                             \/ lifecycle[q[1]] = "finalized" /\ \E t \in ToSet(disk[q]) : t.id = id
                        \/ \E i \in DOMAIN batch : batch[i].id = id
      BY DEF OwedInv, OwedTicksAreKept
    <2>1. ASSUME NEW s, id \in IdsOf(s) PROVE \E t \in ToSet(s) : t.id = id
      BY <2>1 DEF IdsOf, ToSet
    <2>2. Kept(id)
      BY DEF KeptInv
    <2>3. CASE \E q \in Queues : id \in Ids(q)
      <3>1. PICK q \in Queues : id \in IdsOf(pending[q]) \/ id \in LiveIds(live[q])
        BY <2>3 DEF Ids
      <3>2. \E t \in ToSet(pending[q]) \cup live[q] : t.id = id
        BY <2>1, <3>1 DEF LiveIds
      <3> QED  BY <3>2
    <2>4. CASE \E q \in Queues : lifecycle[q[1]] = "finalized" /\ id \in IdsOf(disk[q])
      BY <2>1, <2>4
    <2>5. CASE id \in IdsOf(batch)
      BY <2>5 DEF IdsOf
    <2> QED  BY <2>2, <2>3, <2>4, <2>5 DEF Kept
  <1>2. NewWorld \/ SavedWorld(lists) => IndexInv /\ UnloadingInv /\ OwedInv
    BY IndexInit, OwedInit
  <1>3. IndexInv /\ UnloadingInv /\ [TickNext]_tickVars => UnloadingInv'
    BY UnloadingStep
  <1> QED  BY <1>1, <1>2, <1>3, IndexStep, OwedStep, PTL

-----------------------------------------------------------------------------
(* The reference collection.  NextOf is NextChoice with the ticking chunks *)
(* as a parameter.                                                         *)
Elements(act) == {act[i] : i \in DOMAIN act}
Place(act, c) == CHOOSE i \in DOMAIN act : act[i] = c
Waiting(act, v) == {c \in Elements(act) : v.left[c] # <<>>}
Leading(act, v) == {c \in Waiting(act, v) : \A d \in Waiting(act, v) :
                       IntraTickOrder(Head(v.left[c]), Head(v.left[d]))}
AtHand(v, c) == v.taken # <<>> /\ Last(v.taken).key.chunk = c
FirstOf(act, S) == CHOOSE c \in S : \A d \in S : Place(act, c) <= Place(act, d)
TakenFrom(v, c) == [taken |-> Append(v.taken, Head(v.left[c])),
                    left |-> [v.left EXCEPT ![c] = Tail(@)]]
Pool(act, v) ==
    LET same == {c \in Leading(act, v) : AtHand(v, c)}
    IN  IF same = {} THEN Leading(act, v) ELSE same
NextOf(act, v) ==
    IF Waiting(act, v) = {} THEN v ELSE TakenFrom(v, FirstOf(act, Pool(act, v)))

LEMMA NextChoiceIs == \A v : NextChoice(v) = NextOf(active, v)
  BY Zenon DEF NextChoice, NextOf, Pool, TakenFrom, FirstOf, AtHand, Leading, Waiting, Place,
               Elements, ActiveSet, Rank

(* What the next choice is, for a queue that leads and is at hand, or      *)
(* leads, comes first, and no leading queue is at hand.                    *)
LEMMA NextIs ==
    ASSUME NEW act, DOMAIN act \subseteq Int, NEW v, NEW c \in Leading(act, v),
           AtHand(v, c) \/ \A d \in Leading(act, v) \ {c} :
                               ~ AtHand(v, d) /\ Place(act, c) < Place(act, d)
    PROVE  NextOf(act, v) = TakenFrom(v, c)
  <1> DEFINE lead == Leading(act, v)
             same == {d \in lead : AtHand(v, d)}
             among == IF same = {} THEN lead ELSE same
  <1>1. lead \subseteq Elements(act) /\ c \in lead /\ Waiting(act, v) # {}
    BY DEF Leading, Waiting
  <1>2. ASSUME NEW d \in Elements(act) PROVE Place(act, d) \in Int
    BY DEF Elements, Place
  <1>3. \A d, e : AtHand(v, d) /\ AtHand(v, e) => d = e
    BY DEF AtHand
  <1>4. Pool(act, v) = among
    BY DEF Pool
  <1> HIDE DEF lead
  <1>5. c \in among /\ \A d \in among : d \in Elements(act) /\ (d # c => Place(act, c) < Place(act, d))
    <2>1. CASE AtHand(v, c)
      <3>1. same = {c}
        BY <1>1, <1>3, <2>1
      <3> QED  BY <1>1, <3>1
    <2>2. CASE ~ AtHand(v, c)
      <3>1. \A d \in lead \ {c} : ~ AtHand(v, d) /\ Place(act, c) < Place(act, d)
        BY <2>2 DEF lead
      <3>2. same = {}
        BY <2>2, <3>1
      <3> QED  BY <1>1, <3>1, <3>2
    <2> QED  BY <2>1, <2>2
  <1> HIDE DEF among, same
  <1>6. FirstOf(act, among) = c
    <2>1. \A d \in among : Place(act, c) <= Place(act, d)
      BY <1>2, <1>5
    <2>2. ASSUME NEW e \in among, \A d \in among : Place(act, e) <= Place(act, d) PROVE e = c
      <3>1. Place(act, e) <= Place(act, c) /\ Place(act, e) \in Int /\ Place(act, c) \in Int
        BY <1>2, <1>5, <2>2
      <3> QED  BY <1>5, <3>1
    <2> HIDE DEF Place
    <2> QED  BY <1>5, <2>1, <2>2 DEF FirstOf
  <1> QED  BY <1>1, <1>4, <1>6 DEF NextOf

(* The recursion of Choosing.                                              *)
Follows(f, act) == \A n \in 1 .. MaxPerTick : f[n] = NextOf(act, f[n - 1])

LEMMA ChoosingUnfolds ==
    ASSUME NEW k
    PROVE  /\ Choosing(k)[0] = [taken |-> <<>>, left |-> [c \in ActiveSet |-> Due(c, k)]]
           /\ Follows(Choosing(k), active)
  <1> DEFINE N == MaxPerTick
             a == [taken |-> <<>>, left |-> [c \in ActiveSet |-> Due(c, k)]]
             Rec(f, m) == f = [n \in 0 .. m |-> IF n = 0 THEN a ELSE NextChoice(f[n - 1])]
             G == {m \in 0 .. N : \E f : Rec(f, m)}
  <1>0. N \in Nat
    BY TickConstants
  <1>1. Choosing(k) = CHOOSE f : Rec(f, N)
    BY DEF Choosing
  <1> HIDE DEF a, N
  <1>2. 0 \in G
    <2> DEFINE f == [n \in 0 .. 0 |-> a]
    <2>1. Rec(f, 0)
      OBVIOUS
    <2>2. 0 \in 0 .. N
      BY <1>0
    <2> HIDE DEF f
    <2> QED  BY <2>1, <2>2
  <1>3. ASSUME NEW m \in 0 .. (N - 1), m \in G PROVE m + 1 \in G
    <2>1. PICK f : Rec(f, m)
      BY <1>3
    <2> DEFINE h == [n \in 0 .. (m + 1) |-> IF n <= m THEN f[n] ELSE NextChoice(f[m])]
    <2>2. \A n \in 0 .. m : f[n] = IF n = 0 THEN a ELSE NextChoice(f[n - 1])
      <3> HIDE DEF NextChoice
      <3> QED  BY <2>1
    <2>3. ASSUME NEW n \in 0 .. (m + 1) PROVE h[n] = IF n = 0 THEN a ELSE NextChoice(h[n - 1])
      <3> HIDE DEF NextChoice
      <3>1. CASE n = 0
        BY <1>0, <2>2, <3>1
      <3>2. CASE n \in 1 .. m
        BY <1>0, <2>2, <3>2
      <3>3. CASE n = m + 1
        BY <1>0, <3>3
      <3> QED  BY <1>0, <3>1, <3>2, <3>3
    <2>4. h = [n \in 0 .. (m + 1) |-> h[n]]
      OBVIOUS
    <2> HIDE DEF h
    <2>5. Rec(h, m + 1)
      BY <2>3, <2>4
    <2>6. m + 1 \in 0 .. N
      BY <1>0
    <2> QED  BY <2>5, <2>6
  <1>4. N \in G
    <2> HIDE DEF G
    <2> QED  BY <1>0, <1>2, <1>3, UpTo
  <1>5. Rec(Choosing(k), N)
    BY <1>1, <1>4
  <1> DEFINE f == Choosing(k)
  <1> HIDE DEF f
  <1>6. f = [n \in 0 .. N |-> IF n = 0 THEN a ELSE NextChoice(f[n - 1])]
    BY <1>5 DEF f
  <1> HIDE DEF Rec, G
  <1>7. f[0] = a /\ \A n \in 1 .. N : f[n] = NextChoice(f[n - 1])
    BY <1>0, <1>6
  <1> QED  BY <1>7, NextChoiceIs DEF Follows, f, a, N

(* When nothing waits, nothing more is chosen.                             *)
LEMMA ChoicesEnd ==
    ASSUME NEW act, NEW f, Follows(f, act), NEW b \in 0 .. MaxPerTick, Waiting(act, f[b]) = {}
    PROVE  f[MaxPerTick] = f[b]
  <1> DEFINE M == MaxPerTick - b
             G == {j \in 0 .. M : f[b + j] = f[b]}
  <1>0. MaxPerTick \in Nat /\ M \in Nat /\ b + M = MaxPerTick /\ b \in Nat
    BY TickConstants
  <1>1. 0 \in G
    BY <1>0
  <1>2. ASSUME NEW j \in 0 .. (M - 1), j \in G PROVE j + 1 \in G
    <2>1. b + (j + 1) \in 1 .. MaxPerTick /\ (b + (j + 1)) - 1 = b + j /\ j + 1 \in 0 .. M
      BY <1>0
    <2>2. f[b + (j + 1)] = NextOf(act, f[b + j])
      BY <2>1 DEF Follows
    <2>3. f[b + j] = f[b] /\ NextOf(act, f[b]) = f[b]
      BY <1>2 DEF NextOf
    <2> QED  BY <2>1, <2>2, <2>3
  <1> HIDE DEF M
  <1>3. M \in G
    <2> HIDE DEF G
    <2> QED  BY <1>0, <1>1, <1>2, UpTo
  <1> QED  BY <1>0, <1>3

-----------------------------------------------------------------------------
(* A run taken off a list, one by one.                                     *)
LEMMA DropFacts ==
    ASSUME NEW S, NEW s \in Seq(S), NEW j \in 0 .. Len(s)
    PROVE  /\ SubSeq(s, j + 1, Len(s)) \in Seq(S)
           /\ Len(SubSeq(s, j + 1, Len(s))) = Len(s) - j
           /\ \A i \in 1 .. (Len(s) - j) : SubSeq(s, j + 1, Len(s))[i] = s[j + i]
           /\ SubSeq(s, j + 1, Len(s)) # <<>> <=> j < Len(s)
           /\ j < Len(s) => /\ Head(SubSeq(s, j + 1, Len(s))) = s[j + 1]
                            /\ Tail(SubSeq(s, j + 1, Len(s))) = SubSeq(s, (j + 1) + 1, Len(s))
  <1> DEFINE d == SubSeq(s, j + 1, Len(s))
             n == Len(s)
  <1>1. n \in Nat /\ j \in Nat /\ j <= n
    OBVIOUS
  <1>2. d = [i \in 1 .. (n - j) |-> s[j + i]]
    OBVIOUS
  <1>3. \A i \in 1 .. (n - j) : j + i \in 1 .. n /\ s[j + i] \in S
    OBVIOUS
  <1>4. d \in Seq(S) /\ Len(d) = n - j /\ \A i \in 1 .. (n - j) : d[i] = s[j + i]
    BY <1>1, <1>2, <1>3
  <1> HIDE DEF d
  <1>5. d # <<>> <=> j < n
    BY <1>1, <1>4
  <1>6. ASSUME j < n PROVE Head(d) = s[j + 1] /\ Tail(d) = SubSeq(s, (j + 1) + 1, n)
    <2> DEFINE k == n - j
               u == Tail(d)
               w == SubSeq(s, (j + 1) + 1, n)
    <2>1. k \in Nat /\ k > 0 /\ d \in Seq(S) /\ Len(d) = k
      BY <1>1, <1>4, <1>6
    <2>2. \A i \in 1 .. k : d[i] = s[j + i]
      BY <1>4
    <2>3. w = [i \in 1 .. (n - (j + 1)) |-> s[(j + 1) + i]]
      BY <1>1, <1>6
    <2>4. n - (j + 1) = k - 1 /\ \A i \in 1 .. (k - 1) : i + 1 \in 1 .. k /\ j + (i + 1) = (j + 1) + i
      BY <1>1, <1>6
    <2>5. \A i \in 1 .. (k - 1) : s[(j + 1) + i] \in S
      BY <1>1, <1>6
    <2> HIDE DEF k, w
    <2>6. w \in Seq(S) /\ Len(w) = k - 1 /\ \A i \in 1 .. (k - 1) : w[i] = s[(j + 1) + i]
      BY <2>1, <2>3, <2>4, <2>5
    <2>7. Head(d) = d[1] /\ u \in Seq(S) /\ Len(u) = k - 1 /\ \A i \in 1 .. (k - 1) : u[i] = d[i + 1]
      BY <2>1
    <2> HIDE DEF u
    <2>8. \A i \in 1 .. (k - 1) : u[i] = w[i]
      BY <2>2, <2>4, <2>6, <2>7
    <2>9. u = w
      BY <2>6, <2>7, <2>8
    <2>10. Head(d) = s[j + 1]
      BY <2>1, <2>2, <2>7
    <2> QED  BY <2>9, <2>10 DEF u, w
  <1> QED  BY <1>4, <1>5, <1>6 DEF d

LEMMA TakeFacts ==
    ASSUME NEW T, NEW t \in Seq(T), NEW s \in Seq(T), NEW j \in 0 .. (Len(s) - 1)
    PROVE  /\ Append(t \o SubSeq(s, 1, j), s[j + 1]) = t \o SubSeq(s, 1, j + 1)
           /\ j > 0 => /\ t \o SubSeq(s, 1, j) # <<>>
                       /\ Last(t \o SubSeq(s, 1, j)) = s[j]
  <1> DEFINE p == SubSeq(s, 1, j)
             q == SubSeq(s, 1, j + 1)
             m == Len(t)
  <1>1. m \in Nat /\ Len(s) \in Nat /\ j \in Nat /\ j < Len(s)
    OBVIOUS
  <1>2. p \in Seq(T) /\ Len(p) = j /\ \A i \in 1 .. j : p[i] = s[i]
    BY <1>1
  <1>3. q \in Seq(T) /\ Len(q) = j + 1 /\ \A i \in 1 .. (j + 1) : q[i] = s[i]
    BY <1>1
  <1>4. s[j + 1] \in T
    BY <1>1
  <1> HIDE DEF p, q, m
  <1>5. /\ t \o p \in Seq(T) /\ Len(t \o p) = m + j
        /\ \A i \in 1 .. m : (t \o p)[i] = t[i]
        /\ \A i \in 1 .. j : (t \o p)[m + i] = p[i]
    BY <1>2 DEF m
  <1>6. /\ t \o q \in Seq(T) /\ Len(t \o q) = m + (j + 1)
        /\ \A i \in 1 .. m : (t \o q)[i] = t[i]
        /\ \A i \in 1 .. (j + 1) : (t \o q)[m + i] = q[i]
    BY <1>3 DEF m
  <1> DEFINE x == t \o p
             y == t \o q
             z == Append(x, s[j + 1])
  <1>7. z \in Seq(T) /\ Len(z) = (m + j) + 1 /\ (\A i \in 1 .. (m + j) : z[i] = x[i]) /\ z[(m + j) + 1] = s[j + 1]
    <2> HIDE DEF x
    <2>1. x \in Seq(T) /\ Len(x) = m + j
      BY <1>5 DEF x
    <2> QED  BY <1>4, <2>1
  <1>8. ASSUME NEW i \in 1 .. ((m + j) + 1) PROVE z[i] = y[i]
    <2> HIDE DEF z
    <2>1. CASE i \in 1 .. m
      <3>1. i \in 1 .. (m + j)
        BY <1>1, <2>1
      <3> QED  BY <1>5, <1>6, <1>7, <2>1, <3>1
    <2>2. CASE i \in (m + 1) .. (m + j)
      <3>1. i - m \in 1 .. j /\ i - m \in 1 .. (j + 1) /\ m + (i - m) = i /\ i \in 1 .. (m + j)
        BY <1>1, <2>2
      <3>2. x[i] = p[i - m] /\ y[i] = q[i - m] /\ z[i] = x[i]
        BY <1>5, <1>6, <1>7, <3>1
      <3> QED  BY <1>2, <1>3, <3>1, <3>2
    <2>3. CASE i = (m + j) + 1
      <3>1. j + 1 \in 1 .. (j + 1) /\ m + (j + 1) = i
        BY <1>1, <2>3
      <3>2. y[i] = q[j + 1] /\ q[j + 1] = s[j + 1]
        BY <1>3, <1>6, <3>1
      <3> QED  BY <1>7, <2>3, <3>2
    <2>4. i \in 1 .. m \/ i \in (m + 1) .. (m + j) \/ i = (m + j) + 1
      BY <1>1
    <2> QED  BY <2>1, <2>2, <2>3, <2>4
  <1>9. z = y
    <2> HIDE DEF z, y
    <2>1. y \in Seq(T) /\ Len(y) = (m + j) + 1
      BY <1>1, <1>6 DEF y
    <2> QED  BY <1>7, <1>8, <2>1
  <1>10. j > 0 => x # <<>> /\ Last(x) = s[j]
    <2> SUFFICES ASSUME j > 0 PROVE x # <<>> /\ Last(x) = s[j]
      OBVIOUS
    <2>1. x \in Seq(T) /\ Len(x) = m + j /\ x[m + j] = s[j]
      BY <1>1, <1>2, <1>5
    <2> HIDE DEF x
    <2>2. x # <<>>
      BY <1>1, <2>1
    <2> QED  BY <2>1, <2>2 DEF Last
  <1> QED  BY <1>9, <1>10 DEF p, q

(* The heads come off a queue in its order: what a turn leaves of the due  *)
(* part is the rest of the list.                                           *)
LEMMA RestIsSorted ==
    ASSUME NEW S, NEW q, NEW n, Queued(S, q, n), NEW r \in 0 .. Len(Sorted(S)),
           NEW R, R = S \ {Sorted(S)[i] : i \in 1 .. r}
    PROVE  Sorted(R) = SubSeq(Sorted(S), r + 1, Len(Sorted(S)))
  <1> DEFINE s == Sorted(S)
             N == Cardinality(S)
             d == SubSeq(s, r + 1, Len(s))
  <1>1. N \in Nat /\ Enumerates(s, Drains(S), S) /\ s = [i \in 1 .. N |-> s[i]]
    BY SortedEnumerates
  <1>2. Orders(Drains(S), S)
    BY DrainsOrders
  <1> HIDE DEF s, N
  <1>3. /\ s \in [1 .. N -> S] /\ \A x \in S : \E i \in 1 .. N : s[i] = x
        /\ \A i, j \in 1 .. N : i < j => <<s[i], s[j]>> \in Drains(S)
    BY <1>1 DEF Enumerates
  <1>4. s \in Seq(S) /\ Len(s) = N
    BY <1>1, <1>3
  <1>5. r \in Nat /\ r <= N
    BY <1>1, <1>4 DEF s
  <1>6. d \in Seq(S) /\ Len(d) = N - r /\ \A i \in 1 .. (N - r) : d[i] = s[r + i]
    <2>1. r \in 0 .. Len(s)
      BY <1>4, <1>5, <1>1
    <2> QED  BY <1>4, <2>1, DropFacts
  <1> HIDE DEF d
  <1>7. \A i, j \in 1 .. N : s[i] = s[j] => i = j
    <2> SUFFICES ASSUME NEW i \in 1 .. N, NEW j \in 1 .. N, s[i] = s[j], i # j PROVE FALSE
      OBVIOUS
    <2>1. s[i] \in S /\ (<<s[i], s[j]>> \in Drains(S) \/ <<s[j], s[i]>> \in Drains(S))
      BY <1>1, <1>3
    <2> QED  BY <1>2, <2>1 DEF Orders
  <1>8. R = {s[i] : i \in (r + 1) .. N}
    <2>1. R = S \ {s[i] : i \in 1 .. r}
      BY DEF s
    <2>2. ASSUME NEW x \in R PROVE x \in {s[i] : i \in (r + 1) .. N}
      <3>1. PICK i \in 1 .. N : s[i] = x
        BY <1>3, <2>1
      <3>2. i \notin 1 .. r
        BY <2>1, <3>1
      <3>3. i \in (r + 1) .. N
        BY <1>1, <1>5, <3>2
      <3> QED  BY <3>1, <3>3
    <2>3. ASSUME NEW i \in (r + 1) .. N PROVE s[i] \in R
      <3>1. i \in 1 .. N /\ s[i] \in S /\ \A j \in 1 .. r : j \in 1 .. N /\ j # i
        BY <1>1, <1>3, <1>5
      <3> QED  BY <1>7, <2>1, <3>1
    <2> QED  BY <2>2, <2>3
  <1>9. Queued(R, q, n) /\ R \subseteq S
    <2>1. R \subseteq S /\ IsFiniteSet(R)
      BY FS_Subset DEF Queued
    <2> QED  BY <2>1 DEF Queued
  <1>10. /\ Cardinality(R) \in Nat /\ Enumerates(Sorted(R), Drains(R), R)
         /\ Orders(Drains(R), R)
    BY <1>9, SortedEnumerates, DrainsOrders
  <1>11. Cardinality(R) = N - r
    <2> DEFINE g == [i \in 1 .. (N - r) |-> s[r + i]]
    <2>1. \A i \in 1 .. (N - r) : r + i \in (r + 1) .. N /\ r + i \in 1 .. N
      BY <1>1, <1>5
    <2>2. \A i \in (r + 1) .. N : i - r \in 1 .. (N - r) /\ r + (i - r) = i
      BY <1>1, <1>5
    <2>3. g \in [1 .. (N - r) -> R] /\ \A i \in 1 .. (N - r) : g[i] = s[r + i]
      BY <1>8, <2>1
    <2> HIDE DEF g
    <2>4. \A x \in R : \E i \in 1 .. (N - r) : g[i] = x
      <3> SUFFICES ASSUME NEW x \in R PROVE \E i \in 1 .. (N - r) : g[i] = x
        OBVIOUS
      <3>1. PICK i \in (r + 1) .. N : x = s[i]
        BY <1>8
      <3>2. g[i - r] = x /\ i - r \in 1 .. (N - r)
        BY <2>2, <2>3, <3>1
      <3> QED  BY <3>2
    <2>5. \A i, j \in 1 .. (N - r) : g[i] = g[j] => i = j
      <3> SUFFICES ASSUME NEW i \in 1 .. (N - r), NEW j \in 1 .. (N - r), g[i] = g[j] PROVE i = j
        OBVIOUS
      <3>1. r + i = r + j
        BY <1>7, <2>1, <2>3
      <3> QED  BY <1>1, <1>5, <3>1
    <2>6. g \in Bijection(1 .. (N - r), R)
      <3>1. PICK D : D = 1 .. (N - r)
        OBVIOUS
      <3>2. g \in [D -> R] /\ (\A x \in R : \E i \in D : g[i] = x) /\ (\A i, j \in D : g[i] = g[j] => i = j)
        BY <2>3, <2>4, <2>5, <3>1
      <3>3. g \in Bijection(D, R)
        BY <3>2 DEF Bijection, Injection, Surjection, IsInjective
      <3> QED  BY <3>1, <3>3
    <2>7. N - r \in Nat
      BY <1>1, <1>5
    <2>8. ExistsBijection(1 .. (N - r), R)
      BY <2>6 DEF ExistsBijection
    <2> QED  BY <2>7, <2>8, <1>9, FS_CountingElements, FS_Bijection
  <1>12. Enumerates(d, Drains(R), R)
    <2>0. \A i \in 1 .. (N - r) : r + i \in (r + 1) .. N /\ r + i \in 1 .. N
      BY <1>1, <1>5
    <2>1. \A i \in 1 .. (N - r) : r + i \in 1 .. N /\ d[i] = s[r + i] /\ d[i] \in R
      BY <1>6, <1>8, <2>0
    <2>2. d \in [1 .. (N - r) -> R]
      <3>1. PICK k \in Nat : k = N - r
        BY <1>1, <1>5
      <3>2. d = [i \in 1 .. k |-> d[i]]
        BY <1>6, <3>1
      <3> QED  BY <2>1, <3>1, <3>2
    <2>3. ASSUME NEW x \in R PROVE \E i \in 1 .. (N - r) : d[i] = x
      <3>1. PICK i \in (r + 1) .. N : x = s[i]
        BY <1>8
      <3>2. i - r \in 1 .. (N - r) /\ r + (i - r) = i
        BY <1>1, <1>5
      <3> QED  BY <1>6, <3>1, <3>2
    <2>4. ASSUME NEW i \in 1 .. (N - r), NEW j \in 1 .. (N - r), i < j PROVE <<d[i], d[j]>> \in Drains(R)
      <3>1. r + i < r + j
        BY <1>1, <1>5, <2>4
      <3>2. <<d[i], d[j]>> \in Drains(S)
        BY <1>3, <2>1, <3>1
      <3> QED  BY <2>1, <3>2 DEF Drains
    <2> QED  BY <1>11, <2>2, <2>3, <2>4 DEF Enumerates
  <1>13. Sorted(R) = d
    BY <1>10, <1>12, OneEnumeration
  <1> QED  BY <1>13 DEF d, s

-----------------------------------------------------------------------------
(* A collection on the track of the reference: what it has so far and what *)
(* is left is a stage of the choosing that ends in the plan; the chunks it *)
(* did not take have nothing due; and the queue it took from last cannot   *)
(* go on unless the batch is full.                                         *)
CurrentChoice == [taken |-> batch, left |-> [c \in ActiveSet |-> Due(c, kind)]]
OnTrack ==
    \E f : Follows(f, active) /\ f[Len(batch)] = CurrentChoice /\ f[MaxPerTick].taken = plan
RestIdle == \A c \in ActiveSet \ taken : Due(c, kind) = <<>>
CannotGoOn(c) ==
    c \in Ready => \E d \in Ready : ~ IntraTickOrder(Head(Due(c, kind)), Head(Due(d, kind)))
CutOff == Len(batch) \in 1 .. (MaxPerTick - 1) => CannotGoOn(batch[Len(batch)].key.chunk)

CollectInv ==
    /\ DOMAIN active \subseteq Int
    /\ step = "drain" => OnTrack /\ RestIdle /\ CutOff /\ Len(batch) <= MaxPerTick
    /\ step \in {"drained", "marked", "run"} => batch = plan

(* What the reference has chosen after j ticks of a run of c.              *)
AfterRun(c, j) ==
    [taken |-> batch \o SubSeq(Due(c, kind), 1, j),
     left |-> [d \in ActiveSet |-> IF d = c THEN SubSeq(Due(c, kind), j + 1, Len(Due(c, kind)))
                                   ELSE Due(d, kind)]]

LEMMA ChoiceInRun ==
    ASSUME IndexInv, OwedInv, step = "drain", DOMAIN active \subseteq Int, RestIdle, CutOff,
           NEW c \in Ready, Best(c), Len(batch) < MaxPerTick, NEW j \in 0 .. (RunLength(c) - 1)
    PROVE  NextOf(active, AfterRun(c, j)) = AfterRun(c, j + 1)
  <1> DEFINE due == Due(c, kind)
             A == ActiveSet
             r == RunLength(c)
             v == AfterRun(c, j)
             S == DueSet(c)
             T == S \cup {batch[i] : i \in 1 .. Len(batch)}
  <1>1. /\ A \subseteq Chunks /\ taken \subseteq A /\ kind \in Kinds /\ c \in taken /\ Elements(active) = A
    BY DEF IndexInv, Shapes, TakenTick, Ready, Elements, ActiveSet
  <1>2. \A d \in Chunks : Queued(live[<<d, kind>>], <<d, kind>>, nextOrder)
    BY <1>1, QueueFacts DEF OwedInv, QueuesOK, QueueOK
  <1>3. /\ Queued(S, <<c, kind>>, nextOrder) /\ due \in Seq(S) /\ Len(due) \in Nat
        /\ (due # <<>> <=> Len(due) > 0)
    BY <1>1, <1>2, DueFacts
  <1>4. Len(batch) \in Nat /\ batch = [i \in 1 .. Len(batch) |-> batch[i]] /\ MaxPerTick \in Nat
    BY TickConstants DEF OwedInv, BatchInv, BatchOK
  <1>5. r \in 1 .. Len(due) /\ \A i \in 2 .. r : GoesOn(c, i)
    BY <1>1, <1>2, <1>4, RunLengthFacts
  <1>6. /\ j \in Nat /\ j \in 0 .. (Len(due) - 1) /\ j \in 0 .. Len(due) /\ j < Len(due)
        /\ j + 1 \in 1 .. Len(due) /\ j < r
    BY <1>3, <1>5
  <1>7. \A t \in S : t.priority \in Int /\ t.order \in Int /\ t.key.chunk = c
    BY <1>3, QueuedTyped DEF QueueOf
  <1> HIDE DEF S, r
  <1>8. due \in Seq(T) /\ batch \in Seq(T)
    <2> HIDE DEF due
    <2> QED  BY <1>3, <1>4
  <1>9. /\ Append(batch \o SubSeq(due, 1, j), due[j + 1]) = batch \o SubSeq(due, 1, j + 1)
        /\ j > 0 => /\ batch \o SubSeq(due, 1, j) # <<>>
                    /\ Last(batch \o SubSeq(due, 1, j)) = due[j]
    <2> HIDE DEF T, due
    <2> QED  BY <1>6, <1>8, TakeFacts
  <1>10. /\ SubSeq(due, j + 1, Len(due)) # <<>> /\ Head(SubSeq(due, j + 1, Len(due))) = due[j + 1]
         /\ Tail(SubSeq(due, j + 1, Len(due))) = SubSeq(due, (j + 1) + 1, Len(due))
    <2> HIDE DEF due
    <2> QED  BY <1>3, <1>6, DropFacts
  <1>11. /\ v.taken = batch \o SubSeq(due, 1, j)
         /\ v.left = [d \in A |-> IF d = c THEN SubSeq(due, j + 1, Len(due)) ELSE Due(d, kind)]
         /\ AfterRun(c, j + 1) =
              [taken |-> batch \o SubSeq(due, 1, j + 1),
               left |-> [d \in A |-> IF d = c THEN SubSeq(due, (j + 1) + 1, Len(due)) ELSE Due(d, kind)]]
    BY Zenon DEF AfterRun
  <1> HIDE DEF v
  <1>12. /\ c \in A /\ v.left[c] # <<>> /\ Head(v.left[c]) = due[j + 1]
         /\ Tail(v.left[c]) = SubSeq(due, (j + 1) + 1, Len(due))
         /\ \A d \in A \ {c} : v.left[d] = Due(d, kind)
    <2> HIDE DEF due, A
    <2> QED  BY <1>1, <1>10, <1>11
  <1>13. \A d \in A : d # c /\ v.left[d] # <<>> => d \in Ready \ {c}
    BY <1>12 DEF RestIdle, Ready
  <1>14. \A d \in Ready : d \in Waiting(active, v)
    BY <1>1, <1>12 DEF Ready, Waiting
  <1> HIDE DEF A
  <1>15. IntraTickOrder(due[j + 1], due[j + 1])
    <2> HIDE DEF due
    <2>1. due[j + 1] \in S
      BY <1>3, <1>6
    <2> QED  BY <1>7, <2>1 DEF IntraTickOrder
  <1>16. ASSUME NEW d \in Ready \ {c} PROVE IntraTickOrder(due[j + 1], Head(Due(d, kind)))
    <2>1. CASE j = 0
      <3>1. IntraTickOrder(Head(due), Head(Due(d, kind)))
        BY DEF Best
      <3> HIDE DEF due
      <3>2. Head(due) = due[j + 1]
        BY <1>3, <1>6, <2>1
      <3> QED  BY <3>1, <3>2 DEF due
    <2>2. CASE j > 0
      <3>1. j + 1 \in 2 .. r
        BY <1>3, <1>5, <1>6, <2>2
      <3> QED  BY <1>5, <3>1 DEF GoesOn
    <2> QED  BY <1>6, <2>1, <2>2
  <1> HIDE DEF due
  <1>17. c \in Leading(active, v)
    <2>1. c \in Waiting(active, v)
      BY <1>1, <1>12 DEF Waiting
    <2>2. ASSUME NEW d \in Waiting(active, v) PROVE IntraTickOrder(Head(v.left[c]), Head(v.left[d]))
      <3>1. d \in A /\ v.left[d] # <<>>
        BY <1>1 DEF Waiting
      <3>2. CASE d = c
        BY <1>12, <1>15, <3>2
      <3>3. CASE d # c
        BY <1>12, <1>13, <1>16, <3>1, <3>3
      <3> QED  BY <3>2, <3>3
    <2> QED  BY <2>1, <2>2 DEF Leading
  <1>18. CASE j > 0
    <2>1. due[j] \in S
      BY <1>3, <1>6, <1>18
    <2>2. AtHand(v, c)
      BY <1>7, <1>9, <1>11, <1>18, <2>1 DEF AtHand
    <2>3. NextOf(active, v) = TakenFrom(v, c)
      BY <1>17, <2>2, NextIs
    <2> QED  BY <1>9, <1>11, <1>12, <2>3 DEF TakenFrom, v
  <1>19. CASE j = 0
    <2>1. v.taken = batch
      <3>1. SubSeq(due, 1, j) = <<>>
        BY <1>3, <1>19
      <3> HIDE DEF T
      <3>2. batch \o <<>> = batch
        BY <1>8
      <3> QED  BY <1>11, <3>1, <3>2
    <2>2. ASSUME NEW d \in Leading(active, v) \ {c} PROVE ~ AtHand(v, d) /\ Place(active, c) < Place(active, d)
      <3>1. /\ d \in A /\ v.left[d] # <<>>
            /\ \A e \in Waiting(active, v) : IntraTickOrder(Head(v.left[d]), Head(v.left[e]))
        BY <1>1 DEF Leading, Waiting
      <3>2. d \in Ready \ {c} /\ v.left[d] = Due(d, kind)
        BY <1>12, <1>13, <3>1
      <3>3. Head(v.left[c]) = Head(due)
        BY <1>3, <1>6, <1>12, <1>19
      <3>4. IntraTickOrder(Head(Due(d, kind)), Head(due))
        BY <1>14, <3>1, <3>2, <3>3
      <3>5. Rank(c) < Rank(d)
        BY <3>2, <3>4 DEF Best, due
      <3>6. Place(active, c) < Place(active, d)
        BY <3>5 DEF Place, Rank
      <3>7. ASSUME AtHand(v, d) PROVE FALSE
        <4>1. batch # <<>> /\ batch[Len(batch)].key.chunk = d
          BY <2>1, <3>7 DEF AtHand, Last
        <4>2. Len(batch) \in 1 .. (MaxPerTick - 1)
          <5>1. Len(batch) # 0
            <6> HIDE DEF T
            <6> QED  BY <1>8, <4>1
          <5> QED  BY <1>4, <5>1
        <4>3. PICK e \in Ready : ~ IntraTickOrder(Head(Due(d, kind)), Head(Due(e, kind)))
          BY <3>2, <4>1, <4>2 DEF CutOff, CannotGoOn
        <4>4. IntraTickOrder(Head(v.left[d]), Head(v.left[e]))
          BY <1>14, <3>1
        <4>5. CASE e = c
          BY <3>2, <3>3, <4>3, <4>4, <4>5 DEF due
        <4>6. CASE e # c
          <5>1. v.left[e] = Due(e, kind)
            BY <1>1, <1>12, <4>6 DEF Ready
          <5> QED  BY <3>2, <4>3, <4>4, <5>1
        <4> QED  BY <4>5, <4>6
      <3> QED  BY <3>6, <3>7
    <2>3. NextOf(active, v) = TakenFrom(v, c)
      BY <1>17, <2>2, NextIs
    <2> QED  BY <1>9, <1>11, <1>12, <2>3 DEF TakenFrom, v
  <1> QED  BY <1>6, <1>18, <1>19

LEMMA RunIsChosen ==
    ASSUME IndexInv, OwedInv, step = "drain", DOMAIN active \subseteq Int, RestIdle, CutOff,
           NEW c \in Ready, Best(c), Len(batch) < MaxPerTick,
           NEW f, Follows(f, active), f[Len(batch)] = CurrentChoice
    PROVE  f[Len(batch) + RunLength(c)] = AfterRun(c, RunLength(c))
  <1> DEFINE r == RunLength(c)
             b == Len(batch)
             G == {j \in 0 .. r : f[b + j] = AfterRun(c, j)}
             due == Due(c, kind)
             S == DueSet(c)
  <1>1. c \in Chunks /\ kind \in Kinds
    BY DEF IndexInv, Shapes, TakenTick, Ready
  <1>2. Queued(live[<<c, kind>>], <<c, kind>>, nextOrder)
    BY <1>1, QueueFacts DEF OwedInv, QueuesOK, QueueOK
  <1>3. due \in Seq(S) /\ Len(due) \in Nat
    BY <1>2, DueFacts
  <1>4. b \in Nat /\ batch = [i \in 1 .. b |-> batch[i]] /\ MaxPerTick \in Nat
    BY TickConstants DEF OwedInv, BatchInv, BatchOK
  <1>5. r \in 1 .. Len(due) /\ b + r <= MaxPerTick
    BY <1>2, <1>4, RunLengthFacts
  <1>6. r \in Nat
    BY <1>3, <1>5
  <1>7. 0 \in G
    <2>1. AfterRun(c, 0) = CurrentChoice
      <3> HIDE DEF due, S
      <3>1. SubSeq(due, 1, 0) = <<>> /\ SubSeq(due, 0 + 1, Len(due)) = due
        BY <1>3
      <3>2. batch \o <<>> = batch
        <4> DEFINE T == {batch[i] : i \in 1 .. b}
        <4>1. batch \in Seq(T)
          BY <1>4
        <4> HIDE DEF T
        <4> QED  BY <4>1
      <3>3. AfterRun(c, 0) = [taken |-> batch \o SubSeq(due, 1, 0),
                              left |-> [d \in ActiveSet |-> IF d = c THEN SubSeq(due, 0 + 1, Len(due))
                                                            ELSE Due(d, kind)]]
        BY Zenon DEF AfterRun, due
      <3>4. \A d \in ActiveSet : (IF d = c THEN due ELSE Due(d, kind)) = Due(d, kind)
        BY DEF due
      <3> QED  BY <3>1, <3>2, <3>3, <3>4 DEF CurrentChoice
    <2>2. b + 0 = b /\ 0 \in 0 .. r
      BY <1>4, <1>6
    <2> HIDE DEF b, r
    <2>3. f[b] = CurrentChoice
      BY DEF b
    <2> QED  BY <2>1, <2>2, <2>3
  <1>8. ASSUME NEW j \in 0 .. (r - 1), j \in G PROVE j + 1 \in G
    <2>1. NextOf(active, AfterRun(c, j)) = AfterRun(c, j + 1)
      BY ChoiceInRun
    <2> HIDE DEF b, r
    <2>2. b + (j + 1) \in 1 .. MaxPerTick /\ (b + (j + 1)) - 1 = b + j /\ j + 1 \in 0 .. r
      BY <1>4, <1>5, <1>6
    <2>3. f[b + (j + 1)] = NextOf(active, f[b + j])
      BY <2>2 DEF Follows
    <2>4. f[b + j] = AfterRun(c, j)
      BY <1>8
    <2> QED  BY <2>1, <2>2, <2>3, <2>4
  <1> HIDE DEF r, b
  <1>9. r \in G
    <2> HIDE DEF G
    <2>1. \A j \in 0 .. (r - 1) : j \in G => j + 1 \in G
      BY <1>8
    <2>2. \A j \in 0 .. r : j \in G
      BY <1>6, <1>7, <2>1, UpTo
    <2> QED  BY <1>6, <2>2
  <1>10. f[b + r] = AfterRun(c, r)
    BY <1>9
  <1> QED  BY <1>10 DEF b, r

LEMMA DrainTurnCollects ==
    ASSUME IndexInv, OwedInv, CollectInv, NEW c \in Chunks, DrainTurn(c)
    PROVE  CollectInv'
  <1> DEFINE due == Due(c, kind)
             r == RunLength(c)
             S == DueSet(c)
             x == <<c, kind>>
  <1>0. /\ step = "drain" /\ Len(batch) < MaxPerTick /\ c \in Ready /\ Best(c)
        /\ batch' = batch \o SubSeq(due, 1, r)
        /\ live' = [live EXCEPT ![x] = @ \ ToSet(SubSeq(due, 1, r))]
        /\ UNCHANGED <<active, step, kind, taken, plan, now>>
    BY DEF DrainTurn, index
  <1>1. /\ DOMAIN active \subseteq Int /\ OnTrack /\ RestIdle /\ CutOff
        /\ ActiveSet \subseteq Chunks /\ taken \subseteq ActiveSet /\ MapOn(live, Queues)
        /\ kind \in Kinds /\ MaxPerTick \in Nat /\ ActiveSet' = ActiveSet /\ c \in taken
    BY <1>0, TickConstants DEF CollectInv, IndexInv, Shapes, TakenTick, ActiveSet, Ready
  <1>2. /\ x \in Queues /\ Queued(live[x], x, nextOrder)
        /\ Len(batch) \in Nat /\ r \in 1 .. Len(due) /\ Len(due) \in Nat
        /\ Len(batch) + r <= MaxPerTick
        /\ ToSet(SubSeq(due, 1, r)) = {due[i] : i \in 1 .. r}
        /\ Len(batch') = Len(batch) + r
        /\ \A i \in 1 .. r : batch'[Len(batch) + i] = due[i]
    BY DrainTurnFacts
  <1>3. /\ Queued(S, x, nextOrder) /\ due \in Seq(S) /\ (due # <<>> <=> Len(due) > 0)
    BY <1>2, DueFacts
  <1>4. /\ r = Len(due) \/ Len(batch) + r = MaxPerTick \/ ~ GoesOn(c, r + 1)
    BY <1>0, <1>2, RunLengthFacts
  <1>5. ASSUME NEW d \in Chunks, d # c PROVE Due(d, kind)' = Due(d, kind)
    <2>1. <<d, kind>> \in Queues /\ <<d, kind>> # x
      BY <1>1, <1>5, QueueFacts
    <2>2. live'[<<d, kind>>] = live[<<d, kind>>]
      <3> HIDE DEF x
      <3> QED  BY <1>0, <1>1, <2>1 DEF MapOn
    <2>3. live[<<d, kind>>]' = live[<<d, kind>>]
      BY <1>0, <2>2
    <2> QED  BY <1>0, <2>3 DEF Due
  <1>6. Due(c, kind)' = SubSeq(due, r + 1, Len(due))
    <2> DEFINE R == S \ {due[i] : i \in 1 .. r}
    <2>1. live'[x] = live[x] \ {due[i] : i \in 1 .. r}
      <3> HIDE DEF x, due, r
      <3> QED  BY <1>0, <1>1, <1>2 DEF MapOn
    <2>2. live[<<c, kind>>]' = live[x] \ {due[i] : i \in 1 .. r}
      BY <1>0, <2>1
    <2>3. {t \in live[x] \ {due[i] : i \in 1 .. r} : t.trigger <= now} = R
      BY DEF DueSet
    <2>4. Due(c, kind)' = Sorted({t \in live[<<c, kind>>]' : t.trigger <= now'})
      BY Zenon DEF Due, Sorted, InOrder, DrainsBefore, IntraTickOrder
    <2>5. Due(c, kind)' = Sorted(R)
      BY <1>0, <2>2, <2>3, <2>4
    <2>6. due = Sorted(S)
      BY DEF Due, DueSet
    <2>7. r \in 0 .. Len(Sorted(S)) /\ R = S \ {Sorted(S)[i] : i \in 1 .. r}
      BY <1>2, <2>6
    <2> HIDE DEF R, r, S, x, due
    <2>8. Sorted(R) = SubSeq(Sorted(S), r + 1, Len(Sorted(S)))
      BY <1>3, <2>7, RestIsSorted
    <2> QED  BY <2>5, <2>6, <2>8
  <1>7. OnTrack'
    <2>1. PICK f : Follows(f, active) /\ f[Len(batch)] = CurrentChoice /\ f[MaxPerTick].taken = plan
      BY <1>1 DEF OnTrack
    <2>2. f[Len(batch) + r] = AfterRun(c, r)
      BY <1>0, <1>1, <2>1, RunIsChosen
    <2>3. CurrentChoice' = [taken |-> batch', left |-> [d \in ActiveSet' |-> Due(d, kind)']]
      BY Zenon DEF CurrentChoice
    <2>4. AfterRun(c, r) = [taken |-> batch \o SubSeq(due, 1, r),
                            left |-> [d \in ActiveSet |-> IF d = c THEN SubSeq(due, r + 1, Len(due))
                                                          ELSE Due(d, kind)]]
      BY Zenon DEF AfterRun
    <2>5. \A d \in ActiveSet : Due(d, kind)' = IF d = c THEN SubSeq(due, r + 1, Len(due)) ELSE Due(d, kind)
      BY <1>1, <1>5, <1>6
    <2>6. f[Len(batch')] = CurrentChoice'
      BY <1>0, <1>1, <1>2, <2>2, <2>3, <2>4, <2>5
    <2> QED  BY <1>0, <2>1, <2>6 DEF OnTrack
  <1>8. RestIdle'
    BY <1>0, <1>1, <1>5 DEF RestIdle
  <1>9. CutOff'
    <2> DEFINE e == batch'[Len(batch')].key.chunk
    <2>1. e = c
      <3>1. batch'[Len(batch')] = due[r] /\ due[r] \in S
        BY <1>2, <1>3
      <3> QED  BY <1>3, <3>1, QueuedTyped DEF QueueOf
    <2>2. ASSUME Len(batch') \in 1 .. (MaxPerTick - 1), e \in Ready'
          PROVE  \E d \in Ready' : ~ IntraTickOrder(Head(Due(c, kind)'), Head(Due(d, kind)'))
      <3>1. SubSeq(due, r + 1, Len(due)) # <<>>
        BY <1>6, <2>1, <2>2 DEF Ready
      <3>2. r < Len(due) /\ Head(SubSeq(due, r + 1, Len(due))) = due[r + 1]
        <4>1. r \in 0 .. Len(due)
          BY <1>2
        <4> HIDE DEF due, r, S
        <4> QED  BY <1>3, <3>1, <4>1, DropFacts
      <3>3. ~ GoesOn(c, r + 1)
        BY <1>1, <1>2, <1>4, <2>2, <3>2
      <3>4. PICK d \in Ready \ {c} : ~ IntraTickOrder(due[r + 1], Head(Due(d, kind)))
        BY <3>3 DEF GoesOn
      <3>5. d \in Chunks /\ d # c /\ d \in taken /\ Due(d, kind) # <<>>
        BY <1>1 DEF Ready
      <3>6. Due(d, kind)' = Due(d, kind)
        BY <1>5, <3>5
      <3>7. d \in Ready'
        BY <1>0, <3>5, <3>6 DEF Ready
      <3> QED  BY <1>6, <3>2, <3>4, <3>6, <3>7
    <2> QED  BY <2>1, <2>2 DEF CutOff, CannotGoOn
  <1>10. Len(batch') <= MaxPerTick
    BY <1>2
  <1> QED  BY <1>0, <1>1, <1>7, <1>8, <1>9, <1>10 DEF CollectInv

-----------------------------------------------------------------------------
(* The other steps.                                                        *)
LEMMA HeadIsLeast ==
    ASSUME NEW S, NEW q, NEW n, Queued(S, q, n), NEW t \in S
    PROVE  HeadOf(S) \in Int /\ HeadOf(S) <= t.trigger
  <1> DEFINE N == Cardinality(S)
             s == Sorted(S)
  <1>1. \A u \in S : u.trigger \in Int
    BY QueuedTyped
  <1>2. N \in Nat /\ Enumerates(s, Drains(S), S)
    BY SortedEnumerates
  <1> HIDE DEF N, s
  <1>3. /\ s \in [1 .. N -> S] /\ \A x \in S : \E i \in 1 .. N : s[i] = x
        /\ \A i, j \in 1 .. N : i < j => <<s[i], s[j]>> \in Drains(S)
    BY <1>2 DEF Enumerates, N
  <1>4. 1 \in 1 .. N
    BY <1>2, <1>3
  <1>5. ASSUME NEW u \in S PROVE s[1].trigger <= u.trigger
    <2>1. PICK i \in 1 .. N : s[i] = u
      BY <1>3
    <2>2. CASE i = 1
      BY <1>1, <2>1, <2>2
    <2>3. CASE i # 1
      <3>1. <<s[1], u>> \in Drains(S)
        BY <1>2, <1>3, <1>4, <2>1, <2>3
      <3>2. DrainsBefore(s[1], u)
        BY <3>1 DEF Drains
      <3>3. s[1] \in S
        BY <1>3, <1>4
      <3> QED  BY <1>1, <3>2, <3>3 DEF DrainsBefore
    <2> QED  BY <2>2, <2>3
  <1>6. \E u \in S : \A w \in S : u.trigger <= w.trigger
    BY <1>3, <1>4, <1>5
  <1>7. PICK u \in S : HeadOf(S) = u.trigger /\ \A w \in S : u.trigger <= w.trigger
    BY <1>6 DEF HeadOf
  <1> QED  BY <1>1, <1>7

LEMMA TakeDueCollects ==
    ASSUME IndexInv, OwedInv, CollectInv, TakeDue
    PROVE  CollectInv'
  <1>1. /\ step = "collect" /\ step' = "drain" /\ batch' = <<>> /\ plan' = Chosen(kind)
        /\ taken' = {d[2] : d \in {e \in deadlines[kind] : e[1] <= now}}
        /\ UNCHANGED <<active, kind, now, live>>
    BY DEF TakeDue, containers
  <1>2. /\ kind \in Kinds /\ ActiveSet \subseteq Chunks /\ ActiveSet' = ActiveSet /\ MaxPerTick \in Nat
        /\ deadlines[kind] = DeadlinesOf(ActiveSet, head, kind)
        /\ \A q \in Queues : head[q] = HeadOf(live[q])
    BY <1>1, TickConstants DEF IndexInv, Shapes, DeadlinesInv, HeadsInv, Taken, ActiveSet
  <1>3. \A c : Due(c, kind)' = Due(c, kind)
    BY <1>1 DEF Due
  <1>4. OnTrack'
    <2>1. /\ Choosing(kind)[0] = CurrentChoice'
          /\ Follows(Choosing(kind), active') /\ Choosing(kind)[MaxPerTick].taken = plan'
      <3>1. CurrentChoice' = [taken |-> batch', left |-> [c \in ActiveSet' |-> Due(c, kind)']]
        BY Zenon DEF CurrentChoice
      <3>2. Choosing(kind)[0] = [taken |-> <<>>, left |-> [c \in ActiveSet |-> Due(c, kind)]]
        BY ChoosingUnfolds
      <3>3. Follows(Choosing(kind), active)
        BY ChoosingUnfolds
      <3>4. CurrentChoice' = Choosing(kind)[0]
        BY <1>1, <1>2, <1>3, <3>1, <3>2
      <3> QED  BY <1>1, <3>3, <3>4 DEF Chosen
    <2>2. Len(batch') = 0
      BY <1>1
    <2>3. PICK f : f = Choosing(kind)
      OBVIOUS
    <2>4. Follows(f, active') /\ f[Len(batch')] = CurrentChoice' /\ f[MaxPerTick].taken = plan'
      BY <2>1, <2>2, <2>3
    <2> QED  BY <2>4 DEF OnTrack
  <1>5. RestIdle'
    <2> SUFFICES ASSUME NEW c \in ActiveSet, c \notin taken', Due(c, kind) # <<>> PROVE FALSE
      BY <1>2, <1>3 DEF RestIdle
    <2> DEFINE q == <<c, kind>>
    <2>1. q \in Queues /\ Queued(live[q], q, nextOrder)
      BY <1>2, QueueFacts DEF OwedInv, QueuesOK, QueueOK
    <2>2. Due(c, kind) \in Seq(DueSet(c)) /\ Len(Due(c, kind)) > 0 /\ Len(Due(c, kind)) \in Nat
      BY <2>1, DueFacts
    <2>3. PICK t \in DueSet(c) : TRUE
      <3> DEFINE S == DueSet(c)
                 s == Due(c, kind)
      <3> HIDE DEF S, s
      <3>1. s[1] \in S
        BY <2>2 DEF S, s
      <3> QED  BY <3>1 DEF S
    <2>4. t \in live[q] /\ t.trigger <= now
      BY DEF DueSet
    <2>5. HeadOf(live[q]) \in Int /\ HeadOf(live[q]) <= t.trigger
      BY <2>1, <2>4, HeadIsLeast
    <2>6. now \in Int /\ t.trigger \in Int
      BY <2>1, <2>4, QueuedTyped DEF OwedInv, OwedShapes
    <2>7. head[q] \in Int /\ head[q] <= now
      BY <1>2, <2>1, <2>4, <2>5, <2>6
    <2>8. head[q] # NoHead
      BY <2>7, TickConstants
    <2>9. <<head[q], c>> \in deadlines[kind]
      BY <1>2, <2>8 DEF DeadlinesOf
    <2>10. <<head[q], c>>[1] <= now /\ <<head[q], c>>[2] = c
      BY <2>7
    <2> HIDE DEF q
    <2>11. c \in taken'
      BY <1>1, <2>9, <2>10
    <2> QED  BY <2>11
  <1>6. CutOff' /\ Len(batch') <= MaxPerTick
    <2>1. Len(batch') = 0
      BY <1>1
    <2> QED  BY <1>2, <2>1 DEF CutOff
  <1> QED  BY <1>1, <1>4, <1>5, <1>6 DEF CollectInv

LEMMA EndCollectionCollects ==
    ASSUME IndexInv, OwedInv, CollectInv, EndCollection
    PROVE  CollectInv'
  <1>1. /\ step = "drain" /\ step' = "drained" /\ (Ready = {} \/ Len(batch) >= MaxPerTick)
        /\ UNCHANGED <<active, batch, plan>>
    BY DEF EndCollection
  <1>2. /\ OnTrack /\ RestIdle /\ Len(batch) <= MaxPerTick /\ MaxPerTick \in Nat /\ Len(batch) \in Nat
    BY <1>1, TickConstants DEF CollectInv, OwedInv, BatchInv, BatchOK
  <1>3. PICK f : Follows(f, active) /\ f[Len(batch)] = CurrentChoice /\ f[MaxPerTick].taken = plan
    BY <1>2 DEF OnTrack
  <1>4. CurrentChoice.taken = batch /\ \A c \in ActiveSet : CurrentChoice.left[c] = Due(c, kind)
    BY DEF CurrentChoice
  <1>5. CASE Len(batch) >= MaxPerTick
    <2>1. Len(batch) = MaxPerTick
      BY <1>2, <1>5
    <2> QED  BY <1>1, <1>3, <1>4, <2>1 DEF CollectInv
  <1>6. CASE Ready = {}
    <2>1. \A c \in ActiveSet : Due(c, kind) = <<>>
      BY <1>2, <1>6 DEF RestIdle, Ready
    <2>2. Waiting(active, f[Len(batch)]) = {}
      BY <1>3, <1>4, <2>1 DEF Waiting, Elements, ActiveSet
    <2>3. Len(batch) \in 0 .. MaxPerTick
      BY <1>2
    <2>4. f[MaxPerTick] = f[Len(batch)]
      BY <1>3, <2>2, <2>3, ChoicesEnd
    <2> QED  BY <1>1, <1>3, <1>4, <2>4 DEF CollectInv
  <1> QED  BY <1>1, <1>5, <1>6

LEMMA QuietCollects ==
    ASSUME CollectInv, UNCHANGED <<live, now, active, kind, taken, batch, plan, step>>
    PROVE  CollectInv'
  <1>1. ActiveSet' = ActiveSet /\ \A c : Due(c, kind)' = Due(c, kind)
    BY DEF ActiveSet, Due
  <1>2. Ready' = Ready
    BY <1>1 DEF Ready
  <1>3. CurrentChoice' = CurrentChoice
    <2>1. CurrentChoice' = [taken |-> batch', left |-> [c \in ActiveSet' |-> Due(c, kind)']]
      BY Zenon DEF CurrentChoice
    <2> QED  BY <1>1, <2>1 DEF CurrentChoice
  <1>4. OnTrack => OnTrack'
    BY <1>3 DEF OnTrack
  <1>5. RestIdle => RestIdle'
    BY <1>1 DEF RestIdle
  <1>6. CutOff => CutOff'
    BY <1>1, <1>2 DEF CutOff, CannotGoOn
  <1> QED  BY <1>4, <1>5, <1>6 DEF CollectInv

LEMMA FreeCollects ==
    ASSUME CollectInv, DOMAIN active' \subseteq Int, step' # "drain",
           step' \in {"drained", "marked", "run"} =>
               step \in {"drained", "marked", "run"} /\ UNCHANGED <<batch, plan>>
    PROVE  CollectInv'
  BY DEF CollectInv

LEMMA CollectStep ==
    IndexInv /\ OwedInv /\ CollectInv /\ [TickNext]_tickVars => CollectInv'
  <1> SUFFICES ASSUME IndexInv, OwedInv, CollectInv, [TickNext]_tickVars PROVE CollectInv'
    OBVIOUS
  <1>0. DOMAIN active \subseteq Int
    BY DEF CollectInv
  <1>1. CASE ChunkStep
    <2>1. ASSUME NEW c \in Chunks, NewProto(c) \/ PromoteToFull(c) \/ LoadFull(c) \/ Register(c)
                                   \/ BeginUnloading(c) \/ Revive(c)
          PROVE  CollectInv'
      BY <2>1, QuietCollects DEF NewProto, PromoteToFull, LoadFull, Register, BeginUnloading, Revive,
                                 index, game
    <2>2. ASSUME NEW c \in Chunks, Unpack(c) \/ Unregister(c) PROVE CollectInv'
      BY <1>0, <2>2, FreeCollects DEF Unpack, Unregister, PhaseFree, game
    <2>3. ASSUME NEW key \in Keys, RemovePending(key) PROVE CollectInv'
      BY <2>3, QuietCollects DEF RemovePending, index, game
    <2>4. ASSUME NEW chunks \in SetToAllKPermutations(Chunks), Reconcile(chunks) PROVE CollectInv'
      <3>1. DOMAIN chunks \subseteq Int
        <4>1. PICK S \in SUBSET Chunks : chunks \in [1 .. Cardinality(S) -> S]
          BY DEF SetToAllKPermutations, SetToSeqs
        <4>2. DOMAIN chunks = 1 .. Cardinality(S)
          BY <4>1
        <4> QED  BY <4>2
      <3> QED  BY <2>4, <3>1, FreeCollects DEF Reconcile, game
    <2> QED  BY <1>1, <2>1, <2>2, <2>3, <2>4 DEF ChunkStep
  <1>2. CASE ScheduleStep
    <2>1. ASSUME NEW key, NEW p, SchedulePending(key, p) PROVE CollectInv'
      BY <2>1, QuietCollects DEF SchedulePending, index, game
    <2>2. ASSUME NEW key, NEW delay, NEW p, Schedule(key, delay, p) PROVE CollectInv'
      BY <1>0, <2>2, FreeCollects DEF Schedule, PhaseFree, game
    <2> QED  BY <1>2, <2>1, <2>2 DEF ScheduleStep
  <1>3. CASE GameStep
    <2>1. ASSUME TickTime \/ MarkChanged \/ BeginBatch \/ EndBatch \/ \E changes \in BOOLEAN : RunTick(changes)
          PROVE  CollectInv'
      BY <1>0, <2>1, FreeCollects DEF TickTime, MarkChanged, BeginBatch, EndBatch, RunTick, index
    <2> QED  BY <1>3, <2>1, TakeDueCollects, EndCollectionCollects, DrainTurnCollects DEF GameStep
  <1>4. CASE SaveStep
    <2>1. ASSUME NEW k \in Savers, NEW c \in Chunks,
                 \/ TakeDirty(k, c) \/ Pack(k, c) \/ AddBlocks(k, c) \/ AddFluids(k, c)
                 \/ Write(k, c) \/ WriteFails(k, c)
          PROVE  CollectInv'
      BY <2>1, QuietCollects DEF TakeDirty, Pack, AddBlocks, AddFluids, Write, WriteFails, containers, index, game
    <2> QED  BY <1>4, <2>1 DEF SaveStep
  <1>5. CASE UNCHANGED tickVars
    BY <1>5, QuietCollects DEF tickVars, containers, index, game
  <1> QED  BY <1>1, <1>2, <1>3, <1>4, <1>5 DEF TickNext

(* A collection chooses what the reference chooses: the runs the code      *)
(* drains from the queues its deadline index yields, best container first, *)
(* are the ticks that repeated single choices over the queues of all       *)
(* ticking chunks give, cut off at the same limit.                         *)
THEOREM CollectionFollowsReference ==
    ASSUME NEW lists
    PROVE  (NewWorld \/ SavedWorld(lists)) /\ [][TickNext]_tickVars => []CollectsInOrder
  <1>1. CollectInv => CollectsInOrder
    BY DEF CollectInv, CollectsInOrder
  <1>2. NewWorld \/ SavedWorld(lists) => IndexInv /\ UnloadingInv /\ OwedInv
    BY IndexInit, OwedInit
  <1>3. NewWorld \/ SavedWorld(lists) => CollectInv
    BY DEF NewWorld, SavedWorld, NothingLoaded, CollectInv
  <1>4. IndexInv /\ UnloadingInv /\ [TickNext]_tickVars => UnloadingInv'
    BY UnloadingStep
  <1> QED  BY <1>1, <1>2, <1>3, <1>4, IndexStep, OwedStep, CollectStep, PTL
=============================================================================
