----------------------- MODULE ChunkGenerationProofs -----------------------
(***************************************************************************)
(* Proofs about ChunkGeneration, for any chunks, tickets and bounds and    *)
(* for any well-formed pyramid.                                            *)
(*                                                                         *)
(* A task relies on what it has seen of its square: that the statuses it   *)
(* found published stay published, and that a claim it waits for is alive. *)
(* Levels, saves, unloading and other tasks move underneath it.  GenInv    *)
(* says what holds all the same: a square that a task or a producer keeps  *)
(* is not dropped, so whatever was published in it remains; a claim and    *)
(* its producer come and go together; and a task's layers are complete up  *)
(* to the one it is at.                                                    *)
(***************************************************************************)
EXTENDS ChunkGeneration, WellFoundedInduction, TLAPS

-----------------------------------------------------------------------------
(* The pyramid, levels and distances.                                      *)

LEMMA StatusFacts ==
    /\ Full \in Nat /\ Unloaded \in Nat /\ Unloaded > 0
    /\ MaxLevel(Pyramid) \in Nat /\ Unloaded = MaxLevel(Pyramid) + 1
    /\ Chunks \subseteq Nat
  BY GenerationAssumption DEF WellFormed, Full, Unloaded

LEMMA GenerationStatusType ==
    ASSUME NEW k \in Nat
    PROVE  GenerationStatus(Pyramid, k) \in Statuses \cup {None}
  <1> DEFINE acc == Step(Pyramid, FullIndex(Pyramid)).acc
  <1>1. acc \in Seq(0 .. Full) /\ Full \in Nat
    BY GenerationAssumption DEF WellFormed, Full
  <1> HIDE DEF acc
  <1>2. k < Len(acc) => acc[k + 1] \in 0 .. Full
    BY <1>1
  <1>3. GenerationStatus(Pyramid, k) =
            IF k <= 0 THEN Full ELSE IF k < Len(acc) THEN acc[k + 1] ELSE -1
    BY DEF GenerationStatus, Full, acc
  <1> QED  BY <1>1, <1>2, <1>3 DEF Statuses, None

LEMMA AllowedType ==
    ASSUME level \in [Chunks -> 0 .. Unloaded], NEW c \in Chunks
    PROVE  Allowed(c) \in Statuses \cup {None}
  <1>1. level[c] \in Nat
    BY StatusFacts
  <1> QED  BY <1>1, GenerationStatusType DEF Allowed

LEMMA DistanceFacts ==
    ASSUME NEW a \in Nat, NEW b \in Nat, NEW c \in Nat
    PROVE  /\ Distance(a, b) \in Nat /\ Distance(a, a) = 0
           /\ Distance(a, c) <= Distance(a, b) + Distance(b, c)
  BY DEF Distance

LEMMA MinOfNaturals ==
    ASSUME NEW S, S \subseteq Nat, S # {}
    PROVE  Min(S) \in S /\ \A y \in S : Min(S) <= y
  <1> DEFINE R == OpToRel(<, Nat)
  <1>1. IsWellFoundedOn(R, Nat)
    BY NatLessThanWellFounded
  <1>2. \E x \in S : \A y \in S : ~ (<<y, x>> \in R)
    <2> HIDE DEF R
    <2> QED  BY <1>1, WFMin
  <1>3. \E x \in S : \A y \in S : x <= y
    <2>1. PICK x \in S : \A y \in S : ~ (<<y, x>> \in R)
      BY <1>2
    <2>2. ASSUME NEW y \in S PROVE x <= y
      <3>1. <<y, x>> \in Nat \X Nat
        OBVIOUS
      <3>2. ~ (y < x)
        BY <2>1, <3>1 DEF OpToRel
      <3> QED  BY <3>2
    <2> QED  BY <2>2
  <1> QED  BY <1>3 DEF Min

LEMMA LevelType ==
    ASSUME NEW T \in Tickets, NEW c \in Chunks
    PROVE  LevelAt(T, c) \in 0 .. Unloaded
  <1> DEFINE S == {Unloaded} \cup {t[2] + Distance(t[1], c) : t \in T}
  <1>1. T \subseteq Chunks \X (0 .. MaxLevel(Pyramid))
    BY GenerationAssumption
  <1>2. S \subseteq Nat
    <2>1. ASSUME NEW t \in T PROVE t[2] + Distance(t[1], c) \in Nat
      <3>1. t[1] \in Chunks /\ t[2] \in 0 .. MaxLevel(Pyramid)
        BY <1>1
      <3>2. Distance(t[1], c) \in Nat
        BY <3>1, StatusFacts, DistanceFacts
      <3> QED  BY <3>1, <3>2, StatusFacts
    <2> QED  BY <2>1, StatusFacts
  <1>3. Min(S) \in S /\ \A y \in S : Min(S) <= y
    <2>1. Unloaded \in S
      OBVIOUS
    <2> HIDE DEF S
    <2> QED  BY <1>2, <2>1, MinOfNaturals
  <1>4. Min(S) \in Nat /\ Min(S) <= Unloaded
    <2>1. Unloaded \in S
      OBVIOUS
    <2> HIDE DEF S
    <2> QED  BY <1>2, <1>3, <2>1
  <1> QED  BY <1>4, StatusFacts DEF LevelAt

-----------------------------------------------------------------------------
(* The inductive invariant.                                                *)

(* The chunks of a task's square that it brings to status `s`.             *)
Layer(k, s) == Square(k.at, LayerRadius(Pyramid, k.target, s))

(* A task is free or works for a chunk; its layer is the one scheduled.    *)
Shaped(k) ==
    \/ k = FreeTask
    \/ /\ k.at \in Chunks /\ k.target \in Statuses /\ k.scheduled <= k.target
       /\ k.pc = "pending" => k.scheduled = None
       /\ k.pc = "layer" <=> k.todo # {}
       /\ k.scheduled = None => k.todo = {} /\ \A c \in Chunks : k.future[c] = "none"
       /\ k.todo \subseteq Layer(k, k.scheduled)
       /\ \A c \in Chunks : k.future[c] # "none" => c \in Layer(k, k.scheduled)

(* What a task knows of the step it applied to a chunk is true.            *)
Answer(k, c) ==
    /\ k.future[c] = "own" => producer[c].status = k.scheduled
    /\ k.future[c] = "asleep" => producer[c].status = k.scheduled /\ published[c] < k.scheduled
    /\ k.future[c] = "ready" => published[c] >= k.scheduled

(* The layers below are published, the layer at hand is applied or to do.  *)
Driven(k) ==
    k.pc \in {"wait", "layer"} /\ ~ k.cancelled =>
        /\ \A s \in 0 .. (k.scheduled - 1) : \A c \in Layer(k, s) : published[c] >= s
        /\ k.scheduled >= 0 =>
              \A c \in Layer(k, k.scheduled) : c \in k.todo \/ k.future[c] # "none"

(* The chunks the step to status `s` needs around `c` are kept and ready.  *)
Supplied(c, s, kept) ==
    \A d \in Chunks : Distance(c, d) < Len(Step(Pyramid, s).direct) =>
        d \in kept /\ published[d] >= Step(Pyramid, s).direct[Distance(c, d) + 1]

(* Claim and producer come and go together.                                *)
Worked(c) ==
    LET p == producer[c] IN
    \/ p.status = None /\ p.stage = "none" /\ started[c] = published[c]
    \/ /\ p.status \in Statuses /\ p.stage # "none" /\ c \in p.cache
       /\ started[c] = p.status /\ published[c] = p.status - 1
       /\ p.stage \in {"acquire", "load"} => p.status = 0
       /\ p.stage = "load" => disk[c] # None
       /\ Supplied(c, p.status, p.cache)

(* What a task relies on.                                                  *)
Relies(k) == Driven(k) /\ \A c \in Chunks : Answer(k, c)

TasksShaped == \A t \in TaskIds : Shaped(task[t])
Reliance == \A t \in TaskIds : Relies(task[t])
WorkInv == \A c \in Chunks : Worked(c)

(* Only data that can be saved is being saved.                             *)
SavesInv == \A c \in Chunks : saving[c] # "no" => published[c] >= StructureStarts

(* A task's square stays in the map.                                       *)
SquaresKept ==
    \A t \in TaskIds : task[t].at # None =>
        \A c \in CacheOf(task[t].at, task[t].target) : place[c] # "none"

(* Who owns a task, and that a task freed has no owner.                    *)
OwnersInv ==
    /\ \A c \in Chunks : current[c] # NoTask => task[current[c]].at = c
    /\ installing # NoTask =>
          task[installing].at \in Chunks /\ current[task[installing].at] # installing
    /\ \A t \in TaskIds : Live(t) /\ ~ task[t].cancelled =>
          t = installing \/ current[task[t].at] = t
    /\ \A t \in TaskIds : task[t].pc = "pending" /\ task[t].cancelled =>
          t # installing /\ current[task[t].at] # t

TasksInv == TypeOK /\ TasksShaped /\ OwnersInv
GenInv == TasksInv /\ Reliance /\ WorkInv /\ SavesInv /\ SquaresKept

-----------------------------------------------------------------------------
(* Tasks as records.                                                       *)

LEMMA FreeTaskFacts ==
    /\ FreeTask \in Tasks /\ FreeTask.at = None /\ FreeTask.target = None
    /\ FreeTask.pc = "done" /\ FreeTask.cancelled = FALSE /\ FreeTask.scheduled = None
    /\ FreeTask.todo = {} /\ FreeTask.future \in [Chunks -> Futures]
    /\ \A c \in Chunks : FreeTask.future[c] = "none"
  BY DEF FreeTask, Tasks, Futures

LEMMA TaskFields ==
    ASSUME NEW k \in Tasks
    PROVE  /\ k.at \in Chunks \cup {None} /\ k.target \in Statuses \cup {None}
           /\ k.pc \in {"done", "pending", "wait", "layer"} /\ k.cancelled \in BOOLEAN
           /\ k.scheduled \in Statuses \cup {None} /\ k.todo \subseteq Chunks
           /\ k.future \in [Chunks -> Futures]
  BY DEF Tasks

(* What a task may become without gaining anything to rely on.             *)
Cancelled(k) == [k EXCEPT !.cancelled = TRUE]
Ended(k) == [k EXCEPT !.pc = "done"]
GivenUp(k) == [k EXCEPT !.cancelled = TRUE, !.todo = {}, !.pc = "wait"]
Started(k) == [k EXCEPT !.pc = "wait"]
Heard(k, c, f) == [k EXCEPT !.future = [@ EXCEPT ![c] = f]]

LEMMA CancelledFacts ==
    ASSUME NEW k \in Tasks
    PROVE  /\ Cancelled(k) \in Tasks /\ Cancelled(k).cancelled = TRUE
           /\ Cancelled(k).at = k.at /\ Cancelled(k).target = k.target /\ Cancelled(k).pc = k.pc
           /\ Cancelled(k).scheduled = k.scheduled /\ Cancelled(k).todo = k.todo
           /\ Cancelled(k).future = k.future
  BY DEF Cancelled, Tasks

LEMMA EndedFacts ==
    ASSUME NEW k \in Tasks
    PROVE  /\ Ended(k) \in Tasks /\ Ended(k).cancelled = k.cancelled
           /\ Ended(k).at = k.at /\ Ended(k).target = k.target /\ Ended(k).pc = "done"
           /\ Ended(k).scheduled = k.scheduled /\ Ended(k).todo = k.todo
           /\ Ended(k).future = k.future
  BY DEF Ended, Tasks

LEMMA StartedFacts ==
    ASSUME NEW k \in Tasks
    PROVE  /\ Started(k) \in Tasks /\ Started(k).cancelled = k.cancelled
           /\ Started(k).at = k.at /\ Started(k).target = k.target /\ Started(k).pc = "wait"
           /\ Started(k).scheduled = k.scheduled /\ Started(k).todo = k.todo
           /\ Started(k).future = k.future
  BY DEF Started, Tasks

LEMMA GivenUpFacts ==
    ASSUME NEW k \in Tasks
    PROVE  /\ GivenUp(k) \in Tasks /\ GivenUp(k).cancelled = TRUE
           /\ GivenUp(k).at = k.at /\ GivenUp(k).target = k.target /\ GivenUp(k).pc = "wait"
           /\ GivenUp(k).scheduled = k.scheduled /\ GivenUp(k).todo = {}
           /\ GivenUp(k).future = k.future
  BY DEF GivenUp, Tasks

LEMMA HeardFacts ==
    ASSUME NEW k \in Tasks, NEW c \in Chunks, NEW f \in Futures
    PROVE  /\ Heard(k, c, f) \in Tasks /\ Heard(k, c, f).cancelled = k.cancelled
           /\ Heard(k, c, f).at = k.at /\ Heard(k, c, f).target = k.target
           /\ Heard(k, c, f).pc = k.pc /\ Heard(k, c, f).scheduled = k.scheduled
           /\ Heard(k, c, f).todo = k.todo
           /\ Heard(k, c, f).future = [k.future EXCEPT ![c] = f]
  BY DEF Heard, Tasks

LEMMA NextLayerFacts ==
    ASSUME NEW k \in Tasks, k.scheduled + 1 \in Statuses
    PROVE  /\ NextLayer(k) \in Tasks /\ NextLayer(k).cancelled = k.cancelled
           /\ NextLayer(k).at = k.at /\ NextLayer(k).target = k.target
           /\ NextLayer(k).pc = "layer" /\ NextLayer(k).scheduled = k.scheduled + 1
           /\ NextLayer(k).todo = Layer(k, k.scheduled + 1)
           /\ NextLayer(k).future = FreeTask.future
  <1>1. Layer(k, k.scheduled + 1) \subseteq Chunks
    BY DEF Layer, Square
  <1>2. NextLayer(k) = [k EXCEPT !.pc = "layer", !.scheduled = k.scheduled + 1,
                                 !.todo = Layer(k, k.scheduled + 1), !.future = FreeTask.future]
    BY DEF NextLayer, Layer
  <1> HIDE DEF Layer
  <1> QED  BY <1>1, <1>2, FreeTaskFacts DEF Tasks

LEMMA WithFutureFacts ==
    ASSUME NEW k \in Tasks, NEW c \in Chunks, NEW f \in Futures
    PROVE  /\ WithFuture(k, c, f) \in Tasks /\ WithFuture(k, c, f).cancelled = k.cancelled
           /\ WithFuture(k, c, f).at = k.at /\ WithFuture(k, c, f).target = k.target
           /\ WithFuture(k, c, f).pc = (IF k.todo = {c} THEN "wait" ELSE k.pc)
           /\ WithFuture(k, c, f).scheduled = k.scheduled
           /\ WithFuture(k, c, f).todo = k.todo \ {c}
           /\ WithFuture(k, c, f).future = [k.future EXCEPT ![c] = f]
  BY DEF WithFuture, Tasks

(* A new task for `c` with target `s`.                                     *)
NewTask(c, s) == [FreeTask EXCEPT !.at = c, !.target = s, !.pc = "pending"]

LEMMA NewTaskFacts ==
    ASSUME NEW c \in Chunks, NEW s \in Statuses
    PROVE  /\ NewTask(c, s) \in Tasks /\ NewTask(c, s).cancelled = FALSE
           /\ NewTask(c, s).at = c /\ NewTask(c, s).target = s /\ NewTask(c, s).pc = "pending"
           /\ NewTask(c, s).scheduled = None /\ NewTask(c, s).todo = {}
           /\ \A d \in Chunks : NewTask(c, s).future[d] = "none"
  BY DEF NewTask, FreeTask, Tasks, Futures, None

-----------------------------------------------------------------------------
(* What the actions make of the tasks.                                     *)

LEMMA WokenFacts ==
    ASSUME NEW T \in [TaskIds -> Tasks], NEW c \in Chunks
    PROVE  /\ Woken(T, c) \in [TaskIds -> Tasks]
           /\ \A t \in TaskIds :
                Woken(T, c)[t] = IF T[t].future[c] = "asleep" THEN Heard(T[t], c, "poll") ELSE T[t]
  <1>1. \A t \in TaskIds : Heard(T[t], c, "poll") \in Tasks
    BY HeardFacts DEF Futures
  <1>2. Woken(T, c) = [t \in TaskIds |-> IF T[t].future[c] = "asleep"
                                         THEN Heard(T[t], c, "poll") ELSE T[t]]
    BY DEF Woken, Heard
  <1> QED  BY <1>1, <1>2

LEMMA AnsweredFacts ==
    ASSUME NEW T \in [TaskIds -> Tasks], NEW c \in Chunks, NEW f \in {"ready", "failed"}
    PROVE  LET U == Woken(Answered(T, c, f), c) IN
           /\ U \in [TaskIds -> Tasks]
           /\ \A t \in TaskIds :
                U[t] = IF T[t].future[c] = "own" THEN Heard(T[t], c, f)
                       ELSE IF T[t].future[c] = "asleep" THEN Heard(T[t], c, "poll") ELSE T[t]
  <1> DEFINE A == Answered(T, c, f)
  <1>1. \A t \in TaskIds :
           Heard(T[t], c, f) \in Tasks /\ Heard(T[t], c, f).future[c] = f
    <2>1. f \in Futures
      BY DEF Futures
    <2> SUFFICES ASSUME NEW t \in TaskIds
                 PROVE  Heard(T[t], c, f) \in Tasks /\ Heard(T[t], c, f).future[c] = f
      OBVIOUS
    <2>2. T[t] \in Tasks
      OBVIOUS
    <2>3. T[t].future \in [Chunks -> Futures]
      BY <2>2, TaskFields
    <2>4. Heard(T[t], c, f) \in Tasks /\ Heard(T[t], c, f).future = [T[t].future EXCEPT ![c] = f]
      BY <2>1, <2>2, HeardFacts
    <2> QED  BY <2>3, <2>4
  <1>2. A = [t \in TaskIds |-> IF T[t].future[c] = "own" THEN Heard(T[t], c, f) ELSE T[t]]
    BY DEF Answered, Heard
  <1>3. A \in [TaskIds -> Tasks]
    BY <1>1, <1>2
  <1>4. \A t \in TaskIds : A[t] = IF T[t].future[c] = "own" THEN Heard(T[t], c, f) ELSE T[t]
    BY <1>2
  <1> HIDE DEF A
  <1>5. /\ Woken(A, c) \in [TaskIds -> Tasks]
        /\ \A t \in TaskIds :
             Woken(A, c)[t] = IF A[t].future[c] = "asleep" THEN Heard(A[t], c, "poll") ELSE A[t]
    BY <1>3, WokenFacts
  <1>6. ASSUME NEW t \in TaskIds
        PROVE  Woken(A, c)[t] = IF T[t].future[c] = "own" THEN Heard(T[t], c, f)
                       ELSE IF T[t].future[c] = "asleep" THEN Heard(T[t], c, "poll") ELSE T[t]
    <2>1. CASE T[t].future[c] = "own"
      <3>1. A[t].future[c] = f /\ A[t] = Heard(T[t], c, f)
        BY <1>1, <1>4, <2>1
      <3>2. A[t].future[c] # "asleep"
        BY <3>1
      <3> QED  BY <1>5, <2>1, <3>1, <3>2
    <2>2. CASE T[t].future[c] # "own"
      BY <1>4, <1>5, <2>2
    <2> QED  BY <2>1, <2>2
  <1> QED  BY <1>5, <1>6 DEF A

LEMMA CancelFacts ==
    ASSUME NEW T \in [TaskIds -> Tasks], NEW o \in TaskIds \cup {NoTask}
    PROVE  /\ Cancel(T, o) \in [TaskIds -> Tasks]
           /\ \A t \in TaskIds :
                Cancel(T, o)[t] = IF t # o THEN T[t]
                                  ELSE IF T[t].pc = "done" THEN FreeTask ELSE Cancelled(T[t])
  <1>1. \A t \in TaskIds : t # NoTask
    BY DEF TaskIds, NoTask
  <1>2. \A t \in TaskIds : Cancelled(T[t]) \in Tasks
    BY CancelledFacts
  <1>3. CASE o = NoTask
    BY <1>1, <1>3 DEF Cancel
  <1>4. CASE o # NoTask
    <2>1. Cancel(T, o) = IF T[o].pc = "done" THEN [T EXCEPT ![o] = FreeTask]
                         ELSE [T EXCEPT ![o] = Cancelled(T[o])]
      BY <1>4 DEF Cancel, Cancelled
    <2> QED  BY <1>2, <1>4, <2>1, FreeTaskFacts
  <1> QED  BY <1>3, <1>4

LEMMA FinishedFacts ==
    ASSUME NEW T \in [TaskIds -> Tasks], NEW t \in TaskIds, NEW owners
    PROVE  /\ Finished(T, t, owners) \in [TaskIds -> Tasks]
           /\ \A u \in TaskIds \ {t} : Finished(T, t, owners)[u] = T[u]
           /\ Finished(T, t, owners)[t] =
                IF t = installing \/ \E c \in Chunks : owners[c] = t THEN Ended(T[t]) ELSE FreeTask
  <1>1. Ended(T[t]) \in Tasks
    BY EndedFacts
  <1>2. Finished(T, t, owners) =
            IF t = installing \/ \E c \in Chunks : owners[c] = t
            THEN [T EXCEPT ![t] = Ended(T[t])] ELSE [T EXCEPT ![t] = FreeTask]
    BY DEF Finished, Ended
  <1> QED  BY <1>1, <1>2, FreeTaskFacts

LEMMA InstallTasks ==
    ASSUME TasksInv, Install
    PROVE  LET c == task[installing].at
               o == current[c] IN
           /\ c \in Chunks /\ installing \in TaskIds /\ o \in TaskIds \cup {NoTask}
           /\ o # installing
           /\ task' \in [TaskIds -> Tasks]
           /\ \A t \in TaskIds :
                task'[t] = IF t # o THEN task[t]
                           ELSE IF task[t].pc = "done" THEN FreeTask ELSE Cancelled(task[t])
  <1> DEFINE c == task[installing].at
             o == current[c]
  <1>1. c \in Chunks /\ installing \in TaskIds /\ o # installing
    BY DEF Install, TasksInv, OwnersInv, TypeOK
  <1>2. o \in TaskIds \cup {NoTask} /\ task \in [TaskIds -> Tasks]
    BY <1>1 DEF TasksInv, TypeOK
  <1>3. task' = Cancel(task, o)
    BY DEF Install
  <1> HIDE DEF o, c
  <1>4. /\ task' \in [TaskIds -> Tasks]
        /\ \A t \in TaskIds :
             task'[t] = IF t # o THEN task[t]
                        ELSE IF task[t].pc = "done" THEN FreeTask ELSE Cancelled(task[t])
    BY <1>2, <1>3, CancelFacts
  <1> QED  BY <1>1, <1>2, <1>4 DEF c, o

LEMMA UnloadTasks ==
    ASSUME TasksInv, NEW c \in Chunks, CommitUnload(c), place[c] = "active"
    PROVE  /\ current[c] \in TaskIds \cup {NoTask}
           /\ task' \in [TaskIds -> Tasks]
           /\ \E T \in [TaskIds -> Tasks] :
                /\ \A t \in TaskIds :
                     T[t] = IF t # current[c] THEN task[t]
                            ELSE IF task[t].pc = "done" THEN FreeTask ELSE Cancelled(task[t])
                /\ \A t \in TaskIds :
                     task'[t] = IF T[t].future[c] = "asleep" THEN Heard(T[t], c, "poll") ELSE T[t]
  <1>1. current[c] \in TaskIds \cup {NoTask} /\ task \in [TaskIds -> Tasks]
    BY DEF TasksInv, TypeOK
  <1> DEFINE T == Cancel(task, current[c])
  <1>2. task' = Woken(T, c)
    BY DEF CommitUnload
  <1>3. /\ T \in [TaskIds -> Tasks]
        /\ \A t \in TaskIds :
             T[t] = IF t # current[c] THEN task[t]
                    ELSE IF task[t].pc = "done" THEN FreeTask ELSE Cancelled(task[t])
    BY <1>1, CancelFacts
  <1> HIDE DEF T
  <1>4. /\ task' \in [TaskIds -> Tasks]
        /\ \A t \in TaskIds :
             task'[t] = IF T[t].future[c] = "asleep" THEN Heard(T[t], c, "poll") ELSE T[t]
    BY <1>2, <1>3, WokenFacts
  <1> QED  BY <1>1, <1>3, <1>4

LEMMA RefillTasks ==
    ASSUME TasksInv, Refill
    PROVE  /\ task' \in [TaskIds -> Tasks]
           /\ \A t \in TaskIds :
                \/ task'[t] = task[t]
                \/ task[t].pc = "pending" /\ ~ task[t].cancelled /\ task'[t] = Started(task[t])
                \/ task[t].pc = "pending" /\ task[t].cancelled /\ task'[t] = FreeTask
  <1> DEFINE waiting == {t \in Pending : ~ task[t].cancelled}
  <1>1. PICK S \in SUBSET waiting :
           task' = [t \in TaskIds |-> IF t \in S THEN Started(task[t])
                                      ELSE IF t \in Pending \ waiting THEN FreeTask ELSE task[t]]
    BY DEF Refill, Started
  <1>2. task \in [TaskIds -> Tasks] /\ \A t \in TaskIds : Started(task[t]) \in Tasks
    BY StartedFacts DEF TasksInv, TypeOK
  <1>3. task' \in [TaskIds -> Tasks]
    BY <1>1, <1>2, FreeTaskFacts
  <1>4. ASSUME NEW t \in TaskIds
        PROVE  \/ task'[t] = task[t]
               \/ task[t].pc = "pending" /\ ~ task[t].cancelled /\ task'[t] = Started(task[t])
               \/ task[t].pc = "pending" /\ task[t].cancelled /\ task'[t] = FreeTask
    <2>1. task'[t] = IF t \in S THEN Started(task[t])
                     ELSE IF t \in Pending \ waiting THEN FreeTask ELSE task[t]
      BY <1>1
    <2>2. t \in S => task[t].pc = "pending" /\ ~ task[t].cancelled
      BY <1>1 DEF Pending
    <2>3. t \in Pending \ waiting => task[t].pc = "pending" /\ task[t].cancelled
      BY DEF Pending
    <2> HIDE DEF waiting
    <2> QED  BY <2>1, <2>2, <2>3
  <1> QED  BY <1>3, <1>4

LEMMA OfferTasks ==
    ASSUME TasksInv, NEW c \in Chunks, Offer(c)
    PROVE  \/ task' = task /\ installing' = installing
           \/ \E t \in TaskIds :
                /\ task[t] = FreeTask /\ installing = NoTask /\ installing' = t
                /\ Allowed(c) \in Statuses
                /\ \A d \in CacheOf(c, Allowed(c)) : place[d] = "active"
                /\ task' = [task EXCEPT ![t] = NewTask(c, Allowed(c))]
  <1>1. CASE NotNeeded(c, Allowed(c)) \/ \E d \in CacheOf(c, Allowed(c)) : place[d] # "active"
    BY <1>1 DEF Offer
  <1>2. CASE ~ NotNeeded(c, Allowed(c)) /\ \A d \in CacheOf(c, Allowed(c)) : place[d] = "active"
    <2>1. PICK t \in TaskIds :
             /\ task[t] = FreeTask /\ installing' = t
             /\ task' = [task EXCEPT ![t] = NewTask(c, Allowed(c))]
      BY <1>2 DEF Offer, NewTask
    <2>2. ~ (published[c] >= Allowed(c))
      BY <1>2 DEF NotNeeded
    <2>3. Allowed(c) \in Statuses \cup {None} /\ published[c] \in Statuses \cup {None}
      BY AllowedType DEF TasksInv, TypeOK
    <2>4. Allowed(c) \in Statuses
      BY <2>2, <2>3, StatusFacts DEF Statuses, None
    <2>5. installing = NoTask
      BY DEF Offer
    <2> QED  BY <1>2, <2>1, <2>4, <2>5
  <1> QED  BY <1>1, <1>2

LEMMA AdvanceTasks ==
    ASSUME TasksInv, NEW t \in TaskIds, Advance(t)
    PROVE  /\ task' \in [TaskIds -> Tasks]
           /\ \A u \in TaskIds \ {t} : task'[u] = task[u]
           /\ task[t].scheduled + 1 \in Statuses
           /\ \/ task'[t] = Cancelled(task[t])
              \/ /\ \A c \in Chunks : task[t].future[c] \in {"none", "ready"}
                 /\ task'[t] = NextLayer(task[t])
  <1>1. task[t] \in Tasks /\ task \in [TaskIds -> Tasks]
    BY DEF TasksInv, TypeOK
  <1>2. task[t].scheduled + 1 \in Statuses
    <2>1. task[t].scheduled < task[t].target
      BY DEF Advance
    <2> QED  BY <1>1, <2>1, TaskFields, StatusFacts DEF Statuses, None
  <1>3. Cancelled(task[t]) \in Tasks /\ NextLayer(task[t]) \in Tasks
    BY <1>1, <1>2, CancelledFacts, NextLayerFacts
  <1>4. task' = [task EXCEPT ![t] = IF \E c \in Chunks : task[t].future[c] = "failed"
                                    THEN Cancelled(task[t]) ELSE NextLayer(task[t])]
    BY DEF Advance, Cancelled
  <1>5. (\A c \in Chunks : task[t].future[c] # "failed") =>
           \A c \in Chunks : task[t].future[c] \in {"none", "ready"}
    <2>1. task[t].future \in [Chunks -> Futures]
      BY <1>1, TaskFields
    <2> QED  BY <2>1 DEF Advance, LayerDone, Futures
  <1>6. CASE \E c \in Chunks : task[t].future[c] = "failed"
    <2>1. task' = [task EXCEPT ![t] = Cancelled(task[t])]
      BY <1>4, <1>6
    <2> QED  BY <1>1, <1>2, <1>3, <2>1
  <1>7. CASE ~ \E c \in Chunks : task[t].future[c] = "failed"
    <2>1. task' = [task EXCEPT ![t] = NextLayer(task[t])]
      BY <1>4, <1>7
    <2> QED  BY <1>1, <1>2, <1>3, <1>5, <1>7, <2>1
  <1> QED  BY <1>6, <1>7

(* The next chunk of a layer is one of it.                                 *)
LEMMA NextOfLayer ==
    ASSUME TasksInv, NEW t \in TaskIds, task[t].pc = "layer"
    PROVE  /\ Min(task[t].todo) \in task[t].todo /\ Min(task[t].todo) \in Chunks
           /\ task[t].at \in Chunks /\ task[t].target \in Statuses
           /\ task[t].scheduled \in Statuses /\ task[t].scheduled <= task[t].target
           /\ task[t].todo \subseteq Layer(task[t], task[t].scheduled)
  <1>1. task[t] \in Tasks /\ Shaped(task[t])
    BY DEF TasksInv, TypeOK, TasksShaped
  <1>2. task[t] # FreeTask
    BY FreeTaskFacts
  <1>3. /\ task[t].at \in Chunks /\ task[t].target \in Statuses
        /\ task[t].todo # {} /\ task[t].scheduled <= task[t].target
        /\ task[t].todo \subseteq Layer(task[t], task[t].scheduled)
        /\ task[t].scheduled # None
    BY <1>1, <1>2 DEF Shaped
  <1>4. task[t].scheduled \in Statuses /\ task[t].todo \subseteq Chunks
    BY <1>1, <1>3, TaskFields
  <1>5. Min(task[t].todo) \in task[t].todo
    BY <1>3, <1>4, MinOfNaturals, StatusFacts
  <1> QED  BY <1>3, <1>4, <1>5

LEMMA ApplyTasks ==
    ASSUME TasksInv, NEW t \in TaskIds, ApplyStep(t)
    PROVE  LET c == Min(task[t].todo)
               s == task[t].scheduled
           IN  /\ task' \in [TaskIds -> Tasks]
               /\ \A u \in TaskIds \ {t} : task'[u] = task[u]
               /\ \/ /\ task'[t] = GivenUp(task[t])
                     /\ UNCHANGED <<started, producer>>
                  \/ /\ ~ task[t].cancelled /\ started[c] >= s
                     /\ task'[t] = WithFuture(task[t], c, "poll")
                     /\ UNCHANGED <<started, producer>>
                  \/ /\ ~ task[t].cancelled /\ started[c] = s - 1
                     /\ task'[t] = WithFuture(task[t], c, "own")
                     /\ started' = [started EXCEPT ![c] = s]
                     /\ producer' = [producer EXCEPT ![c] =
                           [status |-> s, stage |-> IF s = 0 THEN "acquire" ELSE "step",
                            cache |-> CacheOf(task[t].at, task[t].target)]]
  <1> DEFINE c == Min(task[t].todo)
             s == task[t].scheduled
             k == task[t]
  <1>1. k \in Tasks /\ task \in [TaskIds -> Tasks] /\ c \in Chunks
    BY NextOfLayer DEF TasksInv, TypeOK, ApplyStep
  <1> HIDE DEF c
  <1>2. GivenUp(k) \in Tasks /\ WithFuture(k, c, "poll") \in Tasks /\ WithFuture(k, c, "own") \in Tasks
    BY <1>1, GivenUpFacts, WithFutureFacts DEF Futures
  <1>3. \/ /\ task' = [task EXCEPT ![t] = GivenUp(k)]
           /\ UNCHANGED <<started, producer>>
        \/ /\ ~ task[t].cancelled /\ started[c] >= s
           /\ task' = [task EXCEPT ![t] = WithFuture(k, c, "poll")]
           /\ UNCHANGED <<started, producer>>
        \/ /\ ~ task[t].cancelled /\ started[c] = s - 1
           /\ task' = [task EXCEPT ![t] = WithFuture(k, c, "own")]
           /\ started' = [started EXCEPT ![c] = s]
           /\ producer' = [producer EXCEPT ![c] =
                 [status |-> s, stage |-> IF s = 0 THEN "acquire" ELSE "step",
                  cache |-> CacheOf(task[t].at, task[t].target)]]
    BY DEF ApplyStep, GivenUp, c
  <1> HIDE DEF k, s
  <1>4. CASE task' = [task EXCEPT ![t] = GivenUp(k)] /\ UNCHANGED <<started, producer>>
    BY <1>1, <1>2, <1>4 DEF k
  <1>5. CASE /\ ~ task[t].cancelled /\ started[c] >= s
             /\ task' = [task EXCEPT ![t] = WithFuture(k, c, "poll")]
             /\ UNCHANGED <<started, producer>>
    BY <1>1, <1>2, <1>5 DEF k, s, c
  <1>6. CASE /\ ~ task[t].cancelled /\ started[c] = s - 1
             /\ task' = [task EXCEPT ![t] = WithFuture(k, c, "own")]
             /\ started' = [started EXCEPT ![c] = s]
             /\ producer' = [producer EXCEPT ![c] =
                   [status |-> s, stage |-> IF s = 0 THEN "acquire" ELSE "step",
                    cache |-> CacheOf(task[t].at, task[t].target)]]
    <2>1. task' \in [TaskIds -> Tasks] /\ (\A u \in TaskIds \ {t} : task'[u] = task[u])
          /\ task'[t] = WithFuture(k, c, "own")
      BY <1>1, <1>2, <1>6
    <2> QED  BY <1>6, <2>1 DEF k, s, c
  <1> QED  BY <1>3, <1>4, <1>5, <1>6

LEMMA PollTasks ==
    ASSUME TasksInv, NEW t \in TaskIds, NEW c \in Chunks, PollWaiter(t, c)
    PROVE  /\ task' \in [TaskIds -> Tasks]
           /\ \A u \in TaskIds \ {t} : task'[u] = task[u]
           /\ \E f \in {"ready", "failed", "asleep"} :
                /\ task'[t] = Heard(task[t], c, f)
                /\ f = "ready" => published[c] >= task[t].scheduled
                /\ f = "asleep" => /\ ~ (published[c] >= task[t].scheduled)
                                   /\ ~ (started[c] < task[t].scheduled)
  <1> DEFINE s == task[t].scheduled
             f == IF published[c] >= s THEN "ready"
                  ELSE IF s > Allowed(c) \/ started[c] < s THEN "failed" ELSE "asleep"
  <1>1. task' = [task EXCEPT ![t] = Heard(task[t], c, f)]
    <2>1. task' = [task EXCEPT ![t].future[c] = f]
      BY DEF PollWaiter
    <2> HIDE DEF f
    <2> QED  BY <2>1 DEF Heard
  <1>2. /\ f \in {"ready", "failed", "asleep"} /\ f \in Futures
        /\ f = "ready" => published[c] >= s
        /\ f = "asleep" => ~ (published[c] >= s) /\ ~ (started[c] < s)
    <2>1. CASE published[c] >= s
      <3>1. f = "ready"
        BY <2>1
      <3> HIDE DEF f
      <3> QED  BY <2>1, <3>1 DEF Futures
    <2>2. CASE ~ (published[c] >= s) /\ (s > Allowed(c) \/ started[c] < s)
      <3>1. f = "failed"
        BY <2>2
      <3> HIDE DEF f
      <3> QED  BY <2>2, <3>1 DEF Futures
    <2>3. CASE ~ (published[c] >= s) /\ ~ (s > Allowed(c) \/ started[c] < s)
      <3>1. f = "asleep"
        BY <2>3
      <3> HIDE DEF f
      <3> QED  BY <2>3, <3>1 DEF Futures
    <2> QED  BY <2>1, <2>2, <2>3
  <1> HIDE DEF f
  <1>3. task[t] \in Tasks /\ task \in [TaskIds -> Tasks]
    BY DEF TasksInv, TypeOK
  <1>4. Heard(task[t], c, f) \in Tasks
    BY <1>2, <1>3, HeardFacts
  <1> QED  BY <1>1, <1>2, <1>3, <1>4

-----------------------------------------------------------------------------
(* Types.                                                                  *)

LEMMA ProducerTypes ==
    ASSUME TypeOK, NEW c \in Chunks
    PROVE  /\ [producer EXCEPT ![c] = NoProducer] \in [Chunks -> Producers]
           /\ \A g \in {"acquire", "load", "step", "abandon"} : To(c, g) \in [Chunks -> Producers]
           /\ \A s \in Statuses, g \in {"acquire", "step"}, S \in SUBSET Chunks :
                 [producer EXCEPT ![c] = [status |-> s, stage |-> g, cache |-> S]]
                     \in [Chunks -> Producers]
  <1>1. producer \in [Chunks -> Producers]
    BY DEF TypeOK
  <1>2. NoProducer \in Producers
    BY DEF NoProducer, Producers
  <1>3. ASSUME NEW g \in {"acquire", "load", "step", "abandon"}
        PROVE  To(c, g) \in [Chunks -> Producers]
    <2>1. producer[c] \in Producers
      BY <1>1
    <2>2. [producer[c] EXCEPT !.stage = g] \in Producers
      BY <2>1 DEF Producers
    <2> QED  BY <1>1, <2>2 DEF To
  <1>4. \A s \in Statuses, g \in {"acquire", "step"}, S \in SUBSET Chunks :
           [status |-> s, stage |-> g, cache |-> S] \in Producers
    BY DEF Producers
  <1> QED  BY <1>1, <1>2, <1>3, <1>4

LEMMA PublishTypes ==
    ASSUME TypeOK, NEW c \in Chunks, NEW s \in Statuses \cup {None}, Publish(c, s)
    PROVE  /\ started' \in [Chunks -> Statuses \cup {None}]
           /\ published' \in [Chunks -> Statuses \cup {None}]
           /\ producer' \in [Chunks -> Producers] /\ task' \in [TaskIds -> Tasks]
  <1>1. \A a \in Statuses \cup {None} : Larger(a, s) \in Statuses \cup {None}
    BY DEF Larger
  <1>2. started' \in [Chunks -> Statuses \cup {None}] /\ published' \in [Chunks -> Statuses \cup {None}]
    BY <1>1 DEF TypeOK, Publish
  <1>3. producer' \in [Chunks -> Producers]
    BY ProducerTypes DEF Publish
  <1>4. task' \in [TaskIds -> Tasks]
    BY AnsweredFacts DEF Publish, TypeOK
  <1> QED  BY <1>2, <1>3, <1>4

LEMMA InitTyped == Init => TypeOK
  <1> SUFFICES ASSUME Init PROVE TypeOK
    OBVIOUS
  <1>1. PICK T \in Tickets : level = [c \in Chunks |-> LevelAt(T, c)]
    BY DEF Init
  <1>2. level \in [Chunks -> 0 .. Unloaded]
    BY <1>1, LevelType
  <1>3. published \in [Chunks -> Statuses \cup {None}]
    BY <1>2, AllowedType DEF Init
  <1>4. task \in [TaskIds -> Tasks] /\ producer \in [Chunks -> Producers]
    BY FreeTaskFacts DEF Init, NoProducer, Producers
  <1>5. applied = level /\ started = published
    BY DEF Init
  <1>6. failures \in 0 .. MaxFailures /\ moves \in 0 .. MaxMoves
    BY GenerationAssumption DEF Init
  <1>7. shrunk \in BOOLEAN /\ refill \in BOOLEAN
    BY DEF Init
  <1> QED  BY <1>2, <1>3, <1>4, <1>5, <1>6, <1>7 DEF Init, TypeOK

LEMMA TypeStep ==
    ASSUME TasksInv, [Next]_vars
    PROVE  TypeOK'
  <1> USE DEF ticketVars, epochVars, holderVars, saveVars, workVars
  <1>0. TypeOK /\ task \in [TaskIds -> Tasks] /\ producer \in [Chunks -> Producers]
    BY DEF TasksInv, TypeOK
  <1>1. CASE Install
    <2> DEFINE c == task[installing].at
    <2>1. c \in Chunks /\ installing \in TaskIds /\ task' \in [TaskIds -> Tasks]
      BY <1>1, InstallTasks
    <2> QED  BY <1>0, <1>1, <2>1 DEF Install, TypeOK
  <1>2. CASE EndOffers
    BY <1>0, <1>2 DEF EndOffers, TypeOK
  <1>3. CASE EndUnloads
    BY <1>0, <1>3 DEF EndUnloads, TypeOK
  <1>4. CASE Refill
    <2>1. task' \in [TaskIds -> Tasks]
      BY <1>4, RefillTasks
    <2> QED  BY <1>0, <1>4, <2>1 DEF Refill, TypeOK
  <1>5. ASSUME NEW T \in Tickets, EndCommit(T) PROVE TypeOK'
    <2>1. applied' \in [Chunks -> 0 .. Unloaded]
      BY <1>5, LevelType DEF EndCommit
    <2>2. moves' \in 0 .. MaxMoves
      BY <1>0, <1>5, GenerationAssumption DEF EndCommit, TypeOK
    <2>3. shrunk' \in BOOLEAN
      BY <1>5 DEF EndCommit
    <2> QED  BY <1>0, <1>5, <2>1, <2>2, <2>3 DEF EndCommit, TypeOK
  <1>6. ASSUME NEW c \in Chunks, Offer(c) PROVE TypeOK'
    <2>1. task' \in [TaskIds -> Tasks] /\ installing' \in TaskIds \cup {NoTask}
      <3>1. CASE task' = task /\ installing' = installing
        BY <1>0, <3>1 DEF TypeOK
      <3>2. CASE \E t \in TaskIds :
                    /\ installing' = t /\ Allowed(c) \in Statuses
                    /\ task' = [task EXCEPT ![t] = NewTask(c, Allowed(c))]
        <4>1. PICK t \in TaskIds :
                 /\ installing' = t /\ Allowed(c) \in Statuses
                 /\ task' = [task EXCEPT ![t] = NewTask(c, Allowed(c))]
          BY <3>2
        <4>2. NewTask(c, Allowed(c)) \in Tasks
          BY <4>1, NewTaskFacts
        <4> QED  BY <1>0, <4>1, <4>2
      <3> QED  BY <1>6, <3>1, <3>2, OfferTasks
    <2>2. offers' \subseteq Chunks /\ parked' \subseteq Chunks
      BY <1>0, <1>6 DEF Offer, TypeOK
    <2> QED  BY <1>0, <1>6, <2>1, <2>2 DEF Offer, TypeOK
  <1>7. ASSUME NEW c \in Chunks, VisitUnloading(c) PROVE TypeOK'
    BY <1>0, <1>7 DEF VisitUnloading, TypeOK
  <1>8. ASSUME NEW c \in Chunks, CommitLoad(c) PROVE TypeOK'
    BY <1>0, <1>8 DEF CommitLoad, TypeOK
  <1>9. ASSUME NEW c \in Chunks, CommitUnload(c) PROVE TypeOK'
    <2>1. CASE place[c] = "active"
      <3>1. task' \in [TaskIds -> Tasks]
        BY <1>9, <2>1, UnloadTasks
      <3>2. level' \in [Chunks -> 0 .. Unloaded]
        BY <1>0, <1>9, <2>1, StatusFacts DEF CommitUnload, TypeOK
      <3> QED  BY <1>0, <1>9, <2>1, <3>1, <3>2 DEF CommitUnload, TypeOK
    <2>2. CASE place[c] # "active"
      BY <1>0, <1>9, <2>2 DEF CommitUnload, TypeOK
    <2> QED  BY <2>1, <2>2
  <1>10. ASSUME NEW c \in Chunks, ReserveForSave(c) PROVE TypeOK'
    BY <1>0, <1>10 DEF ReserveForSave, TypeOK
  <1>11. ASSUME NEW c \in Chunks, Saved(c) PROVE TypeOK'
    BY <1>0, <1>11 DEF Saved, TypeOK
  <1>12. ASSUME NEW c \in Chunks, Acquire(c) PROVE TypeOK'
    <2>1. producer' \in [Chunks -> Producers]
      BY <1>0, <1>12, ProducerTypes DEF Acquire
    <2>2. failures' \in 0 .. MaxFailures
      BY <1>0, <1>12, GenerationAssumption DEF Acquire, TypeOK
    <2> QED  BY <1>0, <1>12, <2>1, <2>2 DEF Acquire, TypeOK
  <1>13. ASSUME NEW c \in Chunks, Load(c) PROVE TypeOK'
    <2>1. failures' \in 0 .. MaxFailures /\ disk' \in [Chunks -> Statuses \cup {None}]
      BY <1>0, <1>13, GenerationAssumption DEF Load, TypeOK
    <2>2. /\ started' \in [Chunks -> Statuses \cup {None}]
          /\ published' \in [Chunks -> Statuses \cup {None}]
          /\ producer' \in [Chunks -> Producers] /\ task' \in [TaskIds -> Tasks]
      <3>1. CASE Publish(c, disk[c])
        BY <1>0, <3>1, PublishTypes DEF TypeOK
      <3>2. CASE /\ UNCHANGED <<started, published, task>>
                 /\ \E g \in {"abandon", "step"} : producer' = To(c, g)
        <4>1. producer' \in [Chunks -> Producers]
          BY <1>0, <3>2, ProducerTypes
        <4> QED  BY <1>0, <3>2, <4>1 DEF TypeOK
      <3> QED  BY <1>13, <3>1, <3>2 DEF Load
    <2> QED  BY <1>0, <1>13, <2>1, <2>2 DEF Load, TypeOK
  <1>14. ASSUME NEW c \in Chunks, StepDone(c) PROVE TypeOK'
    <2>1. producer[c].status \in Statuses \cup {None}
      BY <1>0 DEF Producers
    <2>2. /\ started' \in [Chunks -> Statuses \cup {None}]
          /\ published' \in [Chunks -> Statuses \cup {None}]
          /\ producer' \in [Chunks -> Producers] /\ task' \in [TaskIds -> Tasks]
      BY <1>0, <1>14, <2>1, PublishTypes DEF StepDone
    <2> QED  BY <1>0, <1>14, <2>2 DEF StepDone, TypeOK
  <1>15. ASSUME NEW c \in Chunks, StepPanics(c) PROVE TypeOK'
    <2>1. producer' \in [Chunks -> Producers]
      BY <1>0, <1>15, ProducerTypes DEF StepPanics
    <2>2. failures' \in 0 .. MaxFailures
      BY <1>0, <1>15, GenerationAssumption DEF StepPanics, TypeOK
    <2> QED  BY <1>0, <1>15, <2>1, <2>2 DEF StepPanics, TypeOK
  <1>16. ASSUME NEW c \in Chunks, Abandon(c) PROVE TypeOK'
    <2>1. producer' \in [Chunks -> Producers] /\ task' \in [TaskIds -> Tasks]
      BY <1>0, <1>16, ProducerTypes, AnsweredFacts DEF Abandon
    <2>2. started' \in [Chunks -> Statuses \cup {None}]
      BY <1>0, <1>16 DEF Abandon, RollbackIndex, TypeOK
    <2> QED  BY <1>0, <1>16, <2>1, <2>2 DEF Abandon, TypeOK
  <1>17. ASSUME NEW t \in TaskIds, Advance(t) PROVE TypeOK'
    <2>1. task' \in [TaskIds -> Tasks]
      BY <1>17, AdvanceTasks
    <2> QED  BY <1>0, <1>17, <2>1 DEF Advance, TypeOK
  <1>18. ASSUME NEW t \in TaskIds, Finish(t) PROVE TypeOK'
    <2>1. task' \in [TaskIds -> Tasks]
      BY <1>0, <1>18, FinishedFacts DEF Finish
    <2>2. current' \in [Chunks -> TaskIds \cup {NoTask}]
      BY <1>0, <1>18 DEF Finish, TypeOK
    <2> QED  BY <1>0, <1>18, <2>1, <2>2 DEF Finish, TypeOK
  <1>19. ASSUME NEW t \in TaskIds, ApplyStep(t) PROVE TypeOK'
    <2> DEFINE c == Min(task[t].todo)
               s == task[t].scheduled
    <2>1. task' \in [TaskIds -> Tasks]
      BY <1>19, ApplyTasks
    <2>2. c \in Chunks /\ s \in Statuses
      BY <1>19, NextOfLayer DEF ApplyStep
    <2> HIDE DEF c, s
    <2>3. CacheOf(task[t].at, task[t].target) \subseteq Chunks
      BY DEF CacheOf, Square
    <2>4. started' \in [Chunks -> Statuses \cup {None}] /\ producer' \in [Chunks -> Producers]
      <3>1. CASE UNCHANGED <<started, producer>>
        BY <1>0, <3>1 DEF TypeOK
      <3>2. CASE /\ started' = [started EXCEPT ![c] = s]
                 /\ \E g \in {"acquire", "step"} : producer' = [producer EXCEPT ![c] =
                        [status |-> s, stage |-> g, cache |-> CacheOf(task[t].at, task[t].target)]]
        BY <1>0, <2>2, <2>3, <3>2, ProducerTypes DEF TypeOK
      <3> QED  BY <1>19, <3>1, <3>2, ApplyTasks DEF c, s
    <2> QED  BY <1>0, <1>19, <2>1, <2>4 DEF ApplyStep, TypeOK
  <1>20. ASSUME NEW t \in TaskIds, NEW c \in Chunks, PollWaiter(t, c) PROVE TypeOK'
    <2>1. task' \in [TaskIds -> Tasks]
      BY <1>20, PollTasks
    <2> QED  BY <1>0, <1>20, <2>1 DEF PollWaiter, TypeOK
  <1>21. CASE UNCHANGED vars
    BY <1>0, <1>21 DEF vars, TypeOK
  <1> QED
    BY <1>1, <1>2, <1>3, <1>4, <1>5, <1>6, <1>7, <1>8, <1>9, <1>10, <1>11, <1>12, <1>13, <1>14,
       <1>15, <1>16, <1>17, <1>18, <1>19, <1>20, <1>21 DEF Next

-----------------------------------------------------------------------------
(* The shape of tasks.                                                     *)

LEMMA RadiusFacts ==
    ASSUME NEW t \in Statuses, NEW s \in 0 .. t
    PROVE  /\ LayerRadius(Pyramid, t, s) \in Nat
           /\ LayerRadius(Pyramid, t, s) <= LayerRadius(Pyramid, t, 0)
           /\ s > 0 => LayerRadius(Pyramid, t, s) <= LayerRadius(Pyramid, t, s - 1)
  BY GenerationAssumption DEF WellFormed, Statuses, Full

LEMMA LayerFacts ==
    ASSUME NEW k, k.at \in Chunks, k.target \in Statuses, NEW s \in 0 .. k.target
    PROVE  /\ k.at \in Layer(k, s) /\ Layer(k, s) \subseteq Chunks
           /\ Layer(k, s) \subseteq CacheOf(k.at, k.target)
           /\ s > 0 => Layer(k, s) \subseteq Layer(k, s - 1)
  <1> DEFINE r == LayerRadius(Pyramid, k.target, s)
             r0 == LayerRadius(Pyramid, k.target, 0)
             r1 == LayerRadius(Pyramid, k.target, s - 1)
  <1>1. k.target \in Nat /\ s \in Nat /\ 0 \in 0 .. k.target
    BY StatusFacts DEF Statuses
  <1>2. r \in Nat /\ r <= r0 /\ r0 \in Nat /\ (s > 0 => r <= r1)
    BY <1>1, RadiusFacts
  <1>3. s > 0 => r1 \in Nat
    <2>1. s > 0 => s - 1 \in 0 .. k.target
      BY <1>1
    <2> QED  BY <2>1, RadiusFacts
  <1>4. \A d \in Chunks : Distance(k.at, d) \in Nat
    BY StatusFacts, DistanceFacts
  <1>5. Distance(k.at, k.at) = 0
    BY StatusFacts, DistanceFacts
  <1> HIDE DEF r, r0, r1
  <1>6. /\ Layer(k, s) = {d \in Chunks : Distance(k.at, d) <= r}
        /\ CacheOf(k.at, k.target) = {d \in Chunks : Distance(k.at, d) <= r0}
        /\ Layer(k, s - 1) = {d \in Chunks : Distance(k.at, d) <= r1}
    BY DEF Layer, CacheOf, Square, r, r0, r1
  <1>7. k.at \in Layer(k, s) /\ Layer(k, s) \subseteq Chunks
    BY <1>2, <1>5, <1>6
  <1>8. Layer(k, s) \subseteq CacheOf(k.at, k.target)
    BY <1>2, <1>4, <1>6
  <1>9. s > 0 => Layer(k, s) \subseteq Layer(k, s - 1)
    BY <1>2, <1>3, <1>4, <1>6
  <1> QED  BY <1>7, <1>8, <1>9

LEMMA ShapedFrom ==
    ASSUME NEW k \in Tasks, NEW l \in Tasks, Shaped(k), k # FreeTask,
           l.at = k.at, l.target = k.target, l.scheduled = k.scheduled,
           l.pc = "pending" => k.pc = "pending",
           l.pc = "layer" <=> l.todo # {}, l.todo \subseteq k.todo,
           \A c \in Chunks : l.future[c] # "none" => k.future[c] # "none" \/ c \in k.todo
    PROVE  Shaped(l)
  <1>1. \A s : Layer(l, s) = Layer(k, s)
    BY DEF Layer
  <1>2. /\ k.at \in Chunks /\ k.target \in Statuses /\ k.scheduled <= k.target
        /\ k.pc = "pending" => k.scheduled = None
        /\ k.pc = "layer" <=> k.todo # {}
        /\ k.scheduled = None => k.todo = {} /\ \A c \in Chunks : k.future[c] = "none"
        /\ k.todo \subseteq Layer(k, k.scheduled)
        /\ \A c \in Chunks : k.future[c] # "none" => c \in Layer(k, k.scheduled)
    BY DEF Shaped
  <1> HIDE DEF Layer
  <1>3. l.scheduled = None => l.todo = {} /\ \A c \in Chunks : l.future[c] = "none"
    BY <1>2
  <1>4. \A c \in Chunks : l.future[c] # "none" => c \in Layer(l, l.scheduled)
    BY <1>1, <1>2
  <1>5. l.todo \subseteq Layer(l, l.scheduled)
    BY <1>1, <1>2
  <1> QED  BY <1>2, <1>3, <1>4, <1>5 DEF Shaped

LEMMA ShapedFree == Shaped(FreeTask)
  BY DEF Shaped

LEMMA ShapedHeard ==
    ASSUME NEW k \in Tasks, Shaped(k), NEW c \in Chunks, NEW f \in Futures, k.future[c] # "none"
    PROVE  Shaped(Heard(k, c, f)) /\ k # FreeTask
  <1>1. k # FreeTask
    BY FreeTaskFacts
  <1>2. k.future \in [Chunks -> Futures]
    BY TaskFields
  <1>3. k.pc = "layer" <=> k.todo # {}
    BY <1>1 DEF Shaped
  <1> DEFINE l == Heard(k, c, f)
  <1>4. /\ l \in Tasks /\ l.at = k.at /\ l.target = k.target /\ l.pc = k.pc
        /\ l.scheduled = k.scheduled /\ l.todo = k.todo /\ l.future = [k.future EXCEPT ![c] = f]
    BY HeardFacts
  <1> HIDE DEF l
  <1>5. \A d \in Chunks : l.future[d] # "none" => k.future[d] # "none"
    BY <1>2, <1>4
  <1> QED  BY <1>1, <1>3, <1>4, <1>5, ShapedFrom DEF l

LEMMA ShapedCancelled ==
    ASSUME NEW k \in Tasks, Shaped(k), k # FreeTask
    PROVE  Shaped(Cancelled(k))
  <1> DEFINE l == Cancelled(k)
  <1>1. /\ l \in Tasks /\ l.at = k.at /\ l.target = k.target /\ l.pc = k.pc
        /\ l.scheduled = k.scheduled /\ l.todo = k.todo /\ l.future = k.future
    BY CancelledFacts
  <1> HIDE DEF l
  <1>2. k.pc = "layer" <=> k.todo # {}
    BY DEF Shaped
  <1> QED  BY <1>1, <1>2, ShapedFrom DEF l

LEMMA ShapedWithFuture ==
    ASSUME NEW k \in Tasks, Shaped(k), k.pc = "layer", NEW c \in k.todo, NEW f \in Futures
    PROVE  Shaped(WithFuture(k, c, f))
  <1> DEFINE l == WithFuture(k, c, f)
  <1>1. c \in Chunks /\ k.future \in [Chunks -> Futures] /\ k # FreeTask
    BY TaskFields, FreeTaskFacts
  <1>2. /\ l \in Tasks /\ l.at = k.at /\ l.target = k.target
        /\ l.pc = (IF k.todo = {c} THEN "wait" ELSE k.pc)
        /\ l.scheduled = k.scheduled /\ l.todo = k.todo \ {c}
        /\ l.future = [k.future EXCEPT ![c] = f]
    BY <1>1, WithFutureFacts
  <1> HIDE DEF l
  <1>3. l.pc = "layer" <=> l.todo # {}
    BY <1>2
  <1>4. \A d \in Chunks : l.future[d] # "none" => k.future[d] # "none" \/ d \in k.todo
    BY <1>1, <1>2
  <1>5. l.pc # "pending" /\ l.todo \subseteq k.todo
    BY <1>2
  <1> QED  BY <1>1, <1>2, <1>3, <1>4, <1>5, ShapedFrom DEF l

LEMMA ShapedNextLayer ==
    ASSUME NEW k \in Tasks, Shaped(k), k # FreeTask, k.scheduled < k.target
    PROVE  Shaped(NextLayer(k))
  <1> DEFINE l == NextLayer(k)
  <1>1. k.target \in Statuses /\ k.scheduled \in Statuses \cup {None} /\ k.at \in Chunks
    BY TaskFields DEF Shaped
  <1>2. /\ k.scheduled + 1 \in Statuses /\ k.scheduled + 1 \in 0 .. k.target
        /\ k.scheduled + 1 # None
    BY <1>1, StatusFacts DEF Statuses, None
  <1>3. /\ l \in Tasks /\ l.at = k.at /\ l.target = k.target /\ l.pc = "layer"
        /\ l.scheduled = k.scheduled + 1 /\ l.todo = Layer(k, k.scheduled + 1)
        /\ l.future = FreeTask.future
    BY <1>2, NextLayerFacts
  <1> HIDE DEF l
  <1>4. Layer(l, l.scheduled) = Layer(k, k.scheduled + 1) /\ l.todo # {}
    <2>1. Layer(l, l.scheduled) = Layer(k, k.scheduled + 1)
      BY <1>3 DEF Layer
    <2>2. k.at \in l.todo
      BY <1>1, <1>2, <1>3, LayerFacts
    <2> QED  BY <2>1, <2>2
  <1>5. l.scheduled <= l.target /\ l.scheduled # None
    BY <1>2, <1>3
  <1> QED  BY <1>1, <1>3, <1>4, <1>5, FreeTaskFacts DEF Shaped, l

LEMMA ShapedNewTask ==
    ASSUME NEW c \in Chunks, NEW s \in Statuses
    PROVE  Shaped(NewTask(c, s))
  <1> DEFINE l == NewTask(c, s)
  <1>1. /\ l.at = c /\ l.target = s /\ l.pc = "pending" /\ l.scheduled = None /\ l.todo = {}
        /\ \A d \in Chunks : l.future[d] = "none"
    BY DEF NewTask, FreeTask
  <1> HIDE DEF l
  <1>2. l.scheduled <= l.target
    BY <1>1, StatusFacts DEF Statuses, None
  <1> QED  BY <1>1, <1>2 DEF Shaped, l

LEMMA ShapedChanges ==
    ASSUME NEW k \in Tasks, Shaped(k), k # FreeTask
    PROVE  /\ k.pc = "pending" => Shaped(Started(k))
           /\ k.pc = "wait" => Shaped(Ended(k))
           /\ Shaped(GivenUp(k))
  <1>1. k.pc = "layer" <=> k.todo # {}
    BY DEF Shaped
  <1>2. ASSUME k.pc = "pending" PROVE Shaped(Started(k))
    <2> DEFINE l == Started(k)
    <2>1. /\ l \in Tasks /\ l.at = k.at /\ l.target = k.target /\ l.pc = "wait"
          /\ l.scheduled = k.scheduled /\ l.todo = k.todo /\ l.future = k.future
      BY StartedFacts
    <2> HIDE DEF l
    <2> QED  BY <1>1, <1>2, <2>1, ShapedFrom DEF l
  <1>3. ASSUME k.pc = "wait" PROVE Shaped(Ended(k))
    <2> DEFINE l == Ended(k)
    <2>1. /\ l \in Tasks /\ l.at = k.at /\ l.target = k.target /\ l.pc = "done"
          /\ l.scheduled = k.scheduled /\ l.todo = k.todo /\ l.future = k.future
      BY EndedFacts
    <2> HIDE DEF l
    <2> QED  BY <1>1, <1>3, <2>1, ShapedFrom DEF l
  <1>4. Shaped(GivenUp(k))
    <2> DEFINE l == GivenUp(k)
    <2>1. /\ l \in Tasks /\ l.at = k.at /\ l.target = k.target /\ l.pc = "wait"
          /\ l.scheduled = k.scheduled /\ l.todo = {} /\ l.future = k.future
      BY GivenUpFacts
    <2> HIDE DEF l
    <2> QED  BY <1>1, <2>1, ShapedFrom DEF l
  <1> QED  BY <1>2, <1>3, <1>4

LEMMA ShapedStep ==
    ASSUME TasksInv, [Next]_vars
    PROVE  TasksShaped'
  <1> USE DEF ticketVars, epochVars, holderVars, saveVars, workVars
  <1>0. task \in [TaskIds -> Tasks] /\ \A t \in TaskIds : task[t] \in Tasks /\ Shaped(task[t])
    BY DEF TasksInv, TypeOK, TasksShaped
  <1>a. ASSUME NEW c \in Chunks, NEW f \in {"ready", "failed"},
               task' = Woken(Answered(task, c, f), c)
        PROVE  TasksShaped'
    <2> SUFFICES ASSUME NEW t \in TaskIds PROVE Shaped(task'[t])
      BY DEF TasksShaped
    <2>1. task'[t] = IF task[t].future[c] = "own" THEN Heard(task[t], c, f)
                     ELSE IF task[t].future[c] = "asleep" THEN Heard(task[t], c, "poll")
                     ELSE task[t]
      BY <1>0, <1>a, AnsweredFacts
    <2>2. f \in Futures /\ "poll" \in Futures
      BY DEF Futures
    <2>3. CASE task[t].future[c] = "own"
      <3>1. Shaped(Heard(task[t], c, f))
        BY <1>0, <2>2, <2>3, ShapedHeard
      <3> QED  BY <2>1, <2>3, <3>1
    <2>4. CASE task[t].future[c] = "asleep"
      <3>1. Shaped(Heard(task[t], c, "poll"))
        BY <1>0, <2>2, <2>4, ShapedHeard
      <3> QED  BY <2>1, <2>4, <3>1
    <2>5. CASE task[t].future[c] \notin {"own", "asleep"}
      BY <1>0, <2>1, <2>5
    <2> QED  BY <2>3, <2>4, <2>5
  <1>b. ASSUME task' = task PROVE TasksShaped'
    BY <1>0, <1>b DEF TasksShaped
  <1>1. CASE Install
    <2> DEFINE o == current[task[installing].at]
    <2> SUFFICES ASSUME NEW t \in TaskIds PROVE Shaped(task'[t])
      BY DEF TasksShaped
    <2>1. task'[t] = IF t # o THEN task[t]
                     ELSE IF task[t].pc = "done" THEN FreeTask ELSE Cancelled(task[t])
      BY <1>1, InstallTasks
    <2>2. task[t].pc # "done" => Shaped(Cancelled(task[t]))
      BY <1>0, ShapedCancelled, FreeTaskFacts
    <2> QED  BY <1>0, <2>1, <2>2, ShapedFree
  <1>2. CASE Refill
    <2> SUFFICES ASSUME NEW t \in TaskIds PROVE Shaped(task'[t])
      BY DEF TasksShaped
    <2>1. \/ task'[t] = task[t]
          \/ task[t].pc = "pending" /\ task'[t] = Started(task[t])
          \/ task'[t] = FreeTask
      BY <1>2, RefillTasks
    <2>2. task[t].pc = "pending" => Shaped(Started(task[t]))
      BY <1>0, ShapedChanges, FreeTaskFacts
    <2> QED  BY <1>0, <2>1, <2>2, ShapedFree
  <1>3. ASSUME NEW c \in Chunks, Offer(c) PROVE TasksShaped'
    <2>1. CASE task' = task
      BY <1>b, <2>1
    <2>2. CASE \E u \in TaskIds : /\ Allowed(c) \in Statuses
                                  /\ task' = [task EXCEPT ![u] = NewTask(c, Allowed(c))]
      <3>1. PICK u \in TaskIds : /\ Allowed(c) \in Statuses
                                 /\ task' = [task EXCEPT ![u] = NewTask(c, Allowed(c))]
        BY <2>2
      <3>2. Shaped(NewTask(c, Allowed(c)))
        BY <3>1, ShapedNewTask
      <3> SUFFICES ASSUME NEW t \in TaskIds PROVE Shaped(task'[t])
        BY DEF TasksShaped
      <3> QED  BY <1>0, <3>1, <3>2
    <2> QED  BY <1>3, <2>1, <2>2, OfferTasks
  <1>4. ASSUME NEW c \in Chunks, CommitUnload(c) PROVE TasksShaped'
    <2>1. CASE place[c] = "active"
      <3>1. PICK T \in [TaskIds -> Tasks] :
               /\ \A t \in TaskIds :
                    T[t] = IF t # current[c] THEN task[t]
                           ELSE IF task[t].pc = "done" THEN FreeTask ELSE Cancelled(task[t])
               /\ \A t \in TaskIds :
                    task'[t] = IF T[t].future[c] = "asleep" THEN Heard(T[t], c, "poll") ELSE T[t]
        BY <1>4, <2>1, UnloadTasks
      <3> SUFFICES ASSUME NEW t \in TaskIds PROVE Shaped(task'[t])
        BY DEF TasksShaped
      <3>2. task[t].pc # "done" => Shaped(Cancelled(task[t]))
        BY <1>0, ShapedCancelled, FreeTaskFacts
      <3>3. Shaped(T[t]) /\ T[t] \in Tasks
        BY <1>0, <3>1, <3>2, ShapedFree
      <3>4. T[t].future[c] = "asleep" => Shaped(Heard(T[t], c, "poll"))
        BY <3>3, ShapedHeard DEF Futures
      <3> QED  BY <3>1, <3>3, <3>4
    <2>2. CASE place[c] # "active"
      BY <1>4, <1>b, <2>2 DEF CommitUnload
    <2> QED  BY <2>1, <2>2
  <1>5. ASSUME NEW u \in TaskIds, Advance(u) PROVE TasksShaped'
    <2> SUFFICES ASSUME NEW t \in TaskIds PROVE Shaped(task'[t])
      BY DEF TasksShaped
    <2>1. CASE t # u
      BY <1>0, <1>5, <2>1, AdvanceTasks
    <2>2. CASE t = u
      <3>1. task[t] # FreeTask /\ task[t].scheduled < task[t].target
        BY <1>5, <2>2, FreeTaskFacts DEF Advance
      <3>2. Shaped(Cancelled(task[t])) /\ Shaped(NextLayer(task[t]))
        BY <1>0, <3>1, ShapedCancelled, ShapedNextLayer
      <3> QED  BY <1>5, <2>2, <3>2, AdvanceTasks
    <2> QED  BY <2>1, <2>2
  <1>6. ASSUME NEW u \in TaskIds, Finish(u) PROVE TasksShaped'
    <2> SUFFICES ASSUME NEW t \in TaskIds PROVE Shaped(task'[t])
      BY DEF TasksShaped
    <2>1. \E owners : task' = Finished(task, u, owners)
      BY <1>6 DEF Finish
    <2>2. t # u => task'[t] = task[t]
      BY <1>0, <2>1, FinishedFacts
    <2>3. task'[u] = Ended(task[u]) \/ task'[u] = FreeTask
      BY <1>0, <2>1, FinishedFacts
    <2>4. task[u].pc = "wait"
      BY <1>6 DEF Finish
    <2>5. Shaped(Ended(task[u]))
      BY <1>0, <2>4, ShapedChanges, FreeTaskFacts
    <2> QED  BY <1>0, <2>2, <2>3, <2>5, ShapedFree
  <1>7. ASSUME NEW u \in TaskIds, ApplyStep(u) PROVE TasksShaped'
    <2> DEFINE c == Min(task[u].todo)
    <2> SUFFICES ASSUME NEW t \in TaskIds PROVE Shaped(task'[t])
      BY DEF TasksShaped
    <2>1. t # u => task'[t] = task[t]
      BY <1>7, ApplyTasks
    <2>2. \/ task'[u] = GivenUp(task[u])
          \/ task'[u] = WithFuture(task[u], c, "poll")
          \/ task'[u] = WithFuture(task[u], c, "own")
      BY <1>7, ApplyTasks
    <2>3. task[u].pc = "layer" /\ c \in task[u].todo
      BY <1>7, NextOfLayer DEF ApplyStep
    <2> HIDE DEF c
    <2>4. /\ Shaped(WithFuture(task[u], c, "poll")) /\ Shaped(WithFuture(task[u], c, "own"))
          /\ Shaped(GivenUp(task[u]))
      <3>1. "poll" \in Futures /\ "own" \in Futures
        BY DEF Futures
      <3>2. Shaped(GivenUp(task[u]))
        BY <1>0, <2>3, ShapedChanges, FreeTaskFacts
      <3> QED  BY <1>0, <2>3, <3>1, <3>2, ShapedWithFuture
    <2> QED  BY <1>0, <2>1, <2>2, <2>4
  <1>8. ASSUME NEW u \in TaskIds, NEW c \in Chunks, PollWaiter(u, c) PROVE TasksShaped'
    <2> SUFFICES ASSUME NEW t \in TaskIds PROVE Shaped(task'[t])
      BY DEF TasksShaped
    <2>1. t # u => task'[t] = task[t]
      BY <1>8, PollTasks
    <2>2. PICK f \in {"ready", "failed", "asleep"} : task'[u] = Heard(task[u], c, f)
      BY <1>8, PollTasks
    <2>3. f \in Futures /\ task[u].future[c] # "none"
      BY <1>8 DEF Futures, PollWaiter
    <2>4. Shaped(Heard(task[u], c, f))
      BY <1>0, <2>3, ShapedHeard
    <2> QED  BY <1>0, <2>1, <2>2, <2>4
  <1>9. ASSUME NEW c \in Chunks, Load(c) PROVE TasksShaped'
    <2>1. task' = task \/ task' = Woken(Answered(task, c, "ready"), c)
      BY <1>9 DEF Load, Publish
    <2> QED  BY <1>a, <1>b, <2>1
  <1>10. ASSUME NEW c \in Chunks, StepDone(c) PROVE TasksShaped'
    BY <1>10, <1>a DEF StepDone, Publish
  <1>11. ASSUME NEW c \in Chunks, Abandon(c) PROVE TasksShaped'
    BY <1>11, <1>a DEF Abandon
  <1>12. CASE \/ EndOffers \/ EndUnloads \/ \E T \in Tickets : EndCommit(T)
              \/ \E c \in Chunks : \/ VisitUnloading(c) \/ CommitLoad(c) \/ ReserveForSave(c)
                                   \/ Saved(c) \/ Acquire(c) \/ StepPanics(c)
              \/ UNCHANGED vars
    <2>1. task' = task
      BY <1>12 DEF EndOffers, EndUnloads, EndCommit, VisitUnloading, CommitLoad, ReserveForSave,
                   Saved, Acquire, StepPanics, vars
    <2> QED  BY <1>b, <2>1
  <1> QED
    BY <1>1, <1>2, <1>3, <1>4, <1>5, <1>6, <1>7, <1>8, <1>9, <1>10, <1>11, <1>12 DEF Next

-----------------------------------------------------------------------------
(* Owners of tasks.                                                        *)

LEMMA TaskNumbers == \A t \in TaskIds : t # NoTask
  BY DEF TaskIds, NoTask

LEMMA OwnersKept ==
    ASSUME TasksInv, current' = current, installing' = installing,
           \A t \in TaskIds :
               /\ task'[t].at = task[t].at
               /\ task'[t].pc # "done" => task[t].pc # "done"
               /\ task[t].cancelled => task'[t].cancelled
               /\ task'[t].pc = "pending" =>
                     task[t].pc = "pending" /\ task'[t].cancelled = task[t].cancelled
    PROVE  OwnersInv'
  <1>1. \A c \in Chunks : current[c] \in TaskIds \cup {NoTask}
    BY DEF TasksInv, TypeOK
  <1>2. installing \in TaskIds \cup {NoTask}
    BY DEF TasksInv, TypeOK
  <1>3. \A c \in Chunks : current'[c] # NoTask => task'[current'[c]].at = c
    BY <1>1 DEF TasksInv, OwnersInv
  <1>4. installing' # NoTask =>
           task'[installing'].at \in Chunks /\ current'[task'[installing'].at] # installing'
    BY <1>2 DEF TasksInv, OwnersInv
  <1>5. \A t \in TaskIds : task'[t].pc # "done" /\ ~ task'[t].cancelled =>
           t = installing' \/ current'[task'[t].at] = t
    BY DEF TasksInv, OwnersInv, Live
  <1>6. \A t \in TaskIds : task'[t].pc = "pending" /\ task'[t].cancelled =>
           t # installing' /\ current'[task'[t].at] # t
    BY DEF TasksInv, OwnersInv
  <1> QED  BY <1>3, <1>4, <1>5, <1>6 DEF OwnersInv, Live

LEMMA OwnersOffer ==
    ASSUME TasksInv, NEW c \in Chunks, Offer(c)
    PROVE  OwnersInv'
  <1>0. current' = current /\ task \in [TaskIds -> Tasks]
    BY DEF Offer, holderVars, TasksInv, TypeOK
  <1>1. CASE task' = task /\ installing' = installing
    BY <1>0, <1>1, OwnersKept
  <1>2. CASE \E t \in TaskIds :
                /\ task[t] = FreeTask /\ installing = NoTask /\ installing' = t
                /\ Allowed(c) \in Statuses
                /\ task' = [task EXCEPT ![t] = NewTask(c, Allowed(c))]
    <2>1. PICK t \in TaskIds :
                /\ task[t] = FreeTask /\ installing = NoTask /\ installing' = t
                /\ Allowed(c) \in Statuses
                /\ task' = [task EXCEPT ![t] = NewTask(c, Allowed(c))]
      BY <1>2
    <2> DEFINE n == NewTask(c, Allowed(c))
    <2>2. n.at = c /\ n.pc = "pending" /\ n.cancelled = FALSE
      BY DEF NewTask, FreeTask
    <2>3. task'[t] = n /\ \A u \in TaskIds \ {t} : task'[u] = task[u]
      BY <1>0, <2>1
    <2> HIDE DEF n
    <2>4. \A d \in Chunks : current[d] # t
      <3>1. task[t].at = None /\ None \notin Chunks
        BY <2>1, FreeTaskFacts, StatusFacts DEF None
      <3> QED  BY <3>1, TaskNumbers DEF TasksInv, OwnersInv
    <2>5. \A d \in Chunks : current[d] \in TaskIds \cup {NoTask}
      BY DEF TasksInv, TypeOK
    <2>6. \A d \in Chunks : current'[d] # NoTask => task'[current'[d]].at = d
      BY <1>0, <2>3, <2>4, <2>5 DEF TasksInv, OwnersInv
    <2>7. installing' # NoTask =>
             task'[installing'].at \in Chunks /\ current'[task'[installing'].at] # installing'
      BY <1>0, <2>1, <2>2, <2>3, <2>4
    <2>8. \A u \in TaskIds : task'[u].pc # "done" /\ ~ task'[u].cancelled =>
             u = installing' \/ current'[task'[u].at] = u
      BY <1>0, <2>1, <2>3, TaskNumbers DEF TasksInv, OwnersInv, Live
    <2>9. \A u \in TaskIds : task'[u].pc = "pending" /\ task'[u].cancelled =>
             u # installing' /\ current'[task'[u].at] # u
      BY <1>0, <2>1, <2>2, <2>3 DEF TasksInv, OwnersInv
    <2> QED  BY <2>6, <2>7, <2>8, <2>9 DEF OwnersInv, Live
  <1> QED  BY <1>1, <1>2, OfferTasks

LEMMA OwnersInstall ==
    ASSUME TasksInv, Install
    PROVE  OwnersInv'
  <1> DEFINE c == task[installing].at
             o == current[c]
  <1>1. /\ c \in Chunks /\ installing \in TaskIds /\ o \in TaskIds \cup {NoTask}
        /\ o # installing
        /\ \A t \in TaskIds :
             task'[t] = IF t # o THEN task[t]
                        ELSE IF task[t].pc = "done" THEN FreeTask ELSE Cancelled(task[t])
    BY InstallTasks
  <1>2. /\ installing' = NoTask /\ current' = [current EXCEPT ![c] = installing]
        /\ current \in [Chunks -> TaskIds \cup {NoTask}]
    BY DEF Install, TasksInv, TypeOK
  <1>3. \A d \in Chunks : current'[d] = IF d = c THEN installing ELSE current[d]
    BY <1>1, <1>2
  <1>4. \A d \in Chunks : current[d] \in TaskIds \cup {NoTask}
    BY <1>2
  <1>5. \A d \in Chunks \ {c} : current[d] # o \/ o = NoTask
    BY <1>1 DEF TasksInv, OwnersInv
  <1>6. task[installing].at = c
    OBVIOUS
  <1>7. current[c] = o
    OBVIOUS
  <1> HIDE DEF c, o
  <1>8. \A d \in Chunks : current'[d] # NoTask => task'[current'[d]].at = d
    <2> SUFFICES ASSUME NEW d \in Chunks, current'[d] # NoTask PROVE task'[current'[d]].at = d
      OBVIOUS
    <2>1. CASE d = c
      BY <1>1, <1>3, <1>6, <2>1
    <2>2. CASE d # c
      <3>1. current'[d] = current[d] /\ current[d] \in TaskIds /\ current[d] # o
        BY <1>3, <1>4, <1>5, <2>2
      <3>2. task'[current[d]] = task[current[d]]
        BY <1>1, <3>1
      <3> QED  BY <3>1, <3>2 DEF TasksInv, OwnersInv
    <2> QED  BY <2>1, <2>2
  <1>9. ASSUME NEW t \in TaskIds
        PROVE  /\ task'[t].pc # "done" /\ ~ task'[t].cancelled => current'[task'[t].at] = t
               /\ task'[t].pc = "pending" /\ task'[t].cancelled => current'[task'[t].at] # t
    <2>1. task[t] \in Tasks /\ Shaped(task[t])
      BY DEF TasksInv, TypeOK, TasksShaped
    <2>2. CASE t = o
      <3>1. CASE task[t].pc = "done"
        <4>1. task'[t] = FreeTask
          BY <1>1, <2>2, <3>1
        <4> QED  BY <4>1, FreeTaskFacts
      <3>2. CASE task[t].pc # "done"
        <4>1. task'[t] = Cancelled(task[t])
          BY <1>1, <2>2, <3>2
        <4>2. task'[t].cancelled = TRUE /\ task'[t].at = task[t].at
          BY <2>1, <4>1, CancelledFacts
        <4>3. task[t].at = c
          BY <1>1, <1>7, <2>2, TaskNumbers DEF TasksInv, OwnersInv
        <4>4. current'[task'[t].at] = installing
          BY <1>1, <1>3, <4>2, <4>3
        <4> QED  BY <1>1, <2>2, <4>2, <4>4
      <3> QED  BY <3>1, <3>2
    <2>3. CASE t # o
      <3>1. task'[t] = task[t]
        BY <1>1, <2>3
      <3>2. CASE t = installing
        <4>1. current'[task'[t].at] = t
          BY <1>1, <1>3, <1>6, <3>1, <3>2
        <4>2. ~ (task[t].pc = "pending" /\ task[t].cancelled)
          BY <3>2 DEF TasksInv, OwnersInv
        <4> QED  BY <3>1, <4>1, <4>2
      <3>3. CASE t # installing
        <4>1. task[t].pc # "done" /\ ~ task[t].cancelled => current[task[t].at] = t
          BY <3>3 DEF TasksInv, OwnersInv, Live
        <4>2. task[t].pc = "pending" /\ task[t].cancelled => current[task[t].at] # t
          BY <3>3 DEF TasksInv, OwnersInv
        <4>3. task[t].pc # "done" => task[t].at \in Chunks
          BY <2>1, FreeTaskFacts DEF Shaped
        <4>4. task[t].pc # "done" =>
                 current'[task[t].at] = IF task[t].at = c THEN installing ELSE current[task[t].at]
          BY <1>3, <4>3
        <4>5. task[t].pc # "done" /\ ~ task[t].cancelled => task[t].at # c
          BY <1>7, <2>3, <4>1
        <4> QED  BY <3>1, <3>3, <4>1, <4>2, <4>4, <4>5
      <3> QED  BY <3>2, <3>3
    <2> QED  BY <2>2, <2>3
  <1> QED  BY <1>2, <1>8, <1>9, TaskNumbers DEF OwnersInv, Live

LEMMA OwnersUnload ==
    ASSUME TasksInv, NEW c \in Chunks, CommitUnload(c)
    PROVE  OwnersInv'
  <1>0. installing' = installing /\ current \in [Chunks -> TaskIds \cup {NoTask}]
    BY DEF CommitUnload, TasksInv, TypeOK
  <1>1. CASE place[c] # "active"
    <2>1. task' = task /\ current' = current
      BY <1>1 DEF CommitUnload
    <2> QED  BY <1>0, <2>1, OwnersKept
  <1>2. CASE place[c] = "active"
    <2> DEFINE o == current[c]
    <2>1. o \in TaskIds \cup {NoTask} /\ current' = [current EXCEPT ![c] = NoTask]
      BY <1>0, <1>2 DEF CommitUnload
    <2>2. PICK T \in [TaskIds -> Tasks] :
               /\ \A t \in TaskIds :
                    T[t] = IF t # o THEN task[t]
                           ELSE IF task[t].pc = "done" THEN FreeTask ELSE Cancelled(task[t])
               /\ \A t \in TaskIds :
                    task'[t] = IF T[t].future[c] = "asleep" THEN Heard(T[t], c, "poll") ELSE T[t]
      BY <1>2, UnloadTasks
    <2>3. \A d \in Chunks : current'[d] = IF d = c THEN NoTask ELSE current[d]
      BY <1>0, <2>1
    <2>4. \A d \in Chunks \ {c} : current[d] # o \/ o = NoTask
      BY <2>1 DEF TasksInv, OwnersInv
    <2>5. current[c] = o /\ (o # NoTask => task[o].at = c)
      BY DEF TasksInv, OwnersInv
    <2> HIDE DEF o
    <2>6. ASSUME NEW t \in TaskIds
          PROVE  /\ task'[t].at = T[t].at /\ task'[t].pc = T[t].pc
                 /\ task'[t].cancelled = T[t].cancelled
      <3>1. T[t] \in Tasks /\ "poll" \in Futures
        BY DEF Futures
      <3>2. CASE T[t].future[c] = "asleep"
        <4>1. task'[t] = Heard(T[t], c, "poll")
          BY <2>2, <3>2
        <4> DEFINE h == Heard(T[t], c, "poll")
        <4>2. h.at = T[t].at /\ h.pc = T[t].pc /\ h.cancelled = T[t].cancelled
          BY <3>1, HeardFacts
        <4> QED  BY <4>1, <4>2
      <3>3. CASE T[t].future[c] # "asleep"
        BY <2>2, <3>3
      <3> QED  BY <3>2, <3>3
    <2>7. \A t \in TaskIds \ {o} : T[t] = task[t]
      BY <2>2
    <2>8. o # NoTask => o # installing
      <3>1. installing # NoTask => current[task[installing].at] # installing
        BY DEF TasksInv, OwnersInv
      <3> QED  BY <2>5, <3>1
    <2>9. \A d \in Chunks : current'[d] # NoTask => task'[current'[d]].at = d
      <3> SUFFICES ASSUME NEW d \in Chunks, current'[d] # NoTask PROVE task'[current'[d]].at = d
        OBVIOUS
      <3>1. d # c /\ current'[d] = current[d] /\ current[d] \in TaskIds /\ current[d] # o
        BY <1>0, <2>3, <2>4
      <3> QED  BY <2>6, <2>7, <3>1 DEF TasksInv, OwnersInv
    <2>10. installing' # NoTask =>
              task'[installing'].at \in Chunks /\ current'[task'[installing'].at] # installing'
      <3> SUFFICES ASSUME installing # NoTask
                   PROVE  task'[installing].at \in Chunks /\ current'[task'[installing].at] # installing
        BY <1>0
      <3>1. installing \in TaskIds
        BY DEF TasksInv, TypeOK
      <3>2. task[installing].at \in Chunks /\ current[task[installing].at] # installing
        BY DEF TasksInv, OwnersInv
      <3>3. installing # o
        BY <2>8
      <3>4. task'[installing].at = task[installing].at
        BY <2>6, <2>7, <3>1, <3>3
      <3> QED  BY <2>3, <3>2, <3>4
    <2>11. ASSUME NEW t \in TaskIds
           PROVE  /\ task'[t].pc # "done" /\ ~ task'[t].cancelled =>
                        t = installing \/ current'[task'[t].at] = t
                  /\ task'[t].pc = "pending" /\ task'[t].cancelled =>
                        t # installing /\ current'[task'[t].at] # t
      <3>0. task[t] \in Tasks /\ Shaped(task[t])
        BY DEF TasksInv, TypeOK, TasksShaped
      <3>1. CASE t = o
        <4>1. CASE task[t].pc = "done"
          <5>1. T[t] = FreeTask
            BY <2>2, <3>1, <4>1
          <5> QED  BY <2>6, <5>1, FreeTaskFacts
        <4>2. CASE task[t].pc # "done"
          <5>1. T[t] = Cancelled(task[t])
            BY <2>2, <3>1, <4>2
          <5>2. T[t].cancelled = TRUE /\ T[t].at = c
            BY <2>5, <3>0, <3>1, <5>1, CancelledFacts, TaskNumbers
          <5>3. current'[task'[t].at] # t
            BY <2>3, <2>6, <5>2, TaskNumbers
          <5> QED  BY <2>6, <2>8, <3>1, <5>2, <5>3, TaskNumbers
        <4> QED  BY <4>1, <4>2
      <3>2. CASE t # o
        <4>1. task'[t].at = task[t].at /\ task'[t].pc = task[t].pc
              /\ task'[t].cancelled = task[t].cancelled
          BY <2>6, <2>7, <3>2
        <4>2. task[t].pc # "done" => task[t].at \in Chunks
          BY <3>0, FreeTaskFacts DEF Shaped
        <4>3. task[t].pc # "done" =>
                 current'[task[t].at] = IF task[t].at = c THEN NoTask ELSE current[task[t].at]
          BY <2>3, <4>2
        <4>4. task[t].pc # "done" /\ ~ task[t].cancelled =>
                  t = installing \/ current[task[t].at] = t
          BY DEF TasksInv, OwnersInv, Live
        <4>5. task[t].pc = "pending" /\ task[t].cancelled =>
                  t # installing /\ current[task[t].at] # t
          BY DEF TasksInv, OwnersInv
        <4> QED  BY <2>5, <3>2, <4>1, <4>3, <4>4, <4>5, TaskNumbers
      <3> QED  BY <3>1, <3>2
    <2> QED  BY <1>0, <2>9, <2>10, <2>11 DEF OwnersInv, Live
  <1> QED  BY <1>1, <1>2

LEMMA OwnersRefill ==
    ASSUME TasksInv, Refill
    PROVE  OwnersInv'
  <1>0. /\ current' = current /\ installing' = installing
        /\ current \in [Chunks -> TaskIds \cup {NoTask}] /\ installing \in TaskIds \cup {NoTask}
    BY DEF Refill, holderVars, epochVars, TasksInv, TypeOK
  <1>1. ASSUME NEW t \in TaskIds
        PROVE  \/ task'[t].at = task[t].at /\ task'[t].cancelled = task[t].cancelled
                  /\ (task'[t].pc # "done" => task[t].pc # "done")
                  /\ (task'[t].pc = "pending" => task[t].pc = "pending")
               \/ task'[t].pc = "done" /\ task[t].pc = "pending" /\ task[t].cancelled
    <2>1. task[t] \in Tasks
      BY DEF TasksInv, TypeOK
    <2>2. CASE task'[t] = task[t]
      BY <2>2
    <2>3. CASE task[t].pc = "pending" /\ task'[t] = Started(task[t])
      <3> DEFINE k == Started(task[t])
      <3>1. k.at = task[t].at /\ k.cancelled = task[t].cancelled /\ k.pc = "wait"
        BY <2>1, StartedFacts
      <3> QED  BY <2>3, <3>1
    <2>4. CASE task[t].pc = "pending" /\ task[t].cancelled /\ task'[t] = FreeTask
      BY <2>4, FreeTaskFacts
    <2> QED  BY <2>2, <2>3, <2>4, RefillTasks
  <1>2. \A t \in TaskIds : task[t].pc = "pending" /\ task[t].cancelled =>
            t # installing /\ \A d \in Chunks : current[d] # t
    BY TaskNumbers DEF TasksInv, OwnersInv
  <1>3. \A d \in Chunks : current'[d] # NoTask => task'[current'[d]].at = d
    <2> SUFFICES ASSUME NEW d \in Chunks, current[d] # NoTask PROVE task'[current[d]].at = d
      BY <1>0
    <2>1. current[d] \in TaskIds /\ task[current[d]].at = d
      BY <1>0 DEF TasksInv, OwnersInv
    <2> QED  BY <1>1, <1>2, <2>1
  <1>4. installing' # NoTask =>
           task'[installing'].at \in Chunks /\ current'[task'[installing'].at] # installing'
    <2> SUFFICES ASSUME installing # NoTask
                 PROVE  task'[installing].at \in Chunks /\ current[task'[installing].at] # installing
      BY <1>0
    <2>1. installing \in TaskIds
      BY <1>0
    <2>2. task'[installing].at = task[installing].at
      BY <1>1, <1>2, <2>1
    <2> QED  BY <2>2 DEF TasksInv, OwnersInv
  <1>5. ASSUME NEW t \in TaskIds
        PROVE  /\ task'[t].pc # "done" /\ ~ task'[t].cancelled =>
                     t = installing \/ current[task'[t].at] = t
               /\ task'[t].pc = "pending" /\ task'[t].cancelled =>
                     t # installing /\ current[task'[t].at] # t
    <2>1. task[t].pc # "done" /\ ~ task[t].cancelled => t = installing \/ current[task[t].at] = t
      BY DEF TasksInv, OwnersInv, Live
    <2>2. task[t].pc = "pending" /\ task[t].cancelled => t # installing /\ current[task[t].at] # t
      BY DEF TasksInv, OwnersInv
    <2> QED  BY <1>1, <2>1, <2>2
  <1> QED  BY <1>0, <1>3, <1>4, <1>5 DEF OwnersInv, Live

LEMMA OwnersFinish ==
    ASSUME TasksInv, NEW t \in TaskIds, Finish(t)
    PROVE  OwnersInv'
  <1> DEFINE c == task[t].at
             owners == IF current[c] = t THEN [current EXCEPT ![c] = NoTask] ELSE current
  <1>1. current' = owners /\ task' = Finished(task, t, owners) /\ installing' = installing
    BY DEF Finish, epochVars
  <1>2. /\ current \in [Chunks -> TaskIds \cup {NoTask}] /\ installing \in TaskIds \cup {NoTask}
        /\ task \in [TaskIds -> Tasks] /\ task[t] \in Tasks /\ Shaped(task[t])
    BY DEF TasksInv, TypeOK, TasksShaped
  <1>3. c \in Chunks /\ task[t].pc = "wait"
    BY <1>2, FreeTaskFacts DEF Finish, Shaped
  <1>4. \A d \in Chunks \ {c} : current[d] # t
    BY TaskNumbers DEF TasksInv, OwnersInv
  <1>5. \A d \in Chunks : current'[d] = IF d = c /\ current[c] = t THEN NoTask ELSE current[d]
    BY <1>1, <1>2, <1>3
  <1>6. \A d \in Chunks : current'[d] # t
    BY <1>4, <1>5, TaskNumbers
  <1>7. /\ \A u \in TaskIds \ {t} : task'[u] = task[u]
        /\ task'[t] = IF t = installing THEN Ended(task[t]) ELSE FreeTask
    <2>1. \A d \in Chunks : owners[d] # t
      BY <1>1, <1>6
    <2> HIDE DEF owners
    <2>2. /\ \A u \in TaskIds \ {t} : task'[u] = task[u]
          /\ task'[t] = IF t = installing \/ \E d \in Chunks : owners[d] = t
                        THEN Ended(task[t]) ELSE FreeTask
      BY <1>1, <1>2, FinishedFacts
    <2> QED  BY <2>1, <2>2
  <1>8. task'[t].pc = "done" /\ (t = installing => task'[t].at = task[t].at)
    BY <1>2, <1>7, EndedFacts, FreeTaskFacts
  <1> HIDE DEF owners, c
  <1>9. \A d \in Chunks : current'[d] # NoTask => task'[current'[d]].at = d
    <2> SUFFICES ASSUME NEW d \in Chunks, current'[d] # NoTask PROVE task'[current'[d]].at = d
      OBVIOUS
    <2>1. current'[d] = current[d] /\ current[d] \in TaskIds \ {t}
      BY <1>2, <1>5, <1>6
    <2> QED  BY <1>7, <2>1 DEF TasksInv, OwnersInv
  <1>10. installing' # NoTask =>
           task'[installing'].at \in Chunks /\ current'[task'[installing'].at] # installing'
    <2> SUFFICES ASSUME installing # NoTask
                 PROVE  task'[installing].at \in Chunks /\ current'[task'[installing].at] # installing
      BY <1>1
    <2>1. installing \in TaskIds
      BY <1>2
    <2>2. task'[installing].at = task[installing].at
      BY <1>7, <1>8, <2>1
    <2>3. task[installing].at \in Chunks /\ current[task[installing].at] # installing
      BY DEF TasksInv, OwnersInv
    <2> QED  BY <1>5, <2>2, <2>3
  <1>11. ASSUME NEW u \in TaskIds
         PROVE  /\ task'[u].pc # "done" /\ ~ task'[u].cancelled =>
                      u = installing \/ current'[task'[u].at] = u
                /\ task'[u].pc = "pending" /\ task'[u].cancelled =>
                      u # installing /\ current'[task'[u].at] # u
    <2>1. CASE u = t
      BY <1>8, <2>1
    <2>2. CASE u # t
      <3>1. task'[u] = task[u] /\ task[u] \in Tasks /\ Shaped(task[u])
        BY <1>2, <1>7, <2>2 DEF TasksInv, TasksShaped
      <3>2. task[u].pc # "done" => task[u].at \in Chunks
        BY <3>1, FreeTaskFacts DEF Shaped
      <3>3. task[u].pc # "done" =>
               current'[task[u].at] = current[task[u].at]
                 \/ (current[task[u].at] = t /\ current'[task[u].at] = NoTask)
        BY <1>5, <3>2
      <3>4. task[u].pc # "done" /\ ~ task[u].cancelled => u = installing \/ current[task[u].at] = u
        BY DEF TasksInv, OwnersInv, Live
      <3>5. task[u].pc = "pending" /\ task[u].cancelled => u # installing /\ current[task[u].at] # u
        BY DEF TasksInv, OwnersInv
      <3> QED  BY <2>2, <3>1, <3>3, <3>4, <3>5, TaskNumbers
    <2> QED  BY <2>1, <2>2
  <1> QED  BY <1>1, <1>9, <1>10, <1>11 DEF OwnersInv, Live

LEMMA WithFutureKeeps ==
    ASSUME NEW k \in Tasks, k.pc = "layer", NEW c \in Chunks, NEW f \in Futures,
           NEW l, l = WithFuture(k, c, f)
    PROVE  l.at = k.at /\ l.cancelled = k.cancelled /\ l.pc # "pending"
  BY DEF WithFuture, Tasks

LEMMA OwnersStep ==
    ASSUME TasksInv, [Next]_vars
    PROVE  OwnersInv'
  <1> USE DEF ticketVars, epochVars, holderVars, saveVars, workVars
  <1>0. /\ task \in [TaskIds -> Tasks] /\ \A t \in TaskIds : task[t] \in Tasks
        /\ \A t \in TaskIds : task[t].cancelled \in BOOLEAN
    BY TaskFields DEF TasksInv, TypeOK
  <1>a. ASSUME NEW c \in Chunks, NEW f \in {"ready", "failed"},
               task' = Woken(Answered(task, c, f), c), UNCHANGED <<current, installing>>
        PROVE  OwnersInv'
    <2>1. ASSUME NEW t \in TaskIds
          PROVE  /\ task'[t].at = task[t].at /\ task'[t].pc = task[t].pc
                 /\ task'[t].cancelled = task[t].cancelled
      <3>1. f \in Futures /\ "poll" \in Futures /\ task[t] \in Tasks
        BY <1>0 DEF Futures
      <3>2. \A g \in Futures : /\ Heard(task[t], c, g).at = task[t].at
                               /\ Heard(task[t], c, g).pc = task[t].pc
                               /\ Heard(task[t], c, g).cancelled = task[t].cancelled
        BY <3>1, HeardFacts
      <3>3. \/ task'[t] = Heard(task[t], c, f)
            \/ task'[t] = Heard(task[t], c, "poll")
            \/ task'[t] = task[t]
        BY <1>0, <1>a, AnsweredFacts
      <3> QED  BY <3>1, <3>2, <3>3
    <2> QED  BY <1>a, <2>1, OwnersKept
  <1>b. ASSUME UNCHANGED <<task, current, installing>> PROVE OwnersInv'
    BY <1>b, OwnersKept
  <1>1. CASE Install
    BY <1>1, OwnersInstall
  <1>2. CASE Refill
    BY <1>2, OwnersRefill
  <1>3. ASSUME NEW c \in Chunks, Offer(c) PROVE OwnersInv'
    BY <1>3, OwnersOffer
  <1>4. ASSUME NEW c \in Chunks, CommitUnload(c) PROVE OwnersInv'
    BY <1>4, OwnersUnload
  <1>5. ASSUME NEW u \in TaskIds, Advance(u) PROVE OwnersInv'
    <2>1. UNCHANGED <<current, installing>> /\ task[u].pc = "wait"
      BY <1>5 DEF Advance
    <2>2. ASSUME NEW t \in TaskIds
          PROVE  /\ task'[t].at = task[t].at
                 /\ task'[t].pc # "done" => task[t].pc # "done"
                 /\ task[t].cancelled => task'[t].cancelled
                 /\ task'[t].pc = "pending" =>
                       task[t].pc = "pending" /\ task'[t].cancelled = task[t].cancelled
      <3>1. CASE t # u
        BY <1>5, <3>1, AdvanceTasks
      <3>2. CASE t = u /\ task'[u] = Cancelled(task[u])
        <4> DEFINE k == Cancelled(task[u])
        <4>1. k.at = task[u].at /\ k.pc = "wait" /\ k.cancelled
          BY <1>0, <2>1, CancelledFacts
        <4> QED  BY <2>1, <3>2, <4>1
      <3>3. CASE t = u /\ task'[u] = NextLayer(task[u])
        <4> DEFINE k == NextLayer(task[u])
        <4>1. k.at = task[u].at /\ k.pc = "layer" /\ k.cancelled = task[u].cancelled
          BY <1>0, <1>5, AdvanceTasks, NextLayerFacts
        <4> QED  BY <2>1, <3>3, <4>1
      <3> QED  BY <1>5, <3>1, <3>2, <3>3, AdvanceTasks
    <2> QED  BY <2>1, <2>2, OwnersKept
  <1>6. ASSUME NEW u \in TaskIds, Finish(u) PROVE OwnersInv'
    BY <1>6, OwnersFinish
  <1>7. ASSUME NEW u \in TaskIds, ApplyStep(u) PROVE OwnersInv'
    <2>1. UNCHANGED <<current, installing>> /\ task[u].pc = "layer"
      BY <1>7 DEF ApplyStep
    <2>2. ASSUME NEW t \in TaskIds
          PROVE  /\ task'[t].at = task[t].at
                 /\ task'[t].pc # "done" => task[t].pc # "done"
                 /\ task[t].cancelled => task'[t].cancelled
                 /\ task'[t].pc = "pending" =>
                       task[t].pc = "pending" /\ task'[t].cancelled = task[t].cancelled
      <3>1. CASE t # u
        BY <1>7, <3>1, ApplyTasks
      <3>2. CASE t = u /\ task'[u] = GivenUp(task[u])
        <4> DEFINE k == GivenUp(task[u])
        <4>1. k.at = task[u].at /\ k.pc = "wait" /\ k.cancelled
          BY <1>0, GivenUpFacts
        <4> QED  BY <2>1, <3>2, <4>1
      <3>3. CASE t = u /\ \E f \in Futures : task'[u] = WithFuture(task[u], Min(task[u].todo), f)
        <4>1. PICK f \in Futures : task'[u] = WithFuture(task[u], Min(task[u].todo), f)
          BY <3>3
        <4>2. Min(task[u].todo) \in Chunks
          BY <2>1, NextOfLayer
        <4> DEFINE m == Min(task[u].todo)
        <4>3. task[u] \in Tasks /\ m \in Chunks /\ f \in Futures /\ task'[u] = WithFuture(task[u], m, f)
          BY <1>0, <4>1, <4>2
        <4> HIDE DEF m
        <4>4. /\ task'[u].at = task[u].at /\ task'[u].cancelled = task[u].cancelled
              /\ task'[u].pc # "pending"
          BY <2>1, <4>3, WithFutureKeeps
        <4> QED  BY <2>1, <3>3, <4>4
      <3>4. "poll" \in Futures /\ "own" \in Futures
        BY DEF Futures
      <3> QED  BY <1>7, <3>1, <3>2, <3>3, <3>4, ApplyTasks
    <2> QED  BY <2>1, <2>2, OwnersKept
  <1>8. ASSUME NEW u \in TaskIds, NEW c \in Chunks, PollWaiter(u, c) PROVE OwnersInv'
    <2>1. UNCHANGED <<current, installing>>
      BY <1>8 DEF PollWaiter
    <2>2. ASSUME NEW t \in TaskIds
          PROVE  /\ task'[t].at = task[t].at /\ task'[t].pc = task[t].pc
                 /\ task'[t].cancelled = task[t].cancelled
      <3>1. t # u => task'[t] = task[t]
        BY <1>8, PollTasks
      <3>2. PICK f \in {"ready", "failed", "asleep"} : task'[u] = Heard(task[u], c, f)
        BY <1>8, PollTasks
      <3>3. f \in Futures
        BY DEF Futures
      <3> DEFINE k == Heard(task[u], c, f)
      <3>4. k.at = task[u].at /\ k.pc = task[u].pc /\ k.cancelled = task[u].cancelled
        BY <1>0, <3>3, HeardFacts
      <3> QED  BY <3>1, <3>2, <3>4
    <2> QED  BY <2>1, <2>2, OwnersKept
  <1>9. ASSUME NEW c \in Chunks, Load(c) PROVE OwnersInv'
    <2>1. task' = task \/ task' = Woken(Answered(task, c, "ready"), c)
      BY <1>9 DEF Load, Publish
    <2>2. UNCHANGED <<current, installing>>
      BY <1>9 DEF Load
    <2> QED  BY <1>a, <1>b, <2>1, <2>2
  <1>10. ASSUME NEW c \in Chunks, StepDone(c) PROVE OwnersInv'
    BY <1>10, <1>a DEF StepDone, Publish
  <1>11. ASSUME NEW c \in Chunks, Abandon(c) PROVE OwnersInv'
    BY <1>11, <1>a DEF Abandon
  <1>12. CASE \/ EndOffers \/ EndUnloads \/ \E T \in Tickets : EndCommit(T)
              \/ \E c \in Chunks : \/ VisitUnloading(c) \/ CommitLoad(c) \/ ReserveForSave(c)
                                   \/ Saved(c) \/ Acquire(c) \/ StepPanics(c)
              \/ UNCHANGED vars
    <2>1. UNCHANGED <<task, current, installing>>
      BY <1>12 DEF EndOffers, EndUnloads, EndCommit, VisitUnloading, CommitLoad, ReserveForSave,
                   Saved, Acquire, StepPanics, vars
    <2> QED  BY <1>b, <2>1
  <1> QED
    BY <1>1, <1>2, <1>3, <1>4, <1>5, <1>6, <1>7, <1>8, <1>9, <1>10, <1>11, <1>12 DEF Next

LEMMA InitTasks == Init => TasksInv
  <1> SUFFICES ASSUME Init PROVE TasksInv
    OBVIOUS
  <1>1. /\ \A t \in TaskIds : task[t] = FreeTask
        /\ \A c \in Chunks : current[c] = NoTask
        /\ installing = NoTask
    BY DEF Init
  <1>2. TasksShaped
    BY <1>1, ShapedFree DEF TasksShaped
  <1>3. OwnersInv
    BY <1>1, FreeTaskFacts DEF OwnersInv, Live
  <1> QED  BY <1>2, <1>3, InitTyped DEF TasksInv

LEMMA TasksStep == TasksInv /\ [Next]_vars => TasksInv'
  BY TypeStep, ShapedStep, OwnersStep DEF TasksInv

(* Every step keeps the types: no status, level or chunk out of range is   *)
(* stored, and no task is looked up under the number of none.              *)
THEOREM GenerationTyped == Spec => []TypeOK
  <1>1. TasksInv => TypeOK
    BY DEF TasksInv
  <1> QED  BY <1>1, InitTasks, TasksStep, PTL DEF Spec

-----------------------------------------------------------------------------
(* What tasks rely on.                                                     *)

LEMMA ReliesFree == Relies(FreeTask)
  BY FreeTaskFacts DEF Relies, Driven, Answer

LEMMA ReliesFrom ==
    ASSUME NEW k \in Tasks, NEW l \in Tasks, Relies(k),
           l.at = k.at, l.target = k.target, l.scheduled = k.scheduled,
           \A c \in Chunks : l.future[c] = k.future[c] \/ l.future[c] \in {"poll", "failed"},
           l.pc \in {"wait", "layer"} /\ ~ l.cancelled =>
               \/ k.scheduled = None
               \/ /\ k.pc \in {"wait", "layer"} /\ ~ k.cancelled
                  /\ \A c \in k.todo : c \in l.todo \/ l.future[c] # "none"
    PROVE  Relies(l)
  <1>1. \A s : Layer(l, s) = Layer(k, s)
    BY DEF Layer
  <1>2. \A c \in Chunks : Answer(l, c)
    BY DEF Relies, Answer
  <1>3. ASSUME l.pc \in {"wait", "layer"}, ~ l.cancelled
        PROVE  /\ \A s \in 0 .. (l.scheduled - 1) : \A c \in Layer(l, s) : published[c] >= s
               /\ l.scheduled >= 0 =>
                     \A c \in Layer(l, l.scheduled) : c \in l.todo \/ l.future[c] # "none"
    <2>1. CASE k.scheduled = None
      BY <2>1 DEF None
    <2>2. CASE /\ k.pc \in {"wait", "layer"} /\ ~ k.cancelled
               /\ \A c \in k.todo : c \in l.todo \/ l.future[c] # "none"
      <3>1. /\ \A s \in 0 .. (k.scheduled - 1) : \A c \in Layer(k, s) : published[c] >= s
            /\ k.scheduled >= 0 =>
                  \A c \in Layer(k, k.scheduled) : c \in k.todo \/ k.future[c] # "none"
        BY <2>2 DEF Relies, Driven
      <3>2. Layer(k, k.scheduled) \subseteq Chunks
        BY DEF Layer, Square
      <3> HIDE DEF Layer
      <3>3. \A s \in 0 .. (l.scheduled - 1) : \A c \in Layer(l, s) : published[c] >= s
        BY <1>1, <3>1
      <3>4. \A c \in Chunks : k.future[c] # "none" => l.future[c] # "none"
        OBVIOUS
      <3>5. k.scheduled >= 0 =>
               \A c \in Layer(k, k.scheduled) : c \in l.todo \/ l.future[c] # "none"
        BY <2>2, <3>1, <3>2, <3>4
      <3> QED  BY <1>1, <3>3, <3>5
    <2> QED  BY <1>3, <2>1, <2>2
  <1>4. Driven(l)
    BY <1>3 DEF Driven
  <1> QED  BY <1>2, <1>4 DEF Relies

LEMMA ReliesHeard ==
    ASSUME NEW k \in Tasks, Relies(k), NEW c \in Chunks, NEW f \in Futures,
           k.future[c] # "none", Answer(Heard(k, c, f), c), f # "none"
    PROVE  Relies(Heard(k, c, f))
  <1> DEFINE l == Heard(k, c, f)
  <1>1. /\ l \in Tasks /\ l.at = k.at /\ l.target = k.target /\ l.pc = k.pc
        /\ l.scheduled = k.scheduled /\ l.todo = k.todo /\ l.future = [k.future EXCEPT ![c] = f]
    BY HeardFacts
  <1>2. l.cancelled = k.cancelled /\ k.future \in [Chunks -> Futures]
    <2>1. l.cancelled = k.cancelled
      BY DEF Heard, Tasks
    <2> QED  BY <2>1, TaskFields
  <1>3. Answer(l, c)
    OBVIOUS
  <1> HIDE DEF l
  <1>4. \A d \in Chunks \ {c} : l.future[d] = k.future[d]
    BY <1>1, <1>2
  <1>5. l.future[c] # "none"
    BY <1>1, <1>2
  <1>6. \A d \in Chunks : Answer(l, d)
    BY <1>1, <1>3, <1>4 DEF Relies, Answer
  <1>7. \A s : Layer(l, s) = Layer(k, s) /\ Layer(k, s) \subseteq Chunks
    BY <1>1 DEF Layer, Square
  <1>8. Driven(l)
    <2>1. \A d \in Chunks : k.future[d] # "none" => l.future[d] # "none"
      BY <1>4, <1>5
    <2> HIDE DEF Layer
    <2> SUFFICES ASSUME l.pc \in {"wait", "layer"}, ~ l.cancelled
                 PROVE  /\ \A s \in 0 .. (l.scheduled - 1) :
                              \A d \in Layer(l, s) : published[d] >= s
                        /\ l.scheduled >= 0 =>
                              \A d \in Layer(l, l.scheduled) : d \in l.todo \/ l.future[d] # "none"
      BY DEF Driven
    <2>2. k.pc \in {"wait", "layer"} /\ ~ k.cancelled
      BY <1>1, <1>2
    <2>3. /\ \A s \in 0 .. (k.scheduled - 1) : \A d \in Layer(k, s) : published[d] >= s
          /\ k.scheduled >= 0 =>
                \A d \in Layer(k, k.scheduled) : d \in k.todo \/ k.future[d] # "none"
      BY <2>2 DEF Relies, Driven
    <2> QED  BY <1>1, <1>7, <2>1, <2>3
  <1> QED  BY <1>6, <1>8 DEF Relies, l

LEMMA ReliesCancelled ==
    ASSUME NEW k \in Tasks, Relies(k)
    PROVE  Relies(Cancelled(k))
  <1> DEFINE l == Cancelled(k)
  <1>1. /\ l \in Tasks /\ l.at = k.at /\ l.target = k.target /\ l.cancelled = TRUE
        /\ l.scheduled = k.scheduled /\ l.future = k.future
    BY CancelledFacts
  <1> HIDE DEF l
  <1> QED  BY <1>1, ReliesFrom DEF l

LEMMA ReliesEnded ==
    ASSUME NEW k \in Tasks, Relies(k)
    PROVE  Relies(Ended(k))
  <1> DEFINE l == Ended(k)
  <1>1. /\ l \in Tasks /\ l.at = k.at /\ l.target = k.target /\ l.pc = "done"
        /\ l.scheduled = k.scheduled /\ l.future = k.future
    BY EndedFacts
  <1> HIDE DEF l
  <1> QED  BY <1>1, ReliesFrom DEF l

LEMMA ReliesStarted ==
    ASSUME NEW k \in Tasks, Relies(k), k.scheduled = None
    PROVE  Relies(Started(k))
  <1> DEFINE l == Started(k)
  <1>1. /\ l \in Tasks /\ l.at = k.at /\ l.target = k.target
        /\ l.scheduled = k.scheduled /\ l.future = k.future
    BY StartedFacts
  <1> HIDE DEF l
  <1> QED  BY <1>1, ReliesFrom DEF l

LEMMA ReliesGivenUp ==
    ASSUME NEW k \in Tasks, Relies(k)
    PROVE  Relies(GivenUp(k))
  <1> DEFINE l == GivenUp(k)
  <1>1. /\ l \in Tasks /\ l.at = k.at /\ l.target = k.target /\ l.cancelled = TRUE
        /\ l.scheduled = k.scheduled /\ l.future = k.future
    BY GivenUpFacts
  <1> HIDE DEF l
  <1> QED  BY <1>1, ReliesFrom DEF l

LEMMA ReliesPolling ==
    ASSUME NEW k \in Tasks, Relies(k), k.pc = "layer", ~ k.cancelled, NEW c \in k.todo
    PROVE  Relies(WithFuture(k, c, "poll"))
  <1> DEFINE l == WithFuture(k, c, "poll")
  <1>1. c \in Chunks /\ k.future \in [Chunks -> Futures] /\ "poll" \in Futures /\ k.todo \subseteq Chunks
    BY TaskFields DEF Futures
  <1>2. /\ l \in Tasks /\ l.at = k.at /\ l.target = k.target
        /\ l.scheduled = k.scheduled /\ l.todo = k.todo \ {c}
        /\ l.future = [k.future EXCEPT ![c] = "poll"]
    BY <1>1, WithFutureFacts
  <1> HIDE DEF l
  <1>3. \A d \in Chunks : l.future[d] = k.future[d] \/ l.future[d] = "poll"
    BY <1>1, <1>2
  <1>4. \A d \in k.todo : d \in l.todo \/ l.future[d] # "none"
    BY <1>1, <1>2
  <1> QED  BY <1>2, <1>3, <1>4, ReliesFrom DEF l

LEMMA ReliesNewTask ==
    ASSUME NEW c \in Chunks, NEW s \in Statuses
    PROVE  Relies(NewTask(c, s))
  <1> DEFINE l == NewTask(c, s)
  <1>1. l.pc = "pending" /\ \A d \in Chunks : l.future[d] = "none"
    BY DEF NewTask, FreeTask
  <1> HIDE DEF l
  <1>2. \A d \in Chunks : Answer(l, d)
    BY <1>1 DEF Answer
  <1> QED  BY <1>1, <1>2 DEF Relies, Driven, l

(* The whole layer is published: the next one may be scheduled.            *)
LEMMA ReliesNextLayer ==
    ASSUME TypeOK, NEW k \in Tasks, Shaped(k), Relies(k), k.pc = "wait", ~ k.cancelled,
           k.scheduled < k.target,
           \A c \in Chunks : k.future[c] \in {"none", "ready"}
    PROVE  Relies(NextLayer(k))
  <1> DEFINE l == NextLayer(k)
  <1>0. k # FreeTask
    BY FreeTaskFacts
  <1>1. k.target \in Statuses /\ k.scheduled \in Statuses \cup {None} /\ k.todo = {}
    BY <1>0, TaskFields DEF Shaped
  <1>2. k.scheduled + 1 \in Statuses
    BY <1>1, StatusFacts DEF Statuses, None
  <1>3. /\ l.at = k.at /\ l.target = k.target
        /\ l.scheduled = k.scheduled + 1 /\ l.todo = Layer(k, k.scheduled + 1)
        /\ l.future = FreeTask.future
    BY <1>2, NextLayerFacts
  <1> HIDE DEF l
  <1>4. \A s : Layer(l, s) = Layer(k, s) /\ Layer(k, s) \subseteq Chunks
    BY <1>3 DEF Layer, Square
  <1> HIDE DEF Layer
  <1>5. \A c \in Chunks : Answer(l, c)
    BY <1>3, FreeTaskFacts DEF Answer
  <1>6. /\ \A s \in 0 .. (k.scheduled - 1) : \A c \in Layer(k, s) : published[c] >= s
        /\ k.scheduled >= 0 => \A c \in Layer(k, k.scheduled) : k.future[c] # "none"
    BY <1>1 DEF Relies, Driven
  <1>7. \A c \in Chunks : k.future[c] = "ready" => published[c] >= k.scheduled
    BY DEF Relies, Answer
  <1>8. k.scheduled >= 0 => \A c \in Layer(k, k.scheduled) : published[c] >= k.scheduled
    BY <1>4, <1>6, <1>7
  <1>9. \A s \in 0 .. (l.scheduled - 1) : \A c \in Layer(l, s) : published[c] >= s
    <2> SUFFICES ASSUME NEW s \in 0 .. k.scheduled, NEW c \in Layer(k, s) PROVE published[c] >= s
      <3>1. l.scheduled - 1 = k.scheduled
        BY <1>1, <1>3, StatusFacts DEF Statuses, None
      <3> QED  BY <1>4, <3>1
    <2>1. s = k.scheduled \/ s \in 0 .. (k.scheduled - 1)
      BY <1>1, StatusFacts DEF Statuses, None
    <2>2. k.scheduled \in Int
      BY <1>1, StatusFacts DEF Statuses, None
    <2> QED  BY <1>6, <1>8, <2>1, <2>2
  <1>10. \A c \in Layer(l, l.scheduled) : c \in l.todo \/ l.future[c] # "none"
    BY <1>3, <1>4
  <1> QED  BY <1>5, <1>9, <1>10 DEF Relies, Driven, l

(* What may change under a task without taking anything it relies on.      *)
LEMMA ReliesStill ==
    ASSUME TypeOK, TypeOK', NEW l \in Tasks, Shaped(l), Relies(l),
           \A c \in Chunks : l.future[c] \in {"own", "asleep"} =>
               producer'[c].status = producer[c].status /\ published'[c] = published[c],
           l # FreeTask => \A c \in CacheOf(l.at, l.target) : published'[c] >= published[c]
    PROVE  Relies(l)'
  <1>1. CASE l = FreeTask
    <2>1. /\ \A c \in Chunks : l.future[c] = "none"
          /\ l.pc = "done"
      BY <1>1, FreeTaskFacts
    <2> QED  BY <2>1 DEF Relies, Driven, Answer
  <1>2. CASE l # FreeTask
    <2>1. /\ l.at \in Chunks /\ l.target \in Statuses /\ l.scheduled <= l.target
          /\ l.scheduled = None => \A c \in Chunks : l.future[c] = "none"
          /\ \A c \in Chunks : l.future[c] # "none" => c \in Layer(l, l.scheduled)
          /\ l.scheduled \in Statuses \cup {None}
      BY <1>2, TaskFields DEF Shaped
    <2>2. \A c \in Chunks : /\ published[c] \in Int /\ published'[c] \in Int
      BY StatusFacts DEF TypeOK, Statuses, None
    <2>3. \A s \in 0 .. l.target : Layer(l, s) \subseteq CacheOf(l.at, l.target) /\ Layer(l, s) \subseteq Chunks
      BY <2>1, LayerFacts
    <2>4. l.scheduled \in Statuses => l.scheduled \in 0 .. l.target
      BY <2>1, StatusFacts DEF Statuses
    <2>5. l.scheduled \in Int /\ l.target \in Int /\ (l.scheduled \in Statuses => l.scheduled \in Nat)
      BY <2>1, StatusFacts DEF Statuses, None
    <2>6. \A c \in Chunks : l.future[c] # "none" => published'[c] >= published[c]
      BY <1>2, <2>1, <2>3, <2>4
    <2>7. \A c \in Chunks : Answer(l, c)'
      BY <2>2, <2>5, <2>6 DEF Relies, Answer
    <2>8. ASSUME l.pc \in {"wait", "layer"}, ~ l.cancelled
          PROVE  /\ \A s \in 0 .. (l.scheduled - 1) : \A c \in Layer(l, s) : published'[c] >= s
                 /\ l.scheduled >= 0 =>
                       \A c \in Layer(l, l.scheduled) : c \in l.todo \/ l.future[c] # "none"
      <3>1. /\ \A s \in 0 .. (l.scheduled - 1) : \A c \in Layer(l, s) : published[c] >= s
            /\ l.scheduled >= 0 =>
                  \A c \in Layer(l, l.scheduled) : c \in l.todo \/ l.future[c] # "none"
        BY <2>8 DEF Relies, Driven
      <3>2. ASSUME NEW s \in 0 .. (l.scheduled - 1), NEW c \in Layer(l, s)
            PROVE  published'[c] >= s
        <4>1. s \in 0 .. l.target /\ s \in Int
          BY <2>1, <2>5
        <4>2. c \in CacheOf(l.at, l.target) /\ c \in Chunks
          BY <2>3, <4>1
        <4>3. published[c] >= s /\ published'[c] >= published[c]
          BY <1>2, <3>1, <4>2
        <4> QED  BY <2>2, <4>1, <4>2, <4>3
      <3> QED  BY <3>1, <3>2
    <2>9. Driven(l)'
      BY <2>8 DEF Driven, Layer
    <2> QED  BY <2>7, <2>9 DEF Relies
  <1> QED  BY <1>1, <1>2

-----------------------------------------------------------------------------
(* Producers.                                                              *)

LEMMA ElementOf ==
    ASSUME NEW S, NEW q \in Seq(S), NEW j \in 1 .. Len(q)
    PROVE  q[j] \in S
  OBVIOUS

LEMMA NeedFacts ==
    ASSUME NEW t \in Statuses, NEW s \in 0 .. t
    PROVE  LET direct == Step(Pyramid, s).direct IN
           /\ direct \in Seq(0 .. (s - 1))
           /\ \A j \in 1 .. Len(direct) :
                 LayerRadius(Pyramid, t, s) + j - 1 <= LayerRadius(Pyramid, t, direct[j])
  <1> DEFINE direct == Step(Pyramid, s).direct
  <1>1. s \in 0 .. FullIndex(Pyramid) /\ t \in 0 .. FullIndex(Pyramid)
    BY StatusFacts DEF Statuses, Full
  <1>2. /\ direct \in Seq(0 .. (s - 1))
        /\ \A j \in DOMAIN direct :
              LayerRadius(Pyramid, t, s) + j - 1 <= LayerRadius(Pyramid, t, direct[j])
    BY <1>1, GenerationAssumption DEF WellFormed
  <1> HIDE DEF direct
  <1>3. DOMAIN direct = 1 .. Len(direct)
    BY <1>2
  <1> QED  BY <1>2, <1>3 DEF direct

(* The layers below a task's have what a step of its layer needs.          *)
LEMMA ClaimIsSupplied ==
    ASSUME TypeOK, NEW k \in Tasks, Shaped(k), Relies(k), k.pc = "layer", ~ k.cancelled,
           NEW c \in k.todo
    PROVE  /\ c \in Chunks /\ c \in CacheOf(k.at, k.target)
           /\ published[c] >= k.scheduled - 1
           /\ Supplied(c, k.scheduled, CacheOf(k.at, k.target))
  <1> DEFINE s == k.scheduled
             direct == Step(Pyramid, s).direct
  <1>0. k # FreeTask
    BY FreeTaskFacts
  <1>1. /\ k.at \in Chunks /\ k.target \in Statuses /\ s \in Statuses /\ s <= k.target
        /\ k.todo \subseteq Layer(k, s)
    <2>1. k.scheduled \in Statuses \cup {None} /\ k.scheduled # None
      BY <1>0, TaskFields DEF Shaped
    <2> QED  BY <1>0, <2>1 DEF Shaped
  <1>2. s \in 0 .. k.target /\ s \in Nat /\ k.target \in Nat
    BY <1>1, StatusFacts DEF Statuses
  <1>3. c \in Layer(k, s) /\ c \in Chunks /\ c \in CacheOf(k.at, k.target)
    BY <1>1, <1>2, LayerFacts
  <1>4. \A q \in 0 .. (s - 1) : \A d \in Layer(k, q) : published[d] >= q
    BY DEF Relies, Driven
  <1>5. published[c] >= s - 1
    <2>1. CASE s = 0
      <3>1. published[c] \in Statuses \cup {None}
        BY <1>3 DEF TypeOK
      <3> QED  BY <2>1, <3>1, StatusFacts DEF Statuses, None
    <2>2. CASE s > 0
      <3>1. c \in Layer(k, s - 1)
        BY <1>1, <1>2, <1>3, <2>2, LayerFacts
      <3>2. s - 1 \in 0 .. (s - 1)
        BY <1>2, <2>2
      <3> QED  BY <1>4, <3>1, <3>2
    <2> QED  BY <1>2, <2>1, <2>2
  <1>6. ASSUME NEW d \in Chunks, Distance(c, d) < Len(direct)
        PROVE  d \in CacheOf(k.at, k.target) /\ published[d] >= direct[Distance(c, d) + 1]
    <2> DEFINE j == Distance(c, d) + 1
               q == direct[j]
    <2>1. /\ direct \in Seq(0 .. (s - 1))
          /\ \A i \in 1 .. Len(direct) :
                LayerRadius(Pyramid, k.target, s) + i - 1 <= LayerRadius(Pyramid, k.target, direct[i])
      BY <1>1, <1>2, NeedFacts
    <2>2. /\ Distance(c, d) \in Nat /\ Distance(k.at, c) \in Nat /\ Distance(k.at, d) \in Nat
          /\ Distance(k.at, d) <= Distance(k.at, c) + Distance(c, d)
      BY <1>1, <1>3, StatusFacts, DistanceFacts
    <2>3. j \in 1 .. Len(direct) /\ j - 1 = Distance(c, d)
      BY <1>6, <2>1, <2>2
    <2>4. q \in 0 .. (s - 1)
      BY <2>1, <2>3, ElementOf
    <2>5. LayerRadius(Pyramid, k.target, s) + j - 1 <= LayerRadius(Pyramid, k.target, q)
      BY <2>1, <2>3
    <2>6. Distance(k.at, c) <= LayerRadius(Pyramid, k.target, s)
      BY <1>3 DEF Layer, Square
    <2> HIDE DEF q, j
    <2>7. q \in 0 .. k.target
      BY <1>2, <2>4
    <2>8. LayerRadius(Pyramid, k.target, s) \in Nat /\ LayerRadius(Pyramid, k.target, q) \in Nat
      BY <1>1, <1>2, <2>7, RadiusFacts
    <2>9. Distance(k.at, d) <= LayerRadius(Pyramid, k.target, q)
      BY <2>2, <2>3, <2>5, <2>6, <2>8 DEF j
    <2>10. d \in Layer(k, q)
      BY <2>9 DEF Layer, Square
    <2>11. d \in CacheOf(k.at, k.target)
      BY <1>1, <2>7, <2>10, LayerFacts
    <2>12. published[d] >= q
      BY <1>4, <2>4, <2>10
    <2> QED  BY <2>11, <2>12 DEF q, j
  <1>7. Supplied(c, s, CacheOf(k.at, k.target))
    BY <1>6 DEF Supplied
  <1> QED  BY <1>3, <1>5, <1>7

(* What a chunk that is worked on looks like.                              *)
LEMMA WorkFacts ==
    ASSUME TypeOK, WorkInv, NEW c \in Chunks
    PROVE  /\ published[c] \in Int /\ started[c] \in Int /\ published[c] <= started[c]
           /\ producer[c].status = None =>
                 producer[c].stage = "none" /\ started[c] = published[c]
           /\ producer[c].status # None =>
                 /\ producer[c].status \in Statuses /\ producer[c].stage # "none"
                 /\ c \in producer[c].cache
                 /\ started[c] = producer[c].status /\ published[c] = producer[c].status - 1
                 /\ producer[c].stage \in {"acquire", "load"} => producer[c].status = 0
                 /\ producer[c].stage = "load" => disk[c] # None
                 /\ Supplied(c, producer[c].status, producer[c].cache)
  <1>1. published[c] \in Int /\ started[c] \in Int
    BY StatusFacts DEF TypeOK, Statuses, None
  <1>2. None \notin Statuses /\ \A s \in Statuses : s \in Nat
    BY StatusFacts DEF None, Statuses
  <1>3. Worked(c)
    BY DEF WorkInv
  <1> QED  BY <1>1, <1>2, <1>3 DEF Worked

(* Supplies survive as long as no kept chunk loses its status.             *)
LEMMA StillSupplied ==
    ASSUME TypeOK, TypeOK', NEW c \in Chunks, NEW s \in Statuses, NEW kept, Supplied(c, s, kept),
           \A d \in Chunks : d \in kept => published'[d] >= published[d]
    PROVE  Supplied(c, s, kept)'
  <1> DEFINE direct == Step(Pyramid, s).direct
  <1>1. direct \in Seq(0 .. (s - 1))
    <2>1. s \in 0 .. s
      BY StatusFacts DEF Statuses
    <2> QED  BY <2>1, NeedFacts
  <1>2. ASSUME NEW d \in Chunks, Distance(c, d) < Len(direct)
        PROVE  d \in kept /\ published'[d] >= direct[Distance(c, d) + 1]
    <2>1. Distance(c, d) \in Nat
      BY StatusFacts, DistanceFacts
    <2>2. d \in kept /\ published[d] >= direct[Distance(c, d) + 1]
      BY <1>2 DEF Supplied
    <2>3. direct[Distance(c, d) + 1] \in Int
      <3> DEFINE j == Distance(c, d) + 1
      <3>1. j \in 1 .. Len(direct)
        BY <1>1, <1>2, <2>1
      <3>2. direct[j] \in 0 .. (s - 1)
        BY <1>1, <3>1, ElementOf
      <3> QED  BY <3>2 DEF j
    <2>4. published[d] \in Int /\ published'[d] \in Int
      BY StatusFacts DEF TypeOK, Statuses, None
    <2> QED  BY <2>2, <2>3, <2>4
  <1> QED  BY <1>2 DEF Supplied

LEMMA WorkedStill ==
    ASSUME TypeOK, TypeOK', WorkInv, NEW c \in Chunks,
           producer'[c] = producer[c], started'[c] = started[c], published'[c] = published[c],
           producer[c].stage = "load" => disk'[c] # None,
           \A d \in Chunks : d \in producer[c].cache => published'[d] >= published[d]
    PROVE  Worked(c)'
  <1>1. CASE producer[c].status = None
    BY <1>1, WorkFacts DEF Worked
  <1>2. CASE producer[c].status # None
    <2>1. producer[c].status \in Statuses /\ Supplied(c, producer[c].status, producer[c].cache)
      BY <1>2, WorkFacts
    <2> DEFINE s == producer[c].status
               kept == producer[c].cache
    <2>2. Supplied(c, s, kept)'
      <3>1. \A d \in Chunks : d \in kept => published'[d] >= published[d]
        OBVIOUS
      <3>2. \A a \in Statuses, S \in {kept} : a = s =>
               \A d \in Chunks : Distance(c, d) < Len(Step(Pyramid, a).direct) =>
                  d \in S /\ published'[d] >= Step(Pyramid, a).direct[Distance(c, d) + 1]
        <4> SUFFICES ASSUME NEW a \in Statuses, NEW S, S = kept, a = s
                     PROVE  \A d \in Chunks : Distance(c, d) < Len(Step(Pyramid, a).direct) =>
                               d \in S /\ published'[d] >= Step(Pyramid, a).direct[Distance(c, d) + 1]
          OBVIOUS
        <4>1. Supplied(c, a, S)
          BY <2>1
        <4>2. Supplied(c, a, S)'
          BY <3>1, <4>1, StillSupplied
        <4> QED  BY <4>2 DEF Supplied
      <3> QED  BY <2>1, <3>2 DEF Supplied
    <2> QED  BY <1>2, <2>1, <2>2, WorkFacts DEF Worked
  <1> QED  BY <1>1, <1>2

-----------------------------------------------------------------------------
(* The steps.                                                              *)

RestInv == Reliance /\ WorkInv /\ SavesInv /\ SquaresKept

LEMMA WorkKept ==
    ASSUME GenInv, TypeOK', UNCHANGED <<producer, started, published, disk>>
    PROVE  WorkInv'
  <1> SUFFICES ASSUME NEW c \in Chunks PROVE Worked(c)'
    BY DEF WorkInv
  <1>1. TypeOK /\ WorkInv
    BY DEF GenInv, TasksInv
  <1>2. \A d \in Chunks : published'[d] >= published[d]
    BY <1>1, WorkFacts
  <1>3. producer[c].stage = "load" => disk'[c] # None
    <2>1. producer[c].stage = "load" => producer[c].status # None
      BY <1>1, WorkFacts
    <2> QED  BY <1>1, <2>1, WorkFacts
  <1> QED  BY <1>1, <1>2, <1>3, WorkedStill

LEMMA RelianceKept ==
    ASSUME UNCHANGED <<producer, published>>, \A t \in TaskIds : Relies(task'[t])
    PROVE  Reliance'
  <1> SUFFICES ASSUME NEW t \in TaskIds PROVE Relies(task[t])'
    BY DEF Reliance
  <1>1. Relies(task'[t])
    OBVIOUS
  <1> QED  BY <1>1 DEF Relies, Driven, Answer

LEMMA SavesKept ==
    ASSUME GenInv, TypeOK', UNCHANGED published,
           \A c \in Chunks : saving'[c] # "no" => saving[c] # "no"
    PROVE  SavesInv'
  BY DEF GenInv, SavesInv

LEMMA SquaresStay ==
    ASSUME GenInv, \A c \in Chunks : place[c] # "none" => place'[c] # "none",
           \A t \in TaskIds :
               \/ task'[t] = FreeTask
               \/ task'[t].at = task[t].at /\ task'[t].target = task[t].target
    PROVE  SquaresKept'
  <1> SUFFICES ASSUME NEW t \in TaskIds, task'[t].at # None,
                      NEW c \in CacheOf(task'[t].at, task'[t].target)
               PROVE  place'[c] # "none"
    BY DEF SquaresKept, CacheOf, Square
  <1>1. task'[t].at = task[t].at /\ task'[t].target = task[t].target
    BY FreeTaskFacts
  <1>2. c \in Chunks /\ c \in CacheOf(task[t].at, task[t].target)
    BY <1>1 DEF CacheOf, Square
  <1> QED  BY <1>1, <1>2 DEF GenInv, SquaresKept

(* A step that only touches tasks, holders' places and levels.             *)
LEMMA TasksOnly ==
    ASSUME GenInv, TypeOK', UNCHANGED <<producer, started, published, disk>>,
           \A c \in Chunks : saving'[c] # "no" => saving[c] # "no",
           \A c \in Chunks : place[c] # "none" => place'[c] # "none",
           \A t \in TaskIds :
               \/ task'[t] = FreeTask
               \/ /\ task'[t].at = task[t].at /\ task'[t].target = task[t].target
                  /\ Relies(task'[t])
    PROVE  RestInv'
  <1>1. WorkInv'
    BY WorkKept
  <1>2. SavesInv'
    BY SavesKept
  <1>3. Reliance'
    BY ReliesFree, RelianceKept
  <1>4. SquaresKept'
    BY SquaresStay
  <1> QED  BY <1>1, <1>2, <1>3, <1>4 DEF RestInv

LEMMA RestOffer ==
    ASSUME GenInv, TypeOK', NEW c \in Chunks, Offer(c)
    PROVE  RestInv'
  <1>0. TasksInv /\ \A t \in TaskIds : Relies(task[t])
    BY DEF GenInv, Reliance
  <1>1. UNCHANGED <<producer, started, published, disk, saving, place>>
    BY DEF Offer, holderVars, saveVars
  <1>2. CASE task' = task
    BY <1>0, <1>1, <1>2, TasksOnly
  <1>3. CASE \E t \in TaskIds :
                /\ task[t] = FreeTask /\ Allowed(c) \in Statuses
                /\ \A d \in CacheOf(c, Allowed(c)) : place[d] = "active"
                /\ task' = [task EXCEPT ![t] = NewTask(c, Allowed(c))]
    <2>1. PICK t \in TaskIds :
                /\ task[t] = FreeTask /\ Allowed(c) \in Statuses
                /\ \A d \in CacheOf(c, Allowed(c)) : place[d] = "active"
                /\ task' = [task EXCEPT ![t] = NewTask(c, Allowed(c))]
      BY <1>3
    <2> DEFINE n == NewTask(c, Allowed(c))
    <2>2. n.at = c /\ n.target = Allowed(c)
      BY DEF NewTask, FreeTask
    <2>3. Relies(n)
      BY <2>1, ReliesNewTask
    <2>4. task \in [TaskIds -> Tasks]
      BY <1>0 DEF TasksInv, TypeOK
    <2>5. task'[t] = n /\ \A u \in TaskIds \ {t} : task'[u] = task[u]
      BY <2>1, <2>4
    <2> HIDE DEF n
    <2>6. \A u \in TaskIds : Relies(task'[u])
      BY <1>0, <2>3, <2>5
    <2>7. Reliance'
      BY <1>1, <2>6, RelianceKept
    <2>8. SquaresKept'
      <3> SUFFICES ASSUME NEW u \in TaskIds, task'[u].at # None,
                          NEW d \in CacheOf(task'[u].at, task'[u].target)
                   PROVE  place'[d] # "none"
        BY DEF SquaresKept
      <3>1. CASE u = t
        <4>1. d \in CacheOf(c, Allowed(c))
          BY <2>2, <2>5, <3>1
        <4> QED  BY <1>1, <2>1, <4>1
      <3>2. CASE u # t
        BY <1>1, <2>5, <3>2 DEF GenInv, SquaresKept
      <3> QED  BY <3>1, <3>2
    <2>9. WorkInv' /\ SavesInv'
      BY <1>1, WorkKept, SavesKept
    <2> QED  BY <2>7, <2>8, <2>9 DEF RestInv
  <1> QED  BY <1>0, <1>2, <1>3, OfferTasks

LEMMA CancelRelies ==
    ASSUME NEW k \in Tasks, Relies(k), NEW l,
           l = k \/ l = FreeTask \/ l = Cancelled(k)
    PROVE  l = FreeTask \/ (l.at = k.at /\ l.target = k.target /\ Relies(l))
  <1>1. CASE l = Cancelled(k)
    BY <1>1, ReliesCancelled, CancelledFacts
  <1> QED  BY <1>1

LEMMA RestInstall ==
    ASSUME GenInv, TypeOK', Install
    PROVE  RestInv'
  <1>0. TasksInv /\ \A t \in TaskIds : task[t] \in Tasks /\ Relies(task[t])
    BY DEF GenInv, Reliance, TasksInv, TypeOK
  <1>1. UNCHANGED <<producer, started, published, disk, saving, place>>
    BY DEF Install, saveVars
  <1>2. ASSUME NEW t \in TaskIds
        PROVE  \/ task'[t] = FreeTask
               \/ /\ task'[t].at = task[t].at /\ task'[t].target = task[t].target
                  /\ Relies(task'[t])
    <2>1. task'[t] = task[t] \/ task'[t] = FreeTask \/ task'[t] = Cancelled(task[t])
      BY <1>0, InstallTasks
    <2> QED  BY <1>0, <2>1, CancelRelies
  <1> QED  BY <1>1, <1>2, TasksOnly

LEMMA PollingRelies ==
    ASSUME NEW k \in Tasks, Relies(k), NEW c \in Chunks, NEW f \in {"poll", "failed"},
           k.future[c] # "none"
    PROVE  /\ Heard(k, c, f).at = k.at /\ Heard(k, c, f).target = k.target
           /\ Relies(Heard(k, c, f))
  <1> DEFINE l == Heard(k, c, f)
  <1>1. f \in Futures /\ f # "none" /\ k.future \in [Chunks -> Futures]
    BY TaskFields DEF Futures
  <1>2. l.at = k.at /\ l.target = k.target /\ l.future = [k.future EXCEPT ![c] = f]
    BY <1>1, HeardFacts
  <1>3. l.future[c] = f
    BY <1>1, <1>2
  <1>4. Answer(l, c)
    BY <1>3 DEF Answer
  <1> QED  BY <1>1, <1>2, <1>4, ReliesHeard

LEMMA RestCommitUnload ==
    ASSUME GenInv, TypeOK', NEW c \in Chunks, CommitUnload(c)
    PROVE  RestInv'
  <1>0. TasksInv /\ \A t \in TaskIds : task[t] \in Tasks /\ Relies(task[t])
    BY DEF GenInv, Reliance, TasksInv, TypeOK
  <1>1. UNCHANGED <<producer, started, published, disk, saving>>
    BY DEF CommitUnload, saveVars
  <1>2. \A d \in Chunks : place[d] # "none" => place'[d] # "none"
    BY <1>0 DEF CommitUnload, TasksInv, TypeOK
  <1>3. CASE place[c] # "active"
    <2>1. task' = task
      BY <1>3 DEF CommitUnload
    <2> QED  BY <1>0, <1>1, <1>2, <2>1, TasksOnly
  <1>4. CASE place[c] = "active"
    <2>1. PICK T \in [TaskIds -> Tasks] :
               /\ \A t \in TaskIds :
                    T[t] = IF t # current[c] THEN task[t]
                           ELSE IF task[t].pc = "done" THEN FreeTask ELSE Cancelled(task[t])
               /\ \A t \in TaskIds :
                    task'[t] = IF T[t].future[c] = "asleep" THEN Heard(T[t], c, "poll") ELSE T[t]
      BY <1>0, <1>4, UnloadTasks
    <2>2. ASSUME NEW t \in TaskIds
          PROVE  \/ task'[t] = FreeTask
                 \/ /\ task'[t].at = task[t].at /\ task'[t].target = task[t].target
                    /\ Relies(task'[t])
      <3>1. T[t] = task[t] \/ T[t] = FreeTask \/ T[t] = Cancelled(task[t])
        BY <2>1
      <3>2. \/ T[t] = FreeTask
            \/ T[t].at = task[t].at /\ T[t].target = task[t].target /\ Relies(T[t])
        BY <1>0, <3>1, CancelRelies
      <3>3. CASE T[t].future[c] = "asleep"
        <4>1. T[t] # FreeTask /\ T[t] \in Tasks
          BY <3>3, FreeTaskFacts
        <4>2. task'[t] = Heard(T[t], c, "poll")
          BY <2>1, <3>3
        <4>3. /\ Heard(T[t], c, "poll").at = T[t].at /\ Heard(T[t], c, "poll").target = T[t].target
              /\ Relies(Heard(T[t], c, "poll"))
          BY <3>2, <3>3, <4>1, PollingRelies
        <4> QED  BY <3>2, <4>1, <4>2, <4>3
      <3>4. CASE T[t].future[c] # "asleep"
        BY <2>1, <3>2, <3>4
      <3> QED  BY <3>3, <3>4
    <2> QED  BY <1>1, <1>2, <2>2, TasksOnly
  <1> QED  BY <1>3, <1>4

LEMMA RestRefill ==
    ASSUME GenInv, TypeOK', Refill
    PROVE  RestInv'
  <1>0. TasksInv /\ \A t \in TaskIds : task[t] \in Tasks /\ Relies(task[t]) /\ Shaped(task[t])
    BY DEF GenInv, Reliance, TasksInv, TypeOK, TasksShaped
  <1>1. UNCHANGED <<producer, started, published, disk, saving, place>>
    BY DEF Refill, holderVars, saveVars
  <1>2. ASSUME NEW t \in TaskIds
        PROVE  \/ task'[t] = FreeTask
               \/ /\ task'[t].at = task[t].at /\ task'[t].target = task[t].target
                  /\ Relies(task'[t])
    <2>1. CASE task[t].pc = "pending" /\ task'[t] = Started(task[t])
      <3>1. task[t].scheduled = None
        BY <1>0, <2>1, FreeTaskFacts DEF Shaped
      <3> QED  BY <1>0, <2>1, <3>1, ReliesStarted, StartedFacts
    <2> QED  BY <1>0, <2>1, RefillTasks
  <1> QED  BY <1>1, <1>2, TasksOnly

LEMMA RestAdvance ==
    ASSUME GenInv, TypeOK', NEW u \in TaskIds, Advance(u)
    PROVE  RestInv'
  <1>0. /\ TasksInv /\ TypeOK
        /\ \A t \in TaskIds : task[t] \in Tasks /\ Relies(task[t]) /\ Shaped(task[t])
    BY DEF GenInv, Reliance, TasksInv, TypeOK, TasksShaped
  <1>1. UNCHANGED <<producer, started, published, disk, saving, place>>
    BY DEF Advance, holderVars, saveVars
  <1>2. ASSUME NEW t \in TaskIds
        PROVE  \/ task'[t] = FreeTask
               \/ /\ task'[t].at = task[t].at /\ task'[t].target = task[t].target
                  /\ Relies(task'[t])
    <2>1. CASE t # u
      BY <1>0, <2>1, AdvanceTasks
    <2>2. CASE t = u /\ task'[u] = Cancelled(task[u])
      BY <1>0, <2>2, CancelRelies
    <2>3. CASE /\ t = u /\ task'[u] = NextLayer(task[u])
               /\ \A c \in Chunks : task[u].future[c] \in {"none", "ready"}
      <3>1. task[u].pc = "wait" /\ ~ task[u].cancelled /\ task[u].scheduled < task[u].target
        BY DEF Advance
      <3>2. Relies(NextLayer(task[u]))
        BY <1>0, <2>3, <3>1, ReliesNextLayer
      <3>3. task[u].scheduled + 1 \in Statuses
        BY <1>0, AdvanceTasks
      <3>4. NextLayer(task[u]).at = task[u].at /\ NextLayer(task[u]).target = task[u].target
        BY <1>0, <3>3, NextLayerFacts
      <3> QED  BY <2>3, <3>2, <3>4
    <2> QED  BY <1>0, <2>1, <2>2, <2>3, AdvanceTasks
  <1> QED  BY <1>1, <1>2, TasksOnly

LEMMA RestFinish ==
    ASSUME GenInv, TypeOK', NEW u \in TaskIds, Finish(u)
    PROVE  RestInv'
  <1>0. /\ task \in [TaskIds -> Tasks]
        /\ \A t \in TaskIds : task[t] \in Tasks /\ Relies(task[t])
    BY DEF GenInv, Reliance, TasksInv, TypeOK
  <1>1. UNCHANGED <<producer, started, published, disk, saving, place>>
    BY DEF Finish, saveVars
  <1>2. \E owners : task' = Finished(task, u, owners)
    BY DEF Finish
  <1>3. ASSUME NEW t \in TaskIds
        PROVE  \/ task'[t] = FreeTask
               \/ /\ task'[t].at = task[t].at /\ task'[t].target = task[t].target
                  /\ Relies(task'[t])
    <2>1. t # u => task'[t] = task[t]
      BY <1>0, <1>2, FinishedFacts
    <2>2. task'[u] = Ended(task[u]) \/ task'[u] = FreeTask
      BY <1>0, <1>2, FinishedFacts
    <2>3. /\ Ended(task[u]).at = task[u].at /\ Ended(task[u]).target = task[u].target
          /\ Relies(Ended(task[u]))
      BY <1>0, EndedFacts, ReliesEnded
    <2> QED  BY <1>0, <2>1, <2>2, <2>3
  <1> QED  BY <1>1, <1>3, TasksOnly

LEMMA RestPoll ==
    ASSUME GenInv, TypeOK', NEW u \in TaskIds, NEW c \in Chunks, PollWaiter(u, c)
    PROVE  RestInv'
  <1>0. /\ TasksInv /\ TypeOK /\ WorkInv
        /\ \A t \in TaskIds : task[t] \in Tasks /\ Relies(task[t])
    BY DEF GenInv, Reliance, TasksInv, TypeOK
  <1>1. UNCHANGED <<producer, started, published, disk, saving, place>>
    BY DEF PollWaiter, holderVars, saveVars
  <1> DEFINE k == task[u]
  <1>2. PICK f \in {"ready", "failed", "asleep"} :
           /\ task'[u] = Heard(k, c, f)
           /\ f = "ready" => published[c] >= k.scheduled
           /\ f = "asleep" => ~ (published[c] >= k.scheduled) /\ ~ (started[c] < k.scheduled)
    BY <1>0, PollTasks
  <1>3. \A t \in TaskIds \ {u} : task'[t] = task[t]
    BY <1>0, PollTasks
  <1>4. k \in Tasks /\ Relies(k) /\ k.future[c] = "poll"
    BY <1>0 DEF PollWaiter
  <1>5. f \in Futures /\ f # "none"
    BY <1>2 DEF Futures
  <1> DEFINE l == Heard(k, c, f)
  <1>6. /\ l.at = k.at /\ l.target = k.target /\ l.scheduled = k.scheduled
        /\ l.future = [k.future EXCEPT ![c] = f] /\ k.future \in [Chunks -> Futures]
        /\ k.scheduled \in Statuses \cup {None}
    BY <1>4, <1>5, HeardFacts, TaskFields
  <1>7. l.future[c] = f /\ k.scheduled \in Int
    BY <1>6, StatusFacts DEF Statuses, None
  <1>8. Answer(l, c)
    <2>1. CASE f = "ready"
      BY <1>2, <1>6, <1>7, <2>1 DEF Answer
    <2>2. CASE f = "failed"
      BY <1>6, <1>7, <2>2 DEF Answer
    <2>3. CASE f = "asleep"
      <3>1. published[c] \in Int /\ started[c] \in Int
        BY <1>0, WorkFacts
      <3>2. published[c] < k.scheduled /\ started[c] >= k.scheduled
        BY <1>2, <1>7, <2>3, <3>1
      <3>3. producer[c].status = k.scheduled
        BY <1>0, <1>7, <3>1, <3>2, WorkFacts DEF Statuses
      <3> QED  BY <1>6, <1>7, <2>3, <3>2, <3>3 DEF Answer
    <2> QED  BY <1>2, <2>1, <2>2, <2>3
  <1>9. Relies(l)
    BY <1>4, <1>5, <1>8, ReliesHeard
  <1>10. ASSUME NEW t \in TaskIds
         PROVE  /\ task'[t].at = task[t].at /\ task'[t].target = task[t].target
                /\ Relies(task'[t])
    BY <1>0, <1>2, <1>3, <1>6, <1>9
  <1> QED  BY <1>1, <1>10, TasksOnly

-----------------------------------------------------------------------------
(* Steps of producers.                                                     *)

LEMMA RelianceFrom ==
    ASSUME TypeOK', \A t \in TaskIds, l \in Tasks : l = task'[t] => Relies(l)'
    PROVE  Reliance'
  <1> SUFFICES ASSUME NEW t \in TaskIds PROVE Relies(task[t])'
    BY DEF Reliance
  <1>1. task'[t] \in Tasks
    BY DEF TypeOK
  <1>2. \A l \in Tasks : l = task'[t] => Relies(l)'
    OBVIOUS
  <1> QED  BY <1>1, <1>2 DEF Relies, Driven, Answer

LEMMA ReliesSwap ==
    ASSUME NEW k \in Tasks, NEW l \in Tasks, Relies(k)', NEW c \in Chunks,
           l.at = k.at, l.target = k.target, l.scheduled = k.scheduled, l.pc = k.pc,
           l.cancelled = k.cancelled, l.todo = k.todo,
           \A d \in Chunks \ {c} : l.future[d] = k.future[d],
           l.future[c] # "none", Answer(l, c)'
    PROVE  Relies(l)'
  <1>1. \A s : Layer(l, s) = Layer(k, s) /\ Layer(k, s) \subseteq Chunks
    BY DEF Layer, Square
  <1>2. \A d \in Chunks : Answer(l, d)'
    BY DEF Relies, Answer
  <1>3. Driven(l)'
    <2>1. Driven(k)'
      BY DEF Relies
    <2>2. \A d \in Chunks : k.future[d] # "none" => l.future[d] # "none"
      OBVIOUS
    <2> HIDE DEF Layer
    <2> SUFFICES ASSUME l.pc \in {"wait", "layer"}, ~ l.cancelled
                 PROVE  /\ \A s \in 0 .. (l.scheduled - 1) :
                              \A d \in Layer(l, s) : published'[d] >= s
                        /\ l.scheduled >= 0 =>
                              \A d \in Layer(l, l.scheduled) : d \in l.todo \/ l.future[d] # "none"
      BY DEF Driven
    <2>3. k.pc \in {"wait", "layer"} /\ ~ k.cancelled
      OBVIOUS
    <2>4. /\ \A s \in 0 .. (k.scheduled - 1) : \A d \in Layer(k, s) : published'[d] >= s
          /\ k.scheduled >= 0 =>
                \A d \in Layer(k, k.scheduled) : d \in k.todo \/ k.future[d] # "none"
      BY <2>1, <2>3 DEF Driven
    <2> QED  BY <1>1, <2>2, <2>4
  <1> QED  BY <1>2, <1>3 DEF Relies

(* The task hears of a chunk that is no longer worked on.                  *)
LEMMA ReliesAfter ==
    ASSUME TypeOK, TypeOK', NEW k \in Tasks, Shaped(k), Relies(k), NEW c \in Chunks,
           NEW f \in {"ready", "failed", "poll"}, k.future[c] # "none",
           f = "ready" => published'[c] >= k.scheduled,
           \A d \in Chunks : published'[d] >= published[d],
           \A d \in Chunks \ {c} : producer'[d] = producer[d] /\ published'[d] = published[d]
    PROVE  Relies(Heard(k, c, f))'
  <1> DEFINE m == Heard(k, c, "poll")
             l == Heard(k, c, f)
  <1>0. f \in Futures /\ "poll" \in Futures /\ f # "none" /\ k.future \in [Chunks -> Futures]
    BY TaskFields DEF Futures
  <1>1. /\ m \in Tasks /\ m.at = k.at /\ m.target = k.target /\ m.scheduled = k.scheduled
        /\ m.pc = k.pc /\ m.todo = k.todo /\ m.future = [k.future EXCEPT ![c] = "poll"]
        /\ l \in Tasks /\ l.at = k.at /\ l.target = k.target /\ l.scheduled = k.scheduled
        /\ l.pc = k.pc /\ l.todo = k.todo /\ l.future = [k.future EXCEPT ![c] = f]
    BY <1>0, HeardFacts
  <1>2. l.cancelled = m.cancelled
    BY DEF Heard, Tasks
  <1>3. Relies(m)
    BY PollingRelies
  <1>4. Shaped(m)
    BY <1>0, ShapedHeard
  <1> HIDE DEF m, l
  <1>5. m.future[c] = "poll" /\ l.future[c] = f /\ \A d \in Chunks \ {c} : l.future[d] = m.future[d]
    BY <1>0, <1>1
  <1>6. m # FreeTask => CacheOf(m.at, m.target) \subseteq Chunks
    BY DEF CacheOf, Square
  <1>7. \A d \in Chunks : m.future[d] \in {"own", "asleep"} =>
               producer'[d].status = producer[d].status /\ published'[d] = published[d]
    BY <1>5
  <1>8. Relies(m)'
    BY <1>1, <1>3, <1>4, <1>6, <1>7, ReliesStill
  <1>9. Answer(l, c)'
    BY <1>1, <1>5 DEF Answer
  <1> QED  BY <1>0, <1>1, <1>2, <1>5, <1>8, <1>9, ReliesSwap DEF l

(* A step about one chunk, which loses nothing it had.                     *)
LEMMA RestAt ==
    ASSUME GenInv, TypeOK', NEW c \in Chunks, Worked(c)',
           \A d \in Chunks \ {c} :
               /\ producer'[d] = producer[d] /\ started'[d] = started[d]
               /\ published'[d] = published[d] /\ disk'[d] = disk[d],
           \A d \in Chunks : published'[d] >= published[d],
           UNCHANGED place,
           \A d \in Chunks : saving'[d] # "no" => saving[d] # "no",
           \A t \in TaskIds : task'[t].at = task[t].at /\ task'[t].target = task[t].target,
           \A t \in TaskIds, l \in Tasks : l = task'[t] => Relies(l)'
    PROVE  RestInv'
  <1>0. TypeOK /\ WorkInv /\ SavesInv
    BY DEF GenInv, TasksInv
  <1>1. ASSUME NEW d \in Chunks \ {c} PROVE Worked(d)'
    <2>1. producer[d].stage = "load" => disk[d] # None
      <3>1. producer[d].stage = "load" => producer[d].status # None
        BY <1>0, WorkFacts
      <3> QED  BY <1>0, <3>1, WorkFacts
    <2> QED  BY <1>0, <2>1, WorkedStill
  <1>2. WorkInv'
    BY <1>1 DEF WorkInv
  <1>3. SavesInv'
    <2>1. \A d \in Chunks : published'[d] \in Int /\ published[d] \in Int
      BY <1>0, StatusFacts DEF TypeOK, Statuses, None
    <2> QED  BY <1>0, <2>1 DEF SavesInv, StructureStarts
  <1>4. SquaresKept'
    BY SquaresStay
  <1>5. Reliance'
    BY RelianceFrom
  <1> QED  BY <1>2, <1>3, <1>4, <1>5 DEF RestInv

(* The producer on a chunk ends: its owner and its waiters hear of it.     *)
LEMMA AnswersRelied ==
    ASSUME GenInv, TypeOK', NEW c \in Chunks, NEW f \in {"ready", "failed"},
           task' = Woken(Answered(task, c, f), c),
           \A d \in Chunks \ {c} : producer'[d] = producer[d] /\ published'[d] = published[d],
           \A d \in Chunks : published'[d] >= published[d],
           f = "ready" => published'[c] >= producer[c].status
    PROVE  /\ \A t \in TaskIds : task'[t].at = task[t].at /\ task'[t].target = task[t].target
           /\ \A t \in TaskIds, l \in Tasks : l = task'[t] => Relies(l)'
  <1>0. /\ TypeOK /\ task \in [TaskIds -> Tasks]
        /\ \A t \in TaskIds : task[t] \in Tasks /\ Shaped(task[t]) /\ Relies(task[t])
    BY DEF GenInv, TasksInv, TypeOK, TasksShaped, Reliance
  <1>1. \A t \in TaskIds :
           task'[t] = IF task[t].future[c] = "own" THEN Heard(task[t], c, f)
                      ELSE IF task[t].future[c] = "asleep" THEN Heard(task[t], c, "poll")
                      ELSE task[t]
    BY <1>0, AnsweredFacts
  <1>2. f \in Futures /\ "poll" \in Futures
    BY DEF Futures
  <1> SUFFICES ASSUME NEW t \in TaskIds
               PROVE  /\ task'[t].at = task[t].at /\ task'[t].target = task[t].target
                      /\ \A l \in Tasks : l = task'[t] => Relies(l)'
    OBVIOUS
  <1>3. task'[t].at = task[t].at /\ task'[t].target = task[t].target
    <2>1. /\ Heard(task[t], c, f).at = task[t].at /\ Heard(task[t], c, f).target = task[t].target
          /\ Heard(task[t], c, "poll").at = task[t].at
          /\ Heard(task[t], c, "poll").target = task[t].target
      <3>1. task[t] \in Tasks
        BY <1>0
      <3> QED  BY <3>1 DEF Heard, Tasks
    <2>2. task'[t] = Heard(task[t], c, f) \/ task'[t] = Heard(task[t], c, "poll") \/ task'[t] = task[t]
      BY <1>1
    <2> QED  BY <2>1, <2>2
  <1>4. ASSUME NEW l \in Tasks, l = task'[t], NEW k \in Tasks, k = task[t]
        PROVE  Relies(l)'
    <2>1. /\ Shaped(k) /\ Relies(k)
          /\ l = IF k.future[c] = "own" THEN Heard(k, c, f)
                 ELSE IF k.future[c] = "asleep" THEN Heard(k, c, "poll") ELSE k
      BY <1>0, <1>1, <1>4
    <2>2. CASE k.future[c] = "own"
      <3>1. producer[c].status = k.scheduled
        BY <2>1, <2>2 DEF Relies, Answer
      <3>2. Relies(Heard(k, c, f))'
        BY <1>0, <2>1, <2>2, <3>1, ReliesAfter
      <3> QED  BY <2>1, <2>2, <3>2
    <2>3. CASE k.future[c] = "asleep"
      <3>1. Relies(Heard(k, c, "poll"))'
        BY <1>0, <2>1, <2>3, ReliesAfter
      <3> QED  BY <2>1, <2>3, <3>1
    <2>4. CASE k.future[c] \notin {"own", "asleep"}
      <3>1. l = k
        BY <2>1, <2>4
      <3>2. CacheOf(k.at, k.target) \subseteq Chunks
        BY DEF CacheOf, Square
      <3>3. \A d \in Chunks : k.future[d] \in {"own", "asleep"} =>
               producer'[d].status = producer[d].status /\ published'[d] = published[d]
        BY <2>4
      <3>4. Relies(k)'
        BY <1>0, <2>1, <3>2, <3>3, ReliesStill
      <3> QED  BY <3>1, <3>4
    <2> QED  BY <2>2, <2>3, <2>4
  <1> QED  BY <1>0, <1>3, <1>4

LEMMA RestPublish ==
    ASSUME GenInv, TypeOK', NEW c \in Chunks, NEW s \in Statuses, Publish(c, s),
           producer[c].status # None, producer[c].status <= s,
           UNCHANGED <<place, saving, disk>>
    PROVE  RestInv'
  <1>0. TypeOK /\ WorkInv
    BY DEF GenInv, TasksInv
  <1>1. /\ producer[c].status \in Statuses /\ started[c] = producer[c].status
        /\ published[c] = producer[c].status - 1
    BY <1>0, WorkFacts
  <1>2. s \in Int /\ producer[c].status \in Int
    BY <1>1, StatusFacts DEF Statuses
  <1>3. Larger(started[c], s) = s /\ Larger(published[c], s) = s
    BY <1>1, <1>2 DEF Larger
  <1>4. producer'[c] = NoProducer /\ started'[c] = s /\ published'[c] = s
    BY <1>0, <1>3 DEF Publish, TypeOK
  <1>5. \A d \in Chunks \ {c} :
           /\ producer'[d] = producer[d] /\ started'[d] = started[d]
           /\ published'[d] = published[d] /\ disk'[d] = disk[d]
    BY <1>0 DEF Publish, TypeOK
  <1>6. \A d \in Chunks : published'[d] >= published[d]
    <2>1. \A d \in Chunks : published[d] \in Int
      BY <1>0, WorkFacts
    <2>2. published'[c] >= published[c]
      BY <1>1, <1>2, <1>4
    <2> QED  BY <1>5, <2>1, <2>2
  <1>7. Worked(c)'
    BY <1>4 DEF Worked, NoProducer
  <1>8. task' = Woken(Answered(task, c, "ready"), c)
    BY DEF Publish
  <1>9. published'[c] >= producer[c].status
    BY <1>2, <1>4
  <1>10. /\ \A t \in TaskIds : task'[t].at = task[t].at /\ task'[t].target = task[t].target
         /\ \A t \in TaskIds, l \in Tasks : l = task'[t] => Relies(l)'
    BY <1>5, <1>6, <1>8, <1>9, AnswersRelied
  <1> QED  BY <1>5, <1>6, <1>7, <1>10, RestAt

LEMMA RestAbandon ==
    ASSUME GenInv, TypeOK', NEW c \in Chunks, Abandon(c)
    PROVE  RestInv'
  <1>0. TypeOK /\ WorkInv
    BY DEF GenInv, TasksInv
  <1>1. UNCHANGED <<published, disk, saving, place>>
    BY DEF Abandon, saveVars
  <1>2. producer'[c] = NoProducer /\ started'[c] = published[c]
    BY <1>0 DEF Abandon, TypeOK, RollbackIndex
  <1>3. \A d \in Chunks \ {c} :
           /\ producer'[d] = producer[d] /\ started'[d] = started[d]
           /\ published'[d] = published[d] /\ disk'[d] = disk[d]
    BY <1>0, <1>1 DEF Abandon, TypeOK
  <1>4. \A d \in Chunks : published'[d] >= published[d]
    BY <1>0, <1>1, WorkFacts
  <1>5. Worked(c)'
    BY <1>1, <1>2 DEF Worked, NoProducer
  <1>6. task' = Woken(Answered(task, c, "failed"), c)
    BY DEF Abandon
  <1>7. /\ \A t \in TaskIds : task'[t].at = task[t].at /\ task'[t].target = task[t].target
        /\ \A t \in TaskIds, l \in Tasks : l = task'[t] => Relies(l)'
    BY <1>3, <1>4, <1>6, AnswersRelied
  <1> QED  BY <1>1, <1>3, <1>4, <1>5, <1>7, RestAt

(* A producer goes on.                                                     *)
LEMMA RestStage ==
    ASSUME GenInv, TypeOK', NEW c \in Chunks, NEW g \in {"load", "step", "abandon"},
           producer' = To(c, g), producer[c].stage # "none",
           g = "load" => disk'[c] # None /\ producer[c].stage = "acquire",
           \A d \in Chunks \ {c} : disk'[d] = disk[d],
           UNCHANGED <<started, published, task, saving, place>>
    PROVE  RestInv'
  <1>0. /\ TypeOK /\ WorkInv
        /\ \A t \in TaskIds : task[t] \in Tasks /\ Shaped(task[t]) /\ Relies(task[t])
    BY DEF GenInv, TasksInv, TypeOK, TasksShaped, Reliance
  <1>1. producer \in [Chunks -> Producers] /\ producer[c] \in Producers
    BY <1>0 DEF TypeOK
  <1>2. /\ producer'[c].status = producer[c].status /\ producer'[c].cache = producer[c].cache
        /\ producer'[c].stage = g
        /\ \A d \in Chunks \ {c} : producer'[d] = producer[d]
    BY <1>1 DEF To, Producers
  <1>3. producer[c].status # None
    BY <1>0, WorkFacts
  <1>4. \A d \in Chunks : published'[d] >= published[d]
    BY <1>0, WorkFacts
  <1>5. Worked(c)'
    <2>1. /\ producer[c].status \in Statuses /\ c \in producer[c].cache
          /\ started[c] = producer[c].status /\ published[c] = producer[c].status - 1
          /\ producer[c].stage = "acquire" => producer[c].status = 0
          /\ Supplied(c, producer[c].status, producer[c].cache)
      BY <1>0, <1>3, WorkFacts
    <2>2. Supplied(c, producer[c].status, producer[c].cache)'
      BY <1>2, <2>1 DEF Supplied
    <2> QED  BY <1>2, <2>1, <2>2 DEF Worked
  <1>6. ASSUME NEW t \in TaskIds, NEW l \in Tasks, l = task'[t] PROVE Relies(l)'
    <2>1. Shaped(l) /\ Relies(l)
      BY <1>0, <1>6
    <2>2. CacheOf(l.at, l.target) \subseteq Chunks
      BY DEF CacheOf, Square
    <2>3. \A d \in Chunks : l.future[d] \in {"own", "asleep"} =>
               producer'[d].status = producer[d].status /\ published'[d] = published[d]
      BY <1>2
    <2> QED  BY <1>0, <1>4, <2>1, <2>2, <2>3, ReliesStill
  <1> QED  BY <1>2, <1>4, <1>5, <1>6, RestAt

LEMMA RestAcquire ==
    ASSUME GenInv, TypeOK', NEW c \in Chunks, Acquire(c)
    PROVE  RestInv'
  <1>1. UNCHANGED <<started, published, task, saving, disk, place>>
    BY DEF Acquire, holderVars, saveVars
  <1>2. \E g \in {"load", "step", "abandon"} :
           producer' = To(c, g) /\ (g = "load" => disk[c] # None)
    <2>1. CASE producer' = To(c, "abandon")
      BY <2>1
    <2>2. CASE producer' = To(c, IF Allowed(c) < 0 THEN "abandon"
                               ELSE IF disk[c] # None THEN "load" ELSE "step")
      <3>1. CASE Allowed(c) < 0
        BY <2>2, <3>1
      <3>2. CASE ~ (Allowed(c) < 0) /\ disk[c] # None
        BY <2>2, <3>2
      <3>3. CASE ~ (Allowed(c) < 0) /\ disk[c] = None
        BY <2>2, <3>3
      <3> QED  BY <3>1, <3>2, <3>3
    <2> QED  BY <2>1, <2>2 DEF Acquire
  <1>3. producer[c].stage = "acquire"
    BY DEF Acquire
  <1> QED  BY <1>1, <1>2, <1>3, RestStage

LEMMA RestPanics ==
    ASSUME GenInv, TypeOK', NEW c \in Chunks, StepPanics(c)
    PROVE  RestInv'
  <1>1. /\ UNCHANGED <<started, published, task, saving, disk, place>>
        /\ producer' = To(c, "abandon") /\ producer[c].stage = "step"
    BY DEF StepPanics, holderVars, saveVars
  <1> QED  BY <1>1, RestStage

LEMMA RestLoad ==
    ASSUME GenInv, TypeOK', NEW c \in Chunks, Load(c)
    PROVE  RestInv'
  <1>0. TypeOK /\ WorkInv
    BY DEF GenInv, TasksInv
  <1>1. producer[c].stage = "load" /\ UNCHANGED <<saving, place>>
    BY DEF Load
  <1>2. CASE /\ \E g \in {"step", "abandon"} : producer' = To(c, g)
             /\ \A d \in Chunks \ {c} : disk'[d] = disk[d]
             /\ UNCHANGED <<started, published, task>>
    BY <1>1, <1>2, RestStage
  <1>3. CASE Publish(c, disk[c]) /\ UNCHANGED disk
    <2>1. producer[c].status # None
      BY <1>0, <1>1, WorkFacts
    <2>2. producer[c].status = 0 /\ disk[c] # None
      BY <1>0, <1>1, <2>1, WorkFacts
    <2>3. disk[c] \in Statuses /\ 0 <= disk[c]
      BY <1>0, <2>2, StatusFacts DEF TypeOK, Statuses
    <2> QED  BY <1>1, <1>3, <2>1, <2>2, <2>3, RestPublish
  <1>4. CASE /\ disk' = [disk EXCEPT ![c] = None]
             /\ producer' = To(c, IF Allowed(c) < 0 THEN "abandon" ELSE "step")
             /\ UNCHANGED <<started, published, task>>
    <2>1. \E g \in {"step", "abandon"} : producer' = To(c, g)
      BY <1>4
    <2>2. \A d \in Chunks \ {c} : disk'[d] = disk[d]
      BY <1>0, <1>4 DEF TypeOK
    <2> QED  BY <1>2, <1>4, <2>1, <2>2
  <1>5. CASE producer' = To(c, "abandon") /\ UNCHANGED <<started, published, disk, task>>
    BY <1>2, <1>5
  <1> QED  BY <1>3, <1>4, <1>5 DEF Load

LEMMA RestStepDone ==
    ASSUME GenInv, TypeOK', NEW c \in Chunks, StepDone(c)
    PROVE  RestInv'
  <1>0. TypeOK /\ WorkInv
    BY DEF GenInv, TasksInv
  <1>1. /\ producer[c].stage = "step" /\ UNCHANGED <<saving, disk, place>>
        /\ Publish(c, producer[c].status)
    BY DEF StepDone, saveVars
  <1>2. producer[c].status # None
    BY <1>0, <1>1, WorkFacts
  <1>3. producer[c].status \in Statuses
    BY <1>0, <1>2, WorkFacts
  <1>4. producer[c].status <= producer[c].status
    BY <1>3, StatusFacts DEF Statuses
  <1> QED  BY <1>1, <1>2, <1>3, <1>4, RestPublish

LEMMA RestSaved ==
    ASSUME GenInv, TypeOK', NEW c \in Chunks, Saved(c)
    PROVE  RestInv'
  <1>0. /\ TypeOK /\ WorkInv /\ SavesInv
        /\ \A t \in TaskIds : task[t] \in Tasks /\ Relies(task[t])
    BY DEF GenInv, TasksInv, TypeOK, Reliance
  <1>1. /\ saving[c] = "preparing" /\ UNCHANGED <<producer, started, published, task, place>>
        /\ saving' = [saving EXCEPT ![c] = "no"]
        /\ disk' = [disk EXCEPT ![c] = published[c]]
    BY DEF Saved, holderVars, workVars
  <1>2. \A d \in Chunks : saving'[d] # "no" => saving[d] # "no"
    BY <1>0, <1>1 DEF TypeOK
  <1>3. disk'[c] = published[c] /\ \A d \in Chunks \ {c} : disk'[d] = disk[d]
    BY <1>0, <1>1 DEF TypeOK
  <1>4. published[c] # None
    BY <1>0, <1>1, WorkFacts DEF SavesInv, StructureStarts, None
  <1>5. WorkInv'
    <2> SUFFICES ASSUME NEW d \in Chunks PROVE Worked(d)'
      BY DEF WorkInv
    <2>1. \A e \in Chunks : published'[e] >= published[e]
      BY <1>0, <1>1, WorkFacts
    <2>2. producer[d].stage = "load" => disk[d] # None
      <3>1. producer[d].stage = "load" => producer[d].status # None
        BY <1>0, WorkFacts
      <3> QED  BY <1>0, <3>1, WorkFacts
    <2>3. producer[d].stage = "load" => disk'[d] # None
      BY <1>3, <1>4, <2>2
    <2> QED  BY <1>0, <1>1, <2>1, <2>3, WorkedStill
  <1>6. SavesInv'
    BY <1>1, <1>2, SavesKept
  <1>7. Reliance'
    BY <1>0, <1>1, RelianceKept
  <1>8. SquaresKept'
    BY <1>1, SquaresStay
  <1> QED  BY <1>5, <1>6, <1>7, <1>8 DEF RestInv

(* The holder of an unloading chunk is kept, saved or dropped.  Only a     *)
(* chunk nobody keeps is dropped.                                          *)
LEMMA RestVisit ==
    ASSUME GenInv, TypeOK', NEW c \in Chunks, VisitUnloading(c)
    PROVE  RestInv'
  <1>0. /\ TypeOK /\ WorkInv /\ SavesInv /\ SquaresKept
        /\ \A t \in TaskIds : task[t] \in Tasks /\ Relies(task[t]) /\ Shaped(task[t])
    BY DEF GenInv, TasksInv, TypeOK, Reliance, TasksShaped
  <1>1. UNCHANGED <<producer, disk, task>>
    BY DEF VisitUnloading, workVars
  <1>2. CASE UNCHANGED <<place, published, started, saving>>
    BY <1>0, <1>1, <1>2, TasksOnly
  <1>3. CASE /\ Dirty(c) /\ saving' = [saving EXCEPT ![c] = "queued"]
             /\ UNCHANGED <<place, published, started>>
    <2>1. SavesInv'
      BY <1>0, <1>3 DEF SavesInv, Dirty, TypeOK
    <2>2. WorkInv'
      BY <1>1, <1>3, WorkKept
    <2>3. Reliance'
      BY <1>0, <1>1, <1>3, RelianceKept
    <2>4. SquaresKept'
      BY <1>1, <1>3, SquaresStay
    <2> QED  BY <2>1, <2>2, <2>3, <2>4 DEF RestInv
  <1>4. CASE /\ ~ Referenced(c)
             /\ place' = [place EXCEPT ![c] = "none"]
             /\ published' = [published EXCEPT ![c] = None]
             /\ started' = [started EXCEPT ![c] = None]
             /\ UNCHANGED saving
    <2>1. /\ \A t \in TaskIds : task[t].at # None => c \notin CacheOf(task[t].at, task[t].target)
          /\ \A d \in Chunks : c \notin producer[d].cache
          /\ saving[c] = "no"
      BY <1>4 DEF Referenced
    <2>2. /\ place'[c] = "none" /\ published'[c] = None /\ started'[c] = None
          /\ \A d \in Chunks \ {c} :
                place'[d] = place[d] /\ published'[d] = published[d] /\ started'[d] = started[d]
      BY <1>0, <1>4 DEF TypeOK
    <2>3. producer[c].status = None /\ producer[c].stage = "none"
      BY <1>0, <2>1, WorkFacts
    <2>4. WorkInv'
      <3> SUFFICES ASSUME NEW d \in Chunks PROVE Worked(d)'
        BY DEF WorkInv
      <3>1. CASE d = c
        BY <1>1, <2>2, <2>3, <3>1 DEF Worked
      <3>2. CASE d # c
        <4>1. \A e \in Chunks : e \in producer[d].cache => published'[e] >= published[e]
          BY <1>0, <2>1, <2>2, WorkFacts
        <4>2. producer[d].stage = "load" => disk'[d] # None
          <5>1. producer[d].stage = "load" => producer[d].status # None
            BY <1>0, WorkFacts
          <5> QED  BY <1>0, <1>1, <5>1, WorkFacts
        <4> QED  BY <1>0, <1>1, <2>2, <3>2, <4>1, <4>2, WorkedStill
      <3> QED  BY <3>1, <3>2
    <2>5. SavesInv'
      BY <1>0, <1>4, <2>1, <2>2 DEF SavesInv
    <2>6. ASSUME NEW t \in TaskIds, NEW l \in Tasks, l = task'[t] PROVE Relies(l)'
      <3>1. Shaped(l) /\ Relies(l) /\ l = task[t]
        BY <1>0, <1>1, <2>6
      <3>2. l # FreeTask => \A d \in CacheOf(l.at, l.target) : d \in Chunks \ {c}
        <4>1. ASSUME l # FreeTask PROVE l.at # None
          BY <3>1, <4>1, StatusFacts DEF Shaped, None
        <4> QED  BY <2>1, <3>1, <4>1 DEF CacheOf, Square
      <3>3. l # FreeTask => \A d \in CacheOf(l.at, l.target) : published'[d] >= published[d]
        BY <1>0, <2>2, <3>2, WorkFacts
      <3>4. \A d \in Chunks : l.future[d] \in {"own", "asleep"} =>
               producer'[d].status = producer[d].status /\ published'[d] = published[d]
        <4> SUFFICES ASSUME NEW d \in Chunks, l.future[d] \in {"own", "asleep"}
                     PROVE  d # c
          BY <1>1, <2>2
        <4>1. producer[d].status = l.scheduled
          BY <3>1 DEF Relies, Answer
        <4>2. l # FreeTask
          BY FreeTaskFacts
        <4>3. l.scheduled # None
          BY <3>1, <4>2 DEF Shaped
        <4> QED  BY <2>3, <4>1, <4>3
      <3> QED  BY <1>0, <3>1, <3>3, <3>4, ReliesStill
    <2>7. Reliance'
      BY <2>6, RelianceFrom
    <2>8. SquaresKept'
      <3> SUFFICES ASSUME NEW t \in TaskIds, task[t].at # None,
                          NEW d \in CacheOf(task[t].at, task[t].target)
                   PROVE  place'[d] # "none"
        BY <1>1 DEF SquaresKept, CacheOf, Square
      <3>1. d \in Chunks \ {c}
        BY <2>1 DEF CacheOf, Square
      <3> QED  BY <1>0, <2>2, <3>1 DEF SquaresKept
    <2> QED  BY <2>4, <2>5, <2>7, <2>8 DEF RestInv
  <1> QED  BY <1>2, <1>3, <1>4 DEF VisitUnloading

(* A task claims a step: nobody waits for the chunk yet, and what the step *)
(* needs is there.                                                         *)
LEMMA RestClaim ==
    ASSUME GenInv, TypeOK', NEW u \in TaskIds, NEW k \in Tasks, k = task[u],
           NEW c \in k.todo, NEW s \in Statuses, s = k.scheduled,
           k.pc = "layer", ~ k.cancelled, started[c] = s - 1,
           \A t \in TaskIds \ {u} : task'[t] = task[t],
           task'[u] = WithFuture(k, c, "own"),
           started' = [started EXCEPT ![c] = s],
           producer' = [producer EXCEPT ![c] =
               [status |-> s, stage |-> IF s = 0 THEN "acquire" ELSE "step",
                cache |-> CacheOf(k.at, k.target)]],
           UNCHANGED <<published, disk, saving, place>>
    PROVE  RestInv'
  <1>0. /\ TypeOK /\ TasksInv /\ WorkInv /\ Shaped(k) /\ Relies(k)
        /\ \A t \in TaskIds : task[t] \in Tasks /\ Relies(task[t]) /\ Shaped(task[t])
    BY DEF GenInv, TasksInv, TypeOK, Reliance, TasksShaped
  <1> DEFINE kept == CacheOf(k.at, k.target)
  <1>1. c \in Chunks /\ c \in kept /\ published[c] >= s - 1 /\ Supplied(c, s, kept)
    BY <1>0, ClaimIsSupplied
  <1>2. s \in Int /\ published[c] \in Int /\ s # None
    BY <1>0, <1>1, StatusFacts, WorkFacts DEF Statuses, None
  <1>3. published[c] = s - 1 /\ producer[c].status = None
    <2>1. published[c] = s - 1
      BY <1>0, <1>1, <1>2, WorkFacts
    <2>2. producer[c].status # None => published[c] = started[c] - 1
      BY <1>0, <1>1, WorkFacts
    <2> QED  BY <1>2, <2>1, <2>2
  <1>4. /\ producer'[c].status = s /\ producer'[c].cache = kept
        /\ producer'[c].stage = IF s = 0 THEN "acquire" ELSE "step"
        /\ started'[c] = s
        /\ \A d \in Chunks \ {c} : producer'[d] = producer[d] /\ started'[d] = started[d]
    BY <1>0, <1>1 DEF TypeOK
  <1> HIDE DEF kept
  <1>5. Worked(c)'
    <2>1. Supplied(c, producer[c].status, producer[c].cache)'
      BY <1>1, <1>4 DEF Supplied
    <2>2. producer'[c].stage \in {"acquire", "step"} /\ (producer'[c].stage = "acquire" => s = 0)
      BY <1>4
    <2> QED  BY <1>1, <1>3, <1>4, <2>1, <2>2 DEF Worked
  <1>6. \A d \in Chunks : published'[d] >= published[d]
    BY <1>0, WorkFacts
  <1>7. c \in Chunks /\ "own" \in Futures /\ "poll" \in Futures /\ k.future \in [Chunks -> Futures]
    BY <1>1, TaskFields DEF Futures
  <1> DEFINE m == WithFuture(k, c, "poll")
             n == WithFuture(k, c, "own")
  <1>8. /\ m \in Tasks /\ m.at = k.at /\ m.target = k.target /\ m.scheduled = k.scheduled
        /\ m.todo = k.todo \ {c} /\ m.future = [k.future EXCEPT ![c] = "poll"]
        /\ n \in Tasks /\ n.at = k.at /\ n.target = k.target /\ n.scheduled = k.scheduled
        /\ n.todo = k.todo \ {c} /\ n.future = [k.future EXCEPT ![c] = "own"]
    BY <1>7, WithFutureFacts
  <1>9. n.pc = m.pc /\ n.cancelled = m.cancelled
    BY <1>7 DEF WithFuture, Tasks
  <1>10. Relies(m) /\ Shaped(m)
    BY <1>0, <1>7, ReliesPolling, ShapedWithFuture
  <1> HIDE DEF m, n
  <1>11. /\ m.future[c] = "poll" /\ n.future[c] = "own"
         /\ \A d \in Chunks \ {c} : n.future[d] = m.future[d]
    BY <1>7, <1>8
  <1>12. ASSUME NEW l \in Tasks, Relies(l), Shaped(l), l.future[c] \notin {"own", "asleep"}
         PROVE  Relies(l)'
    <2>1. CacheOf(l.at, l.target) \subseteq Chunks
      BY DEF CacheOf, Square
    <2>2. \A d \in Chunks : l.future[d] \in {"own", "asleep"} =>
               producer'[d].status = producer[d].status /\ published'[d] = published[d]
      BY <1>4, <1>12
    <2> QED  BY <1>0, <1>6, <1>12, <2>1, <2>2, ReliesStill
  <1>13. Relies(n)'
    <2>1. Relies(m)'
      BY <1>8, <1>10, <1>11, <1>12
    <2>2. Answer(n, c)'
      BY <1>4, <1>8, <1>11 DEF Answer
    <2> QED  BY <1>1, <1>8, <1>9, <1>11, <2>1, <2>2, ReliesSwap
  <1>14. ASSUME NEW t \in TaskIds, NEW l \in Tasks, l = task'[t] PROVE Relies(l)'
    <2>1. CASE t = u
      <3>1. l = n
        BY <1>14, <2>1 DEF n
      <3> QED  BY <1>13, <3>1
    <2>2. CASE t # u
      <3>1. l = task[t] /\ Relies(l) /\ Shaped(l)
        BY <1>0, <1>14, <2>2
      <3>2. l.future[c] \notin {"own", "asleep"}
        <4> SUFFICES ASSUME l.future[c] \in {"own", "asleep"} PROVE FALSE
          OBVIOUS
        <4>1. producer[c].status = l.scheduled
          BY <1>1, <3>1 DEF Relies, Answer
        <4>2. l # FreeTask
          BY <1>1, FreeTaskFacts
        <4>3. l.scheduled # None
          BY <1>1, <3>1, <4>2 DEF Shaped
        <4> QED  BY <1>3, <4>1, <4>3
      <3> QED  BY <1>12, <3>1, <3>2
    <2> QED  BY <2>1, <2>2
  <1>15. \A t \in TaskIds : task'[t].at = task[t].at /\ task'[t].target = task[t].target
    BY <1>8 DEF n
  <1>16. \A d \in Chunks : saving'[d] # "no" => saving[d] # "no"
    OBVIOUS
  <1>17. \A d \in Chunks \ {c} :
           /\ producer'[d] = producer[d] /\ started'[d] = started[d]
           /\ published'[d] = published[d] /\ disk'[d] = disk[d]
    BY <1>4
  <1> QED  BY <1>1, <1>5, <1>6, <1>14, <1>15, <1>16, <1>17, RestAt

(* A task gives up, waits for another's claim, or claims the step.         *)
LEMMA RestApply ==
    ASSUME GenInv, TypeOK', NEW u \in TaskIds, ApplyStep(u)
    PROVE  RestInv'
  <1>0. /\ TypeOK /\ TasksInv /\ WorkInv
        /\ \A t \in TaskIds : task[t] \in Tasks /\ Relies(task[t]) /\ Shaped(task[t])
    BY DEF GenInv, TasksInv, TypeOK, Reliance, TasksShaped
  <1>1. UNCHANGED <<published, disk, saving, place>> /\ task[u].pc = "layer"
    BY DEF ApplyStep, saveVars
  <1> DEFINE c == Min(task[u].todo)
             s == task[u].scheduled
  <1>2. c \in task[u].todo /\ c \in Chunks /\ s \in Statuses
    BY <1>0, <1>1, NextOfLayer
  <1>3. /\ \A t \in TaskIds \ {u} : task'[t] = task[t]
        /\ \/ /\ task'[u] = GivenUp(task[u])
              /\ UNCHANGED <<started, producer>>
           \/ /\ ~ task[u].cancelled /\ started[c] >= s
              /\ task'[u] = WithFuture(task[u], c, "poll")
              /\ UNCHANGED <<started, producer>>
           \/ /\ ~ task[u].cancelled /\ started[c] = s - 1
              /\ task'[u] = WithFuture(task[u], c, "own")
              /\ started' = [started EXCEPT ![c] = s]
              /\ producer' = [producer EXCEPT ![c] =
                    [status |-> s, stage |-> IF s = 0 THEN "acquire" ELSE "step",
                     cache |-> CacheOf(task[u].at, task[u].target)]]
    BY <1>0, ApplyTasks
  <1>4. /\ "poll" \in Futures /\ "own" \in Futures
        /\ GivenUp(task[u]).at = task[u].at /\ GivenUp(task[u]).target = task[u].target
    BY <1>0, GivenUpFacts DEF Futures
  <1> HIDE DEF c, s
  <1>5. /\ WithFuture(task[u], c, "poll").at = task[u].at
        /\ WithFuture(task[u], c, "poll").target = task[u].target
        /\ WithFuture(task[u], c, "own").at = task[u].at
        /\ WithFuture(task[u], c, "own").target = task[u].target
    <2>1. task[u] \in Tasks
      BY <1>0
    <2> QED  BY <2>1 DEF WithFuture, Tasks
  <1>6. CASE task'[u] = GivenUp(task[u]) /\ UNCHANGED <<started, producer>>
    <2>1. Relies(GivenUp(task[u]))
      BY <1>0, ReliesGivenUp
    <2>2. \A t \in TaskIds : /\ task'[t].at = task[t].at /\ task'[t].target = task[t].target
                             /\ Relies(task'[t])
      BY <1>0, <1>3, <1>4, <1>6, <2>1
    <2> QED  BY <1>1, <1>6, <2>2, TasksOnly
  <1>7. CASE /\ ~ task[u].cancelled /\ task'[u] = WithFuture(task[u], c, "poll")
             /\ UNCHANGED <<started, producer>>
    <2>1. Relies(WithFuture(task[u], c, "poll"))
      BY <1>0, <1>1, <1>2, <1>7, ReliesPolling
    <2>2. \A t \in TaskIds : /\ task'[t].at = task[t].at /\ task'[t].target = task[t].target
                             /\ Relies(task'[t])
      BY <1>0, <1>3, <1>5, <1>7, <2>1
    <2> QED  BY <1>1, <1>7, <2>2, TasksOnly
  <1>8. CASE /\ ~ task[u].cancelled /\ started[c] = s - 1
             /\ task'[u] = WithFuture(task[u], c, "own")
             /\ started' = [started EXCEPT ![c] = s]
             /\ producer' = [producer EXCEPT ![c] =
                   [status |-> s, stage |-> IF s = 0 THEN "acquire" ELSE "step",
                    cache |-> CacheOf(task[u].at, task[u].target)]]
    <2>1. task[u] \in Tasks /\ s = task[u].scheduled
      BY <1>0 DEF s
    <2> QED  BY <1>1, <1>2, <1>3, <1>8, <2>1, RestClaim
  <1> QED  BY <1>3, <1>6, <1>7, <1>8

(* Steps that leave tasks, producers and statuses alone.                   *)
LEMMA RestQuiet ==
    ASSUME GenInv, TypeOK',
           \/ EndOffers \/ EndUnloads \/ (\E T \in Tickets : EndCommit(T)) \/ UNCHANGED vars
           \/ \E c \in Chunks : CommitLoad(c) \/ ReserveForSave(c)
    PROVE  RestInv'
  <1>0. TypeOK /\ \A t \in TaskIds : Relies(task[t])
    BY DEF GenInv, TasksInv, Reliance
  <1> USE DEF vars, ticketVars, epochVars, holderVars, saveVars, workVars
  <1>1. UNCHANGED <<producer, started, published, disk, task>>
    BY DEF EndOffers, EndUnloads, EndCommit, CommitLoad, ReserveForSave
  <1>2. \A d \in Chunks : saving'[d] # "no" => saving[d] # "no"
    <2>1. CASE UNCHANGED saving
      BY <2>1
    <2>2. ASSUME NEW c \in Chunks, ReserveForSave(c)
          PROVE  \A d \in Chunks : saving'[d] # "no" => saving[d] # "no"
      BY <1>0, <2>2 DEF ReserveForSave, TypeOK
    <2> QED  BY <2>1, <2>2 DEF EndOffers, EndUnloads, EndCommit, CommitLoad
  <1>3. \A d \in Chunks : place[d] # "none" => place'[d] # "none"
    <2>1. CASE UNCHANGED place
      BY <2>1
    <2>2. ASSUME NEW c \in Chunks, CommitLoad(c)
          PROVE  \A d \in Chunks : place[d] # "none" => place'[d] # "none"
      BY <1>0, <2>2 DEF CommitLoad, TypeOK
    <2> QED  BY <2>1, <2>2 DEF EndOffers, EndUnloads, EndCommit, ReserveForSave
  <1> QED  BY <1>0, <1>1, <1>2, <1>3, TasksOnly

LEMMA GenStep == GenInv /\ [Next]_vars => GenInv'
  <1> SUFFICES ASSUME GenInv, [Next]_vars PROVE GenInv'
    OBVIOUS
  <1>1. TasksInv'
    BY TasksStep DEF GenInv
  <1>2. TypeOK'
    BY <1>1 DEF TasksInv
  <1>3. RestInv'
    <2>1. CASE \/ EndOffers \/ EndUnloads \/ (\E T \in Tickets : EndCommit(T)) \/ UNCHANGED vars
               \/ \E c \in Chunks : CommitLoad(c) \/ ReserveForSave(c)
      BY <1>2, <2>1, RestQuiet
    <2>2. CASE Install \/ Refill
      BY <1>2, <2>2, RestInstall, RestRefill
    <2>3. ASSUME NEW c \in Chunks,
                 \/ Offer(c) \/ VisitUnloading(c) \/ CommitUnload(c) \/ Saved(c)
                 \/ Acquire(c) \/ Load(c) \/ StepDone(c) \/ StepPanics(c) \/ Abandon(c)
          PROVE  RestInv'
      BY <1>2, <2>3, RestOffer, RestVisit, RestCommitUnload, RestSaved, RestAcquire, RestLoad,
         RestStepDone, RestPanics, RestAbandon
    <2>4. ASSUME NEW t \in TaskIds,
                 Advance(t) \/ Finish(t) \/ ApplyStep(t) \/ \E c \in Chunks : PollWaiter(t, c)
          PROVE  RestInv'
      BY <1>2, <2>4, RestAdvance, RestFinish, RestApply, RestPoll
    <2> QED  BY <2>1, <2>2, <2>3, <2>4 DEF Next
  <1> QED  BY <1>1, <1>3 DEF GenInv, RestInv

LEMMA InitGen == Init => GenInv
  <1> SUFFICES ASSUME Init PROVE GenInv
    OBVIOUS
  <1>1. TasksInv /\ TypeOK
    BY InitTasks DEF TasksInv
  <1>2. /\ \A t \in TaskIds : task[t] = FreeTask
        /\ \A c \in Chunks : /\ producer[c] = NoProducer /\ started[c] = published[c]
                             /\ saving[c] = "no"
    BY DEF Init
  <1>3. Reliance
    BY <1>2, ReliesFree DEF Reliance
  <1>4. WorkInv
    BY <1>2 DEF WorkInv, Worked, NoProducer
  <1>5. SavesInv
    BY <1>2 DEF SavesInv
  <1>6. SquaresKept
    BY <1>2, FreeTaskFacts DEF SquaresKept
  <1> QED  BY <1>1, <1>3, <1>4, <1>5, <1>6 DEF GenInv

LEMMA GenAlways == Spec => []GenInv
  BY InitGen, GenStep, PTL DEF Spec

-----------------------------------------------------------------------------
(* The properties.                                                         *)

(* A producer's step runs only while every chunk it depends on has the     *)
(* status the pyramid asks for (apply_step): the task that claimed it kept *)
(* their holders, and no unload, revival or abandoned claim lowers the     *)
(* status of a holder somebody keeps.                                      *)
THEOREM StepsFindTheirDependencies == Spec => []DependenciesReady
  <1>1. GenInv => DependenciesReady
    <2> SUFFICES ASSUME GenInv, NEW c \in Chunks, producer[c].stage = "step"
                 PROVE  \A d \in Chunks :
                           Distance(c, d) < Len(Step(Pyramid, producer[c].status).direct) =>
                               published[d] >= Step(Pyramid, producer[c].status).direct[Distance(c, d) + 1]
      BY DEF DependenciesReady
    <2>1. TypeOK /\ WorkInv
      BY DEF GenInv, TasksInv
    <2>2. producer[c].status # None
      BY <2>1, WorkFacts
    <2>3. Supplied(c, producer[c].status, producer[c].cache)
      BY <2>1, <2>2, WorkFacts
    <2> QED  BY <2>3 DEF Supplied
  <1> QED  BY <1>1, GenAlways, PTL

(* The assertions of claim_status_work, apply_generated_step and           *)
(* store_and_publish_chunk_status cannot fail: a step is applied after its *)
(* parent status was started, first data is installed once, and a claim is *)
(* never without its producer.                                             *)
THEOREM ClaimsComeInOrder == Spec => []ClaimsFollowParents
  <1>1. GenInv => ClaimsFollowParents
    <2> SUFFICES ASSUME GenInv PROVE ClaimsFollowParents
      OBVIOUS
    <2>0. /\ TypeOK /\ WorkInv
          /\ \A t \in TaskIds : task[t] \in Tasks /\ Relies(task[t]) /\ Shaped(task[t])
      BY DEF GenInv, TasksInv, TypeOK, Reliance, TasksShaped
    <2>1. ASSUME NEW t \in TaskIds, task[t].pc = "layer", ~ task[t].cancelled,
                 NEW c \in task[t].todo
          PROVE  started[c] >= task[t].scheduled - 1
      <3>1. c \in Chunks /\ published[c] >= task[t].scheduled - 1
        BY <2>0, <2>1, ClaimIsSupplied
      <3>2. task[t].scheduled \in Int
        <4>1. task[t].scheduled \in Statuses \cup {None}
          BY <2>0, TaskFields
        <4> QED  BY <4>1, StatusFacts DEF Statuses, None
      <3> QED  BY <2>0, <3>1, <3>2, WorkFacts
    <2>2. ASSUME NEW c \in Chunks
          PROVE  /\ producer[c].status = 0 => published[c] = None
                 /\ started[c] # published[c] => producer[c].status = started[c]
      BY <2>0, WorkFacts DEF None
    <2> QED  BY <2>1, <2>2 DEF ClaimsFollowParents
  <1> QED  BY <1>1, GenAlways, PTL

(* await_claimed_chunk_status never sleeps through what it waits for:      *)
(* whoever ends the work, or takes its level away, wakes the waiters.      *)
THEOREM NoWaiterIsForgotten == Spec => []WaitersAreWoken
  <1>1. GenInv => WaitersAreWoken
    BY DEF GenInv, Reliance, Relies, Answer, WaitersAreWoken
  <1> QED  BY <1>1, GenAlways, PTL

(* A chunk is driven by one task at a time, and the holders of its square  *)
(* outlive it (reschedule_chunk_task_b, cancel_generation_task,            *)
(* process_unloads).                                                       *)
THEOREM EachChunkHasOneDriver == Spec => []OneTaskDrives
  <1>1. GenInv => OneTaskDrives
    <2> SUFFICES ASSUME GenInv, NEW t \in TaskIds, Live(t), ~ task[t].cancelled
                 PROVE  /\ t = installing \/ current[task[t].at] = t
                        /\ \A c \in CacheOf(task[t].at, task[t].target) : place[c] # "none"
      BY DEF OneTaskDrives
    <2>1. t = installing \/ current[task[t].at] = t
      BY DEF GenInv, TasksInv, OwnersInv
    <2>2. task[t] # FreeTask
      BY FreeTaskFacts DEF Live
    <2>3. task[t].at # None
      BY <2>2, StatusFacts DEF GenInv, TasksInv, TasksShaped, Shaped, None
    <2> QED  BY <2>1, <2>3 DEF GenInv, SquaresKept
  <1> QED  BY <1>1, GenAlways, PTL
=============================================================================
