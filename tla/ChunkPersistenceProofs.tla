----------------------- MODULE ChunkPersistenceProofs -----------------------
(***************************************************************************)
(* Proofs about ChunkPersistence, for any set of chunks and any bounds.    *)
(*                                                                         *)
(* NoLostUpdate is not inductive: process_unloads looks at the dirty flag, *)
(* the save-pending entities and the references to the holder, and that a  *)
(* holder without any of these is on disk is the invariant ChunkInv.  It   *)
(* says where the newest version of a chunk is on its way to the disk.     *)
(* It rests on there being one save of a chunk at a time, which is the     *)
(* case when save_all_chunks runs at shutdown only (~ AutoSave).           *)
(***************************************************************************)
EXTENDS ChunkPersistence, TLAPS

(* Something still remembers that the newest version of c is unsaved.      *)
Remembered(c) ==
    \/ dirty[c]
    \/ c \in marking
    \/ latest[c] \in pending[c]
    \/ \E k \in Kinds : stage[k][c] = "taken" /\ took[k][c]

(* A holder's data, and where its newest version is.                       *)
Whereabouts(c) ==
    /\ loaded[c] => content[c] = latest[c] /\ place[c] # "none" /\ ~ loading[c]
    /\ ~ loaded[c] => disk[c] = latest[c] /\ pending[c] = {}
    /\ loading[c] => place[c] # "none"
    /\ c \in marking => place[c] = "active"
    /\ loaded[c] /\ disk[c] # latest[c] =>
           Remembered(c) \/ \E k \in Kinds : stage[k][c] = "write" /\ snap[k][c] = latest[c]

(* Saves of one chunk: there is one at a time, it works on loaded data,    *)
(* acknowledges only entities it contains, and overwrites nothing newer    *)
(* that is not remembered.                                                 *)
Saves(c) ==
    /\ pending[c] \subseteq 0 .. latest[c]
    /\ \A k \in Kinds :
           /\ stage[k][c] \in {"taken", "write"} => loaded[c]
           /\ stage[k][c] = "taken" => handled[k][c] \subseteq 0 .. latest[c]
           /\ stage[k][c] = "write" =>
                  /\ snap[k][c] <= latest[c]
                  /\ handled[k][c] \subseteq 0 .. snap[k][c]
                  /\ snap[k][c] # latest[c] => Remembered(c)
    /\ stage["unload"][c] = "none" \/ stage["pass"][c] = "none"
    /\ stage["pass"][c] # "none" => c \in held

ChunkInv(c) == Whereabouts(c) /\ Saves(c)

(* Who runs when.                                                          *)
PhaseInv ==
    /\ pass # "idle" => stop = "saving"
    /\ pass # "each" => passTodo = {} /\ \A c \in Chunks : stage["pass"][c] = "none"
    /\ passTodo \subseteq held
    /\ stop \in {"saving", "halted"} =>
           epoch \in {"idle", "ready"} /\ \A c \in Chunks : ~ loading[c] /\ stage["unload"][c] = "none"
    /\ epoch # "unloads" => unvisited = {}
    /\ \A c \in unvisited : place[c] = "unloading"

IInv == TypeOK /\ PhaseInv /\ \A c \in Chunks : ChunkInv(c)

-----------------------------------------------------------------------------
(* Types.                                                                  *)

LEMMA InitTyped == Init => TypeOK
  <1> SUFFICES ASSUME Init PROVE TypeOK
    OBVIOUS
  <1>1. /\ want \in [Chunks -> BOOLEAN] /\ applied \in [Chunks -> BOOLEAN]
        /\ loading \in [Chunks -> BOOLEAN] /\ loaded \in [Chunks -> BOOLEAN]
        /\ dirty \in [Chunks -> BOOLEAN] /\ lightPending \in [Chunks -> BOOLEAN]
        /\ lightFlying \in [Chunks -> Nat] /\ pending \in [Chunks -> SUBSET Nat]
    BY DEF Init
  <1>2. /\ change \in [Chunks -> {"keep", "load", "unload"}]
        /\ place \in [Chunks -> {"none", "active", "unloading"}]
        /\ lifecycle \in [Chunks -> {"ACTIVE", "UNLOADING", "PREPARING"}]
        /\ content \in [Chunks -> Nat] /\ disk \in [Chunks -> Nat] /\ latest \in [Chunks -> Nat]
    BY DEF Init
  <1>3. stage \in [Kinds -> [Chunks -> Stages]]
    BY DEF Init, Stages
  <1>4. /\ took \in [Kinds -> [Chunks -> BOOLEAN]]
        /\ handled \in [Kinds -> [Chunks -> SUBSET Nat]]
        /\ snap \in [Kinds -> [Chunks -> Nat]]
    BY DEF Init
  <1> QED
    BY <1>1, <1>2, <1>3, <1>4 DEF Init, TypeOK

LEMMA GameKeepsTypes ==
  ASSUME TypeOK, NEW c \in Chunks,
         TicketChange(c) \/ Edit(c) \/ MarkUnsaved(c) \/ RemoveLiveEntity(c)
  PROVE  TypeOK'
  <1>1. CASE TicketChange(c)
    BY <1>1 DEF TypeOK, TicketChange, epochVars, holderVars, lightVars, saveVars, passVars
  <1>2. CASE Edit(c)
    BY <1>2 DEF TypeOK, Edit, Changed, epochVars, holderVars, lightVars, saveVars, passVars
  <1>3. CASE MarkUnsaved(c)
    BY <1>3 DEF TypeOK, MarkUnsaved, epochVars, holderVars, lightVars, saveVars, passVars
  <1>4. CASE RemoveLiveEntity(c)
    BY <1>4 DEF TypeOK, RemoveLiveEntity, Changed, epochVars, holderVars, lightVars, saveVars,
                passVars
  <1> QED
    BY <1>1, <1>2, <1>3, <1>4

LEMMA LightKeepsTypes ==
  ASSUME TypeOK, NEW c \in Chunks,
         QueueLightChange(c) \/ DrainLight(c) \/ PropagateLight(c) \/ PutBackLight(c)
  PROVE  TypeOK'
  <1>1. CASE QueueLightChange(c)
    BY <1>1 DEF TypeOK, QueueLightChange, epochVars, holderVars, saveVars, passVars
  <1>2. CASE DrainLight(c)
    BY <1>2 DEF TypeOK, DrainLight, epochVars, holderVars, saveVars, passVars
  <1>3. CASE PropagateLight(c)
    <2>1. Changed(c) \/ UNCHANGED <<content, latest>>
      BY <1>3, Zenon DEF PropagateLight
    <2>2. dirty' = dirty \/ dirty' = [dirty EXCEPT ![c] = TRUE]
      BY <1>3, Zenon DEF PropagateLight
    <2>3. lightFlying' = [lightFlying EXCEPT ![c] = @ - 1] /\ lightFlying[c] > 0
      BY <1>3, Zenon DEF PropagateLight
    <2>4. content' \in [Chunks -> Nat] /\ latest' \in [Chunks -> Nat]
      <3>1. CASE Changed(c)
        BY <3>1 DEF TypeOK, Changed
      <3>2. CASE UNCHANGED <<content, latest>>
        BY <3>2 DEF TypeOK
      <3> QED
        BY <2>1, <3>1, <3>2
    <2>5. dirty' \in [Chunks -> BOOLEAN]
      BY <2>2 DEF TypeOK
    <2>6. lightFlying' \in [Chunks -> Nat]
      BY <2>3 DEF TypeOK
    <2>7. UNCHANGED <<want, epochVars, deferredRevivals, holderVars, marking, pending,
                      lightPending, lights, saveVars, passVars, stop, disk, failures>>
      BY <1>3, Zenon DEF PropagateLight
    <2> QED
      BY <2>4, <2>5, <2>6, <2>7 DEF TypeOK, epochVars, holderVars, saveVars, passVars
  <1>4. CASE PutBackLight(c)
    BY <1>4 DEF TypeOK, PutBackLight, epochVars, holderVars, saveVars, passVars
  <1> QED
    BY <1>1, <1>2, <1>3, <1>4

LEMMA TasksKeepTypes ==
  ASSUME TypeOK, NEW c \in Chunks,
         FinishLoad(c) \/ AbortLoad(c) \/ FlushLight(c) \/ BeginPreparation(c)
  PROVE  TypeOK'
  <1>1. CASE FinishLoad(c)
    BY <1>1 DEF TypeOK, FinishLoad, epochVars, lightVars, saveVars, passVars
  <1>2. CASE AbortLoad(c)
    BY <1>2 DEF TypeOK, AbortLoad, epochVars, lightVars, saveVars, passVars
  <1>3. CASE FlushLight(c)
    <2>1. PICK s \in Stages : stage' = [stage EXCEPT !["unload"][c] = s]
      BY <1>3 DEF FlushLight, Stages
    <2>2. stage' \in [Kinds -> [Chunks -> Stages]]
      BY <2>1 DEF TypeOK, Kinds
    <2> QED
      BY <1>3, <2>2 DEF TypeOK, FlushLight, epochVars, holderVars, lightVars, passVars
  <1>4. CASE BeginPreparation(c)
    <2>1. PICK s \in Stages : stage' = [stage EXCEPT !["unload"][c] = s]
      BY <1>4 DEF BeginPreparation, Stages
    <2>2. lifecycle' = lifecycle \/ lifecycle' = [lifecycle EXCEPT ![c] = "PREPARING"]
      BY <1>4 DEF BeginPreparation
    <2>3. stage' \in [Kinds -> [Chunks -> Stages]]
      BY <2>1 DEF TypeOK, Kinds
    <2>4. lifecycle' \in [Chunks -> {"ACTIVE", "UNLOADING", "PREPARING"}]
      BY <2>2 DEF TypeOK
    <2>5. UNCHANGED <<want, epochVars, deferredRevivals, place, loading, loaded, content, dirty,
                      marking, pending, lightVars, took, handled, snap, passVars, stop, disk,
                      latest, failures>>
      BY <1>4 DEF BeginPreparation
    <2> QED
      BY <2>3, <2>4, <2>5 DEF TypeOK, epochVars, lightVars, passVars
  <1> QED
    BY <1>1, <1>2, <1>3, <1>4

LEMMA SaveKeepsTypes ==
  ASSUME TypeOK, NEW k \in Kinds, NEW c \in Chunks, Save(k, c)
  PROVE  TypeOK'
  <1>1. CASE TakeDirty(k, c)
    <2>1. passTodo' \in SUBSET passTodo /\ dirty' = [dirty EXCEPT ![c] = FALSE]
      BY <1>1 DEF TakeDirty
    <2>2. UNCHANGED <<want, epochVars, deferredRevivals, place, loading, loaded, content, marking,
                      pending, lightVars, pass, held, passFailed, passes, stop, disk, latest,
                      failures>>
      BY <1>1 DEF TakeDirty
    <2>3. /\ stage' \in [Kinds -> [Chunks -> Stages]]
          /\ took' \in [Kinds -> [Chunks -> BOOLEAN]]
          /\ handled' \in [Kinds -> [Chunks -> SUBSET Nat]]
          /\ snap' \in [Kinds -> [Chunks -> Nat]]
          /\ lifecycle' \in [Chunks -> {"ACTIVE", "UNLOADING", "PREPARING"}]
      <3>1. CASE NeedsSave(c)
        <4>1. /\ stage' = [stage EXCEPT ![k][c] = "taken"]
              /\ took' = [took EXCEPT ![k][c] = dirty[c]]
              /\ handled' = [handled EXCEPT ![k][c] = pending[c]]
              /\ UNCHANGED <<lifecycle, snap>>
          BY <1>1, <3>1 DEF TakeDirty
        <4> QED
          BY <4>1 DEF TypeOK, Stages
      <3>2. CASE ~ NeedsSave(c)
        <4>1. EndSave(k, c) /\ EndPreparation(k, c)
          BY <1>1, <3>2 DEF TakeDirty
        <4> QED
          BY <4>1 DEF TypeOK, EndSave, EndPreparation, Stages
      <3> QED
        BY <3>1, <3>2
    <2> QED
      BY <2>1, <2>2, <2>3 DEF TypeOK, epochVars, lightVars
  <1>2. CASE NothingToSave(k, c)
    BY <1>2 DEF TypeOK, NothingToSave, EndSave, EndPreparation, Stages, epochVars, lightVars
  <1>3. CASE Snapshot(k, c)
    BY <1>3 DEF TypeOK, Snapshot, EndPreparation, Stages, epochVars, lightVars, passVars
  <1>4. CASE PreparationFails(k, c)
    BY <1>4 DEF TypeOK, PreparationFails, EndSave, EndPreparation, Stages, epochVars, lightVars,
                passVars
  <1>5. CASE WriteChunk(k, c)
    BY <1>5 DEF TypeOK, WriteChunk, EndSave, Stages, epochVars, holderVars, lightVars, passVars
  <1>6. CASE WriteFails(k, c)
    BY <1>6 DEF TypeOK, WriteFails, EndSave, Stages, epochVars, holderVars, lightVars
  <1> QED
    BY <1>1, <1>2, <1>3, <1>4, <1>5, <1>6 DEF Save

LEMMA EpochKeepsTypes ==
  ASSUME TypeOK, StartEpoch \/ EpochTask \/ Commit
  PROVE  TypeOK'
  <1>1. CASE StartEpoch
    BY <1>1 DEF TypeOK, StartEpoch, holderVars, lightVars, saveVars, passVars
  <1>2. CASE ApplyTickets
    BY <1>2 DEF TypeOK, ApplyTickets, holderVars, lightVars, saveVars, passVars
  <1>3. ASSUME NEW c \in Chunks, KeepUnloading(c)
        PROVE  TypeOK'
    BY <1>3 DEF TypeOK, KeepUnloading, holderVars, lightVars, saveVars, passVars
  <1>4. ASSUME NEW c \in Chunks, SpawnSave(c)
        PROVE  TypeOK'
    BY <1>4 DEF TypeOK, SpawnSave, Kinds, Stages, holderVars, lightVars, passVars
  <1>5. ASSUME NEW c \in Chunks, Finalize(c)
        PROVE  TypeOK'
    BY <1>5 DEF TypeOK, Finalize, lightVars, saveVars, passVars
  <1>6. CASE FinishEpoch
    BY <1>6 DEF TypeOK, FinishEpoch, holderVars, lightVars, saveVars, passVars
  <1>7. CASE Commit
    BY <1>7 DEF TypeOK, Commit, lightVars, saveVars, passVars
  <1> QED
    BY <1>1, <1>2, <1>3, <1>4, <1>5, <1>6, <1>7 DEF EpochTask

LEMMA PassKeepsTypes ==
  ASSUME TypeOK, Pass \/ Cleanup \/ TasksJoined
  PROVE  TypeOK'
  <1>1. CASE RequestSave
    <2>1. pass' = "flush" /\ passes' = passes + 1
      BY <1>1 DEF RequestSave
    <2>2. UNCHANGED <<want, epochVars, deferredRevivals, holderVars, content, dirty, marking,
                      pending, lightVars, saveVars, held, passTodo, stop, disk, latest, failures>>
      BY <1>1 DEF RequestSave
    <2>3. passFailed' \in BOOLEAN
      BY <1>1, Zenon DEF RequestSave
    <2> QED
      BY <2>1, <2>2, <2>3 DEF TypeOK, epochVars, holderVars, lightVars, saveVars
  <1>2. CASE PassFlushLight
    BY <1>2 DEF TypeOK, PassFlushLight, epochVars, holderVars, lightVars, saveVars
  <1>3. CASE PassCollect
    BY <1>3 DEF TypeOK, PassCollect, epochVars, holderVars, lightVars, saveVars
  <1>4. CASE PassEnds
    BY <1>4 DEF TypeOK, PassEnds, epochVars, holderVars, lightVars, saveVars
  <1>5. CASE Cleanup
    BY <1>5 DEF TypeOK, Cleanup, epochVars, holderVars, lightVars, saveVars, passVars
  <1>6. CASE TasksJoined
    BY <1>6 DEF TypeOK, TasksJoined, epochVars, holderVars, lightVars, saveVars
  <1> QED
    BY <1>1, <1>2, <1>3, <1>4, <1>5, <1>6 DEF Pass

LEMMA StutterKeepsTypes == ASSUME TypeOK, UNCHANGED vars PROVE TypeOK'
  BY DEF TypeOK, vars, epochVars, holderVars, lightVars, saveVars, passVars

LEMMA StepKeepsTypes == ASSUME TypeOK, [Next]_vars PROVE TypeOK'
  <1>1. CASE UNCHANGED vars
    BY <1>1, StutterKeepsTypes
  <1>2. CASE Next
    BY <1>2, GameKeepsTypes, LightKeepsTypes, TasksKeepTypes, SaveKeepsTypes, EpochKeepsTypes,
       PassKeepsTypes DEF Next
  <1> QED
    BY <1>1, <1>2

(* Every variable of the chunk map and of its save tasks keeps its type,   *)
(* with or without autosaves.                                              *)
THEOREM PersistenceTyped == Spec => []TypeOK
  BY InitTyped, StepKeepsTypes, PTL DEF Spec

-----------------------------------------------------------------------------
(* NoLostUpdate.                                                           *)

LEMMA ChunkUntouched ==
  ASSUME NEW d \in Chunks, ChunkInv(d),
         UNCHANGED <<loaded[d], content[d], latest[d], disk[d], place[d], loading[d], dirty[d],
                     pending[d]>>,
         d \in marking' <=> d \in marking,
         d \in held' <=> d \in held,
         \A k \in Kinds : UNCHANGED <<stage[k][d], took[k][d], handled[k][d], snap[k][d]>>
  PROVE  ChunkInv(d)'
  <1>1. Remembered(d)' <=> Remembered(d)
    BY DEF Remembered
  <1>2. Whereabouts(d)'
    BY <1>1 DEF ChunkInv, Whereabouts, Kinds
  <1>3. Saves(d)'
    BY <1>1 DEF ChunkInv, Saves, Kinds
  <1> QED
    BY <1>2, <1>3 DEF ChunkInv

LEMMA EditKeepsChunks ==
  ASSUME IInv, NEW c \in Chunks, Edit(c), NEW d \in Chunks
  PROVE  ChunkInv(d)'
  <1>0. TypeOK /\ PhaseInv /\ ChunkInv(c) /\ ChunkInv(d)
    BY DEF IInv
  <1>1. CASE d # c
    BY <1>0, <1>1, ChunkUntouched DEF TypeOK, Edit, Changed, Kinds, holderVars, saveVars, passVars
  <1>2. Whereabouts(c)'
    BY <1>0 DEF TypeOK, PhaseInv, ChunkInv, Whereabouts, Saves, Remembered, Edit, Changed, Kinds, holderVars, saveVars, passVars
  <1>3. Saves(c)'
    BY <1>0 DEF TypeOK, PhaseInv, ChunkInv, Whereabouts, Saves, Remembered, Edit, Changed, Kinds, holderVars, saveVars, passVars
  <1> QED
    BY <1>1, <1>2, <1>3 DEF ChunkInv

LEMMA MarkUnsavedKeepsChunks ==
  ASSUME IInv, NEW c \in Chunks, MarkUnsaved(c), NEW d \in Chunks
  PROVE  ChunkInv(d)'
  <1>0. TypeOK /\ PhaseInv /\ ChunkInv(c) /\ ChunkInv(d)
    BY DEF IInv
  <1>1. CASE d # c
    BY <1>0, <1>1, ChunkUntouched DEF TypeOK, MarkUnsaved, Changed, Kinds, holderVars, saveVars, passVars
  <1>2. Whereabouts(c)'
    BY <1>0 DEF TypeOK, PhaseInv, ChunkInv, Whereabouts, Saves, Remembered, MarkUnsaved, Changed, Kinds, holderVars, saveVars, passVars
  <1>3. Saves(c)'
    BY <1>0 DEF TypeOK, PhaseInv, ChunkInv, Whereabouts, Saves, Remembered, MarkUnsaved, Changed, Kinds, holderVars, saveVars, passVars
  <1> QED
    BY <1>1, <1>2, <1>3 DEF ChunkInv

LEMMA RemoveLiveEntityKeepsChunks ==
  ASSUME IInv, NEW c \in Chunks, RemoveLiveEntity(c), NEW d \in Chunks
  PROVE  ChunkInv(d)'
  <1>0. TypeOK /\ PhaseInv /\ ChunkInv(c) /\ ChunkInv(d)
    BY DEF IInv
  <1>1. CASE d # c
    BY <1>0, <1>1, ChunkUntouched DEF TypeOK, RemoveLiveEntity, Changed, Kinds, holderVars, saveVars, passVars
  <1>2. Whereabouts(c)'
    BY <1>0 DEF TypeOK, PhaseInv, ChunkInv, Whereabouts, Saves, Remembered, RemoveLiveEntity, Changed, Kinds, holderVars, saveVars, passVars
  <1>3. Saves(c)'
    BY <1>0 DEF TypeOK, PhaseInv, ChunkInv, Whereabouts, Saves, Remembered, RemoveLiveEntity, Changed, Kinds, holderVars, saveVars, passVars
  <1> QED
    BY <1>1, <1>2, <1>3 DEF ChunkInv

LEMMA PropagateLightKeepsChunks ==
  ASSUME IInv, NEW c \in Chunks, PropagateLight(c), NEW d \in Chunks
  PROVE  ChunkInv(d)'
  <1>0. TypeOK /\ PhaseInv /\ ChunkInv(c) /\ ChunkInv(d)
    BY DEF IInv
  <1>1. CASE d # c
    BY <1>0, <1>1, ChunkUntouched DEF TypeOK, PropagateLight, Changed, Kinds, holderVars, saveVars, passVars
  <1>2. Whereabouts(c)'
    BY <1>0 DEF TypeOK, PhaseInv, ChunkInv, Whereabouts, Saves, Remembered, PropagateLight, Changed, Kinds, holderVars, saveVars, passVars
  <1>3. Saves(c)'
    BY <1>0 DEF TypeOK, PhaseInv, ChunkInv, Whereabouts, Saves, Remembered, PropagateLight, Changed, Kinds, holderVars, saveVars, passVars
  <1> QED
    BY <1>1, <1>2, <1>3 DEF ChunkInv

LEMMA FinishLoadKeepsChunks ==
  ASSUME IInv, NEW c \in Chunks, FinishLoad(c), NEW d \in Chunks
  PROVE  ChunkInv(d)'
  <1>0. TypeOK /\ PhaseInv /\ ChunkInv(c) /\ ChunkInv(d)
    BY DEF IInv
  <1>1. CASE d # c
    BY <1>0, <1>1, ChunkUntouched DEF TypeOK, FinishLoad, Changed, Kinds, holderVars, saveVars, passVars
  <1>2. Whereabouts(c)'
    BY <1>0 DEF TypeOK, PhaseInv, ChunkInv, Whereabouts, Saves, Remembered, FinishLoad, Changed, Kinds, holderVars, saveVars, passVars
  <1>3. Saves(c)'
    BY <1>0 DEF TypeOK, PhaseInv, ChunkInv, Whereabouts, Saves, Remembered, FinishLoad, Changed, Kinds, holderVars, saveVars, passVars
  <1> QED
    BY <1>1, <1>2, <1>3 DEF ChunkInv

LEMMA AbortLoadKeepsChunks ==
  ASSUME IInv, NEW c \in Chunks, AbortLoad(c), NEW d \in Chunks
  PROVE  ChunkInv(d)'
  <1>0. TypeOK /\ PhaseInv /\ ChunkInv(c) /\ ChunkInv(d)
    BY DEF IInv
  <1>1. CASE d # c
    BY <1>0, <1>1, ChunkUntouched DEF TypeOK, AbortLoad, Changed, Kinds, holderVars, saveVars, passVars
  <1>2. Whereabouts(c)'
    BY <1>0 DEF TypeOK, PhaseInv, ChunkInv, Whereabouts, Saves, Remembered, AbortLoad, Changed, Kinds, holderVars, saveVars, passVars
  <1>3. Saves(c)'
    BY <1>0 DEF TypeOK, PhaseInv, ChunkInv, Whereabouts, Saves, Remembered, AbortLoad, Changed, Kinds, holderVars, saveVars, passVars
  <1> QED
    BY <1>1, <1>2, <1>3 DEF ChunkInv

LEMMA FlushLightKeepsChunks ==
  ASSUME IInv, NEW c \in Chunks, FlushLight(c), NEW d \in Chunks
  PROVE  ChunkInv(d)'
  <1>0. TypeOK /\ PhaseInv /\ ChunkInv(c) /\ ChunkInv(d)
    BY DEF IInv
  <1>1. CASE d # c
    BY <1>0, <1>1, ChunkUntouched DEF TypeOK, FlushLight, Changed, Kinds, holderVars, saveVars, passVars
  <1>2. Whereabouts(c)'
    BY <1>0 DEF TypeOK, PhaseInv, ChunkInv, Whereabouts, Saves, Remembered, FlushLight, Changed, Kinds, holderVars, saveVars, passVars
  <1>3. Saves(c)'
    BY <1>0 DEF TypeOK, PhaseInv, ChunkInv, Whereabouts, Saves, Remembered, FlushLight, Changed, Kinds, holderVars, saveVars, passVars
  <1> QED
    BY <1>1, <1>2, <1>3 DEF ChunkInv

LEMMA BeginPreparationKeepsChunks ==
  ASSUME IInv, NEW c \in Chunks, BeginPreparation(c), NEW d \in Chunks
  PROVE  ChunkInv(d)'
  <1>0. TypeOK /\ PhaseInv /\ ChunkInv(c) /\ ChunkInv(d)
    BY DEF IInv
  <1>1. CASE d # c
    BY <1>0, <1>1, ChunkUntouched DEF TypeOK, BeginPreparation, Changed, Kinds, holderVars, saveVars, passVars
  <1>2. Whereabouts(c)'
    BY <1>0 DEF TypeOK, PhaseInv, ChunkInv, Whereabouts, Saves, Remembered, BeginPreparation, Changed, Kinds, holderVars, saveVars, passVars
  <1>3. Saves(c)'
    BY <1>0 DEF TypeOK, PhaseInv, ChunkInv, Whereabouts, Saves, Remembered, BeginPreparation, Changed, Kinds, holderVars, saveVars, passVars
  <1> QED
    BY <1>1, <1>2, <1>3 DEF ChunkInv

LEMMA SpawnSaveKeepsChunks ==
  ASSUME IInv, NEW c \in Chunks, SpawnSave(c), NEW d \in Chunks
  PROVE  ChunkInv(d)'
  <1>0. TypeOK /\ PhaseInv /\ ChunkInv(c) /\ ChunkInv(d)
    BY DEF IInv
  <1>1. CASE d # c
    BY <1>0, <1>1, ChunkUntouched DEF TypeOK, SpawnSave, Kinds, holderVars, saveVars, passVars
  <1>2. Whereabouts(c)'
    BY <1>0 DEF TypeOK, PhaseInv, ChunkInv, Whereabouts, Saves, Remembered, SpawnSave, Unreferenced, Referenced, NeedsSave, Kinds, holderVars, saveVars, passVars
  <1>3. Saves(c)'
    BY <1>0 DEF TypeOK, PhaseInv, ChunkInv, Whereabouts, Saves, Remembered, SpawnSave, Unreferenced, Referenced, NeedsSave, Kinds, holderVars, saveVars, passVars
  <1> QED
    BY <1>1, <1>2, <1>3 DEF ChunkInv

LEMMA FinalizeKeepsChunks ==
  ASSUME IInv, NEW c \in Chunks, Finalize(c), NEW d \in Chunks
  PROVE  ChunkInv(d)'
  <1>0. TypeOK /\ PhaseInv /\ ChunkInv(c) /\ ChunkInv(d)
    BY DEF IInv
  <1>1. CASE d # c
    BY <1>0, <1>1, ChunkUntouched DEF TypeOK, Finalize, Kinds, holderVars, saveVars, passVars
  <1>2. Whereabouts(c)'
    BY <1>0 DEF TypeOK, PhaseInv, ChunkInv, Whereabouts, Saves, Remembered, Finalize, Unreferenced, Referenced, NeedsSave, Kinds, holderVars, saveVars, passVars
  <1>3. Saves(c)'
    BY <1>0 DEF TypeOK, PhaseInv, ChunkInv, Whereabouts, Saves, Remembered, Finalize, Unreferenced, Referenced, NeedsSave, Kinds, holderVars, saveVars, passVars
  <1> QED
    BY <1>1, <1>2, <1>3 DEF ChunkInv

LEMMA TakeDirtyKeepsChunks ==
  ASSUME IInv, NEW k \in Kinds, NEW c \in Chunks, TakeDirty(k, c), NEW d \in Chunks
  PROVE  ChunkInv(d)'
  <1>0. TypeOK /\ PhaseInv /\ ChunkInv(c) /\ ChunkInv(d)
    BY DEF IInv
  <1>1. /\ loaded[c] /\ dirty' = [dirty EXCEPT ![c] = FALSE]
        /\ UNCHANGED <<place, loading, loaded, content, marking, pending, held, disk, latest>>
    BY DEF TakeDirty
  <1>2. /\ stage[k][c] \notin {"taken", "write"}
        /\ k = "pass" => c \in held /\ stage["unload"][c] = "none"
        /\ k = "unload" => stage["pass"][c] = "none"
    BY <1>0 DEF TakeDirty, PassReaches, PhaseInv, ChunkInv, Saves, Kinds
  <1>3. CASE NeedsSave(c)
    <2>1. /\ stage' = [stage EXCEPT ![k][c] = "taken"]
          /\ took' = [took EXCEPT ![k][c] = dirty[c]]
          /\ handled' = [handled EXCEPT ![k][c] = pending[c]]
          /\ snap' = snap
      BY <1>3 DEF TakeDirty
    <2>2. CASE d # c
      <3>1. \A j \in Kinds : UNCHANGED <<stage[j][d], took[j][d], handled[j][d], snap[j][d]>>
        BY <1>0, <2>1, <2>2 DEF TypeOK
      <3>2. UNCHANGED <<loaded[d], content[d], latest[d], disk[d], place[d], loading[d], dirty[d],
                        pending[d], marking, held>>
        BY <1>0, <1>1, <2>2 DEF TypeOK
      <3> QED
        BY <1>0, <3>1, <3>2, ChunkUntouched
    <2>3. Whereabouts(c)'
      BY <1>0, <1>1, <1>2, <2>1 DEF TypeOK, ChunkInv, Whereabouts, Remembered, Saves, Kinds
    <2>4. Saves(c)'
      BY <1>0, <1>1, <1>2, <2>1 DEF TypeOK, ChunkInv, Whereabouts, Remembered, Saves, Kinds
    <2> QED
      BY <2>2, <2>3, <2>4 DEF ChunkInv
  <1>4. CASE ~ NeedsSave(c)
    <2>1. EndSave(k, c)
      BY <1>4 DEF TakeDirty
    <2>2. CASE d # c
      <3>1. \A j \in Kinds : UNCHANGED <<stage[j][d], took[j][d], handled[j][d], snap[j][d]>>
        BY <1>0, <2>1, <2>2 DEF TypeOK, EndSave
      <3>2. UNCHANGED <<loaded[d], content[d], latest[d], disk[d], place[d], loading[d], dirty[d],
                        pending[d], marking, held>>
        BY <1>0, <1>1, <2>2 DEF TypeOK
      <3> QED
        BY <1>0, <3>1, <3>2, ChunkUntouched
    <2>3. Whereabouts(c)'
      BY <1>0, <1>1, <1>2, <1>4, <2>1
         DEF TypeOK, ChunkInv, Whereabouts, Remembered, Saves, EndSave, NeedsSave, Kinds
    <2>4. Saves(c)'
      BY <1>0, <1>1, <1>2, <1>4, <2>1
         DEF TypeOK, ChunkInv, Whereabouts, Remembered, Saves, EndSave, NeedsSave, Kinds
    <2> QED
      BY <2>2, <2>3, <2>4 DEF ChunkInv
  <1> QED
    BY <1>3, <1>4

LEMMA NothingToSaveKeepsChunks ==
  ASSUME IInv, NEW k \in Kinds, NEW c \in Chunks, NothingToSave(k, c), NEW d \in Chunks
  PROVE  ChunkInv(d)'
  <1>0. TypeOK /\ PhaseInv /\ ChunkInv(c) /\ ChunkInv(d)
    BY DEF IInv
  <1>1. CASE d # c
    BY <1>0, <1>1, ChunkUntouched DEF TypeOK, NothingToSave, EndSave, Kinds, holderVars, saveVars, passVars
  <1>2. Whereabouts(c)'
    BY <1>0 DEF TypeOK, PhaseInv, ChunkInv, Whereabouts, Saves, Remembered, NothingToSave, EndSave, PassReaches, NeedsSave, Kinds, holderVars, saveVars, passVars
  <1>3. Saves(c)'
    BY <1>0 DEF TypeOK, PhaseInv, ChunkInv, Whereabouts, Saves, Remembered, NothingToSave, EndSave, PassReaches, NeedsSave, Kinds, holderVars, saveVars, passVars
  <1> QED
    BY <1>1, <1>2, <1>3 DEF ChunkInv

LEMMA SnapshotKeepsChunks ==
  ASSUME IInv, NEW k \in Kinds, NEW c \in Chunks, Snapshot(k, c), NEW d \in Chunks
  PROVE  ChunkInv(d)'
  <1>0. TypeOK /\ PhaseInv /\ ChunkInv(c) /\ ChunkInv(d)
    BY DEF IInv
  <1>1. CASE d # c
    BY <1>0, <1>1, ChunkUntouched DEF TypeOK, Snapshot, EndSave, Kinds, holderVars, saveVars, passVars
  <1>2. Whereabouts(c)'
    BY <1>0 DEF TypeOK, PhaseInv, ChunkInv, Whereabouts, Saves, Remembered, Snapshot, EndSave, PassReaches, NeedsSave, Kinds, holderVars, saveVars, passVars
  <1>3. Saves(c)'
    BY <1>0 DEF TypeOK, PhaseInv, ChunkInv, Whereabouts, Saves, Remembered, Snapshot, EndSave, PassReaches, NeedsSave, Kinds, holderVars, saveVars, passVars
  <1> QED
    BY <1>1, <1>2, <1>3 DEF ChunkInv

LEMMA PreparationFailsKeepsChunks ==
  ASSUME IInv, NEW k \in Kinds, NEW c \in Chunks, PreparationFails(k, c), NEW d \in Chunks
  PROVE  ChunkInv(d)'
  <1>0. TypeOK /\ PhaseInv /\ ChunkInv(c) /\ ChunkInv(d)
    BY DEF IInv
  <1>1. CASE d # c
    BY <1>0, <1>1, ChunkUntouched DEF TypeOK, PreparationFails, EndSave, Kinds, holderVars, saveVars, passVars
  <1>2. Whereabouts(c)'
    BY <1>0 DEF TypeOK, PhaseInv, ChunkInv, Whereabouts, Saves, Remembered, PreparationFails, EndSave, PassReaches, NeedsSave, Kinds, holderVars, saveVars, passVars
  <1>3. Saves(c)'
    BY <1>0 DEF TypeOK, PhaseInv, ChunkInv, Whereabouts, Saves, Remembered, PreparationFails, EndSave, PassReaches, NeedsSave, Kinds, holderVars, saveVars, passVars
  <1> QED
    BY <1>1, <1>2, <1>3 DEF ChunkInv

LEMMA WriteChunkKeepsChunks ==
  ASSUME IInv, NEW k \in Kinds, NEW c \in Chunks, WriteChunk(k, c), NEW d \in Chunks
  PROVE  ChunkInv(d)'
  <1>0. TypeOK /\ PhaseInv /\ ChunkInv(c) /\ ChunkInv(d)
    BY DEF IInv
  <1>1. CASE d # c
    BY <1>0, <1>1, ChunkUntouched DEF TypeOK, WriteChunk, EndSave, Kinds, holderVars, saveVars, passVars
  <1>2. Whereabouts(c)'
    BY <1>0 DEF TypeOK, PhaseInv, ChunkInv, Whereabouts, Saves, Remembered, WriteChunk, EndSave, PassReaches, NeedsSave, Kinds, holderVars, saveVars, passVars
  <1>3. Saves(c)'
    BY <1>0 DEF TypeOK, PhaseInv, ChunkInv, Whereabouts, Saves, Remembered, WriteChunk, EndSave, PassReaches, NeedsSave, Kinds, holderVars, saveVars, passVars
  <1> QED
    BY <1>1, <1>2, <1>3 DEF ChunkInv

LEMMA WriteFailsKeepsChunks ==
  ASSUME IInv, NEW k \in Kinds, NEW c \in Chunks, WriteFails(k, c), NEW d \in Chunks
  PROVE  ChunkInv(d)'
  <1>0. TypeOK /\ PhaseInv /\ ChunkInv(c) /\ ChunkInv(d)
    BY DEF IInv
  <1>1. CASE d # c
    BY <1>0, <1>1, ChunkUntouched DEF TypeOK, WriteFails, EndSave, Kinds, holderVars, saveVars, passVars
  <1>2. Whereabouts(c)'
    BY <1>0 DEF TypeOK, PhaseInv, ChunkInv, Whereabouts, Saves, Remembered, WriteFails, EndSave, PassReaches, NeedsSave, Kinds, holderVars, saveVars, passVars
  <1>3. Saves(c)'
    BY <1>0 DEF TypeOK, PhaseInv, ChunkInv, Whereabouts, Saves, Remembered, WriteFails, EndSave, PassReaches, NeedsSave, Kinds, holderVars, saveVars, passVars
  <1> QED
    BY <1>1, <1>2, <1>3 DEF ChunkInv

LEMMA CommitKeepsChunks ==
  ASSUME IInv, Commit, NEW d \in Chunks
  PROVE  ChunkInv(d)'
  <1>0. TypeOK /\ ChunkInv(d)
    BY DEF IInv
  <1>1. /\ marking = {} /\ UNCHANGED <<loaded, content, latest, disk, dirty, pending, marking,
                                       held, saveVars>>
    BY DEF Commit, passVars
  <1>2. /\ place[d] # "none" => place'[d] # "none"
        /\ loading'[d] => loading[d] \/ (place'[d] # "none" /\ ~ loaded[d])
    BY <1>0 DEF Commit, Effective, TypeOK, ChunkInv, Whereabouts
  <1>3. Remembered(d)' <=> Remembered(d)
    BY <1>1 DEF Remembered, saveVars
  <1>4. Whereabouts(d)'
    BY <1>0, <1>1, <1>2, <1>3 DEF TypeOK, ChunkInv, Whereabouts, saveVars
  <1>5. Saves(d)'
    BY <1>0, <1>1, <1>3 DEF ChunkInv, Saves, saveVars
  <1> QED
    BY <1>4, <1>5 DEF ChunkInv

LEMMA PassKeepsChunks ==
  ASSUME IInv, PassCollect \/ PassEnds, NEW d \in Chunks
  PROVE  ChunkInv(d)'
  <1>0. TypeOK /\ PhaseInv /\ ChunkInv(d)
    BY DEF IInv
  <1>1. UNCHANGED <<loaded, content, latest, disk, place, loading, dirty, pending, marking,
                    saveVars>>
    BY DEF PassCollect, PassEnds, holderVars
  <1>2. stage["pass"][d] = "none"
    BY <1>0 DEF PassCollect, PassEnds, PhaseInv
  <1>3. Remembered(d)' <=> Remembered(d)
    BY <1>1 DEF Remembered, saveVars
  <1>4. Whereabouts(d)'
    BY <1>0, <1>1, <1>3 DEF ChunkInv, Whereabouts, saveVars
  <1>5. Saves(d)'
    BY <1>0, <1>1, <1>2, <1>3 DEF ChunkInv, Saves, saveVars
  <1> QED
    BY <1>4, <1>5 DEF ChunkInv

(* Steps that change nothing ChunkInv speaks of.                           *)
LEMMA ChunksUntouched ==
  ASSUME IInv, NEW d \in Chunks,
         UNCHANGED <<loaded, content, latest, disk, place, loading, dirty, pending, marking, held,
                     saveVars>>
  PROVE  ChunkInv(d)'
  BY ChunkUntouched DEF IInv, saveVars

LEMMA StepKeepsChunks ==
  ASSUME ~ AutoSave, IInv, [Next]_vars, NEW d \in Chunks
  PROVE  ChunkInv(d)'
  <1>1. CASE UNCHANGED vars
    BY <1>1, ChunksUntouched DEF vars, holderVars, passVars
  <1>2. ASSUME NEW c \in Chunks,
               TicketChange(c) \/ QueueLightChange(c) \/ DrainLight(c) \/ PutBackLight(c)
                   \/ KeepUnloading(c)
        PROVE  ChunkInv(d)'
    BY <1>2, ChunksUntouched
       DEF TicketChange, QueueLightChange, DrainLight, PutBackLight, KeepUnloading, holderVars,
           passVars
  <1>3. CASE StartEpoch \/ ApplyTickets \/ FinishEpoch \/ PassFlushLight \/ Cleanup \/ TasksJoined
    BY <1>3, ChunksUntouched
       DEF StartEpoch, ApplyTickets, FinishEpoch, PassFlushLight, Cleanup, TasksJoined,
           holderVars, passVars
  <1>4. ASSUME NEW c \in Chunks,
               Edit(c) \/ MarkUnsaved(c) \/ RemoveLiveEntity(c) \/ PropagateLight(c)
                   \/ FinishLoad(c) \/ AbortLoad(c)
        PROVE  ChunkInv(d)'
    BY <1>4, EditKeepsChunks, MarkUnsavedKeepsChunks, RemoveLiveEntityKeepsChunks,
       PropagateLightKeepsChunks, FinishLoadKeepsChunks, AbortLoadKeepsChunks
  <1>5. ASSUME NEW c \in Chunks,
               FlushLight(c) \/ BeginPreparation(c) \/ SpawnSave(c) \/ Finalize(c)
        PROVE  ChunkInv(d)'
    BY <1>5, FlushLightKeepsChunks, BeginPreparationKeepsChunks, SpawnSaveKeepsChunks,
       FinalizeKeepsChunks
  <1>6. ASSUME NEW c \in Chunks, NEW k \in Kinds, Save(k, c)
        PROVE  ChunkInv(d)'
    BY <1>6, TakeDirtyKeepsChunks, NothingToSaveKeepsChunks, SnapshotKeepsChunks,
       PreparationFailsKeepsChunks, WriteChunkKeepsChunks, WriteFailsKeepsChunks DEF Save
  <1>7. CASE Commit \/ PassCollect \/ PassEnds
    BY <1>7, CommitKeepsChunks, PassKeepsChunks
  <1>8. ~ RequestSave
    BY DEF RequestSave
  <1> QED
    BY <1>1, <1>2, <1>3, <1>4, <1>5, <1>6, <1>7, <1>8 DEF Next, EpochTask, Pass

LEMMA PhaseUntouched ==
  ASSUME PhaseInv, UNCHANGED <<pass, stop, stage, passTodo, held, epoch, loading, unvisited, place>>
  PROVE  PhaseInv'
  BY DEF PhaseInv

LEMMA StepKeepsPhases ==
  ASSUME ~ AutoSave, IInv, [Next]_vars
  PROVE  PhaseInv'
  <1>0. TypeOK /\ PhaseInv
    BY DEF IInv
  <1>1. CASE UNCHANGED vars
    BY <1>0, <1>1, PhaseUntouched DEF vars, epochVars, holderVars, saveVars, passVars
  <1>2. ASSUME NEW c \in Chunks,
               TicketChange(c) \/ Edit(c) \/ MarkUnsaved(c) \/ RemoveLiveEntity(c)
                   \/ QueueLightChange(c) \/ DrainLight(c) \/ PropagateLight(c) \/ PutBackLight(c)
        PROVE  PhaseInv'
    BY <1>0, <1>2, PhaseUntouched
       DEF TicketChange, Edit, MarkUnsaved, RemoveLiveEntity, QueueLightChange, DrainLight,
           PropagateLight, PutBackLight, epochVars, holderVars, saveVars, passVars
  <1>3. ASSUME NEW c \in Chunks, FinishLoad(c) \/ AbortLoad(c)
        PROVE  PhaseInv'
    BY <1>0, <1>3 DEF FinishLoad, AbortLoad, TypeOK, PhaseInv, epochVars, saveVars, passVars
  <1>4. ASSUME NEW c \in Chunks, FlushLight(c)
        PROVE  PhaseInv'
    BY <1>0, <1>4 DEF FlushLight, TypeOK, PhaseInv, Kinds, epochVars, holderVars, passVars
  <1>5. ASSUME NEW c \in Chunks, BeginPreparation(c)
        PROVE  PhaseInv'
    BY <1>0, <1>5 DEF BeginPreparation, TypeOK, PhaseInv, Kinds, epochVars, passVars
  <1>6. ASSUME NEW k \in Kinds, NEW c \in Chunks, Save(k, c)
        PROVE  PhaseInv'
    <2>1. UNCHANGED <<pass, stop, held, epoch, loading, unvisited, place>>
      BY <1>6 DEF Save, TakeDirty, NothingToSave, Snapshot, PreparationFails, WriteChunk, WriteFails,
                  epochVars, holderVars, passVars
    <2>2. passTodo' \subseteq passTodo
      BY <1>6 DEF Save, TakeDirty, NothingToSave, Snapshot, PreparationFails, WriteChunk, WriteFails,
                  passVars
    <2>3. PICK s : stage' = [stage EXCEPT ![k][c] = s]
      BY <1>6 DEF Save, TakeDirty, NothingToSave, Snapshot, PreparationFails, WriteChunk, WriteFails,
                  EndSave
    <2>4. /\ k = "unload" => stop \notin {"saving", "halted"}
          /\ k = "pass" => pass = "each"
      BY <1>0, <1>6 DEF Save, TakeDirty, NothingToSave, Snapshot, PreparationFails, WriteChunk,
                        WriteFails, PassReaches, PhaseInv, Kinds
    <2> QED
      BY <1>0, <2>1, <2>2, <2>3, <2>4 DEF TypeOK, PhaseInv, Kinds
  <1>7. CASE StartEpoch \/ ApplyTickets \/ FinishEpoch
    BY <1>0, <1>7 DEF StartEpoch, ApplyTickets, FinishEpoch, TypeOK, PhaseInv, holderVars, saveVars,
                      passVars
  <1>8. ASSUME NEW c \in Chunks, KeepUnloading(c) \/ SpawnSave(c) \/ Finalize(c)
        PROVE  PhaseInv'
    BY <1>0, <1>8 DEF KeepUnloading, SpawnSave, Finalize, Unreferenced, TypeOK, PhaseInv, Kinds,
                      holderVars, saveVars, passVars
  <1>9. CASE Commit
    BY <1>0, <1>9 DEF Commit, TypeOK, PhaseInv, saveVars, passVars
  <1>10. CASE PassFlushLight \/ PassCollect \/ PassEnds
    BY <1>0, <1>10 DEF PassFlushLight, PassCollect, PassEnds, TypeOK, PhaseInv, epochVars,
                       holderVars, saveVars
  <1>11. CASE Cleanup \/ TasksJoined
    BY <1>0, <1>11 DEF Cleanup, TasksJoined, TypeOK, PhaseInv, epochVars, holderVars, saveVars,
                       passVars
  <1>12. ~ RequestSave
    BY DEF RequestSave
  <1> QED
    BY <1>1, <1>2, <1>3, <1>4, <1>5, <1>6, <1>7, <1>8, <1>9, <1>10, <1>11, <1>12
       DEF Next, EpochTask, Pass

LEMMA InitIInv == Init => IInv
  <1> SUFFICES ASSUME Init PROVE IInv
    OBVIOUS
  <1>1. TypeOK
    BY InitTyped
  <1>2. PhaseInv
    BY DEF Init, PhaseInv, Kinds
  <1>3. ASSUME NEW c \in Chunks PROVE ChunkInv(c)
    BY DEF Init, ChunkInv, Whereabouts, Saves, Remembered, Kinds
  <1> QED
    BY <1>1, <1>2, <1>3 DEF IInv

LEMMA StepKeepsIInv ==
  ASSUME ~ AutoSave, IInv, [Next]_vars
  PROVE  IInv'
  BY StepKeepsTypes, StepKeepsPhases, StepKeepsChunks DEF IInv

(* Without autosaves no change of a chunk is ever lost, for any number of  *)
(* chunks and changes: a chunk in memory is its newest version, whatever   *)
(* the interleaving of edits, saves, unloads and revivals, and             *)
(* process_unloads never drops one that is not on disk.                    *)
THEOREM NothingLost == ASSUME ~ AutoSave PROVE Spec => []NoLostUpdate
  <1>1. IInv => NoLostUpdate
    BY DEF IInv, ChunkInv, Whereabouts, NoLostUpdate
  <1> QED
    BY InitIInv, <1>1, StepKeepsIInv, PTL DEF Spec

-----------------------------------------------------------------------------
(* The save lifecycle and the maps.  Autosaves do not disturb it, as a     *)
(* pass takes no preparation.                                              *)

LifecycleInv ==
    /\ LifecycleMatchesMap
    /\ \A c \in Chunks : place[c] = "none" => stage["unload"][c] = "none"
    /\ epoch # "unloads" => unvisited = {}
    /\ \A c \in unvisited : place[c] = "unloading"

LEMMA LifecycleUntouched ==
  ASSUME LifecycleInv,
         UNCHANGED <<place, lifecycle, unvisited, epoch>>,
         \A c \in Chunks : stage'["unload"][c] = stage["unload"][c]
  PROVE  LifecycleInv'
  BY DEF LifecycleInv, LifecycleMatchesMap

LEMMA SaveKeepsLifecycle ==
  ASSUME TypeOK, LifecycleInv, NEW k \in Kinds, NEW c \in Chunks, Save(k, c)
  PROVE  LifecycleInv'
  <1>1. UNCHANGED <<place, unvisited, epoch>>
    BY DEF Save, TakeDirty, NothingToSave, Snapshot, PreparationFails, WriteChunk, WriteFails,
           epochVars, holderVars
  <1>2. CASE k = "pass"
    <2>1. lifecycle' = lifecycle
      BY <1>2 DEF Save, TakeDirty, NothingToSave, Snapshot, PreparationFails, WriteChunk,
                  WriteFails, EndPreparation, holderVars
    <2>2. \E s : stage' = [stage EXCEPT !["pass"][c] = s]
      BY <1>2 DEF Save, TakeDirty, NothingToSave, Snapshot, PreparationFails, WriteChunk,
                  WriteFails, EndSave
    <2>3. \A d \in Chunks : stage'["unload"][d] = stage["unload"][d]
      BY <2>2 DEF TypeOK, Kinds
    <2> QED
      BY <1>1, <2>1, <2>3, LifecycleUntouched
  <1>3. CASE k = "unload"
    <2>1. CASE /\ stage["unload"][c] \in {"reserved", "taken"}
               /\ lifecycle' = [lifecycle EXCEPT ![c] = "UNLOADING"]
               /\ \E s \in {"write", "none"} : stage' = [stage EXCEPT !["unload"][c] = s]
      BY <1>1, <2>1 DEF TypeOK, LifecycleInv, LifecycleMatchesMap, Kinds
    <2>2. CASE /\ stage["unload"][c] = "reserved"
               /\ lifecycle' = lifecycle
               /\ stage' = [stage EXCEPT !["unload"][c] = "taken"]
      BY <1>1, <2>2 DEF TypeOK, LifecycleInv, LifecycleMatchesMap, Kinds
    <2>3. CASE /\ stage["unload"][c] = "write"
               /\ lifecycle' = lifecycle
               /\ stage' = [stage EXCEPT !["unload"][c] = "none"]
      BY <1>1, <2>3 DEF TypeOK, LifecycleInv, LifecycleMatchesMap, Kinds
    <2> QED
      BY <1>3, <2>1, <2>2, <2>3
         DEF Save, TakeDirty, NothingToSave, Snapshot, PreparationFails, WriteChunk, WriteFails,
             EndSave, EndPreparation, holderVars
  <1> QED
    BY <1>2, <1>3 DEF Kinds

LEMMA CommitKeepsLifecycle ==
  ASSUME TypeOK, LifecycleInv, Commit
  PROVE  LifecycleInv'
  <1>1. unvisited = {} /\ unvisited' = {} /\ stage' = stage
    BY DEF LifecycleInv, Commit, saveVars
  <1>2. ASSUME NEW c \in Chunks
        PROVE  /\ place'[c] = "active" => lifecycle'[c] = "ACTIVE"
               /\ place'[c] = "unloading" => lifecycle'[c] # "ACTIVE"
               /\ place'[c] # "none" =>
                      (lifecycle'[c] = "PREPARING" <=> stage["unload"][c] \in {"reserved", "taken"})
               /\ place'[c] = "none" => stage["unload"][c] = "none"
    BY DEF TypeOK, LifecycleInv, LifecycleMatchesMap, Commit
  <1> QED
    BY <1>1, <1>2 DEF LifecycleInv, LifecycleMatchesMap

LEMMA StepKeepsLifecycle ==
  ASSUME TypeOK, LifecycleInv, [Next]_vars
  PROVE  LifecycleInv'
  <1>1. CASE UNCHANGED vars
    BY <1>1, LifecycleUntouched DEF vars, epochVars, holderVars, saveVars
  <1>2. ASSUME NEW c \in Chunks,
               TicketChange(c) \/ Edit(c) \/ MarkUnsaved(c) \/ RemoveLiveEntity(c)
                   \/ QueueLightChange(c) \/ DrainLight(c) \/ PropagateLight(c) \/ PutBackLight(c)
                   \/ FinishLoad(c) \/ AbortLoad(c)
        PROVE  LifecycleInv'
    BY <1>2, LifecycleUntouched
       DEF TicketChange, Edit, MarkUnsaved, RemoveLiveEntity, QueueLightChange, DrainLight,
           PropagateLight, PutBackLight, FinishLoad, AbortLoad, epochVars, holderVars, saveVars
  <1>3. ASSUME NEW c \in Chunks, FlushLight(c)
        PROVE  LifecycleInv'
    <2>1. PICK s \in {"drain", "prepare", "flush"} : stage' = [stage EXCEPT !["unload"][c] = s]
      BY <1>3 DEF FlushLight
    <2>2. /\ stage["unload"][c] \in {"flush", "drain"}
          /\ UNCHANGED <<place, lifecycle, unvisited, epoch>>
      BY <1>3 DEF FlushLight, epochVars, holderVars
    <2> QED
      BY <2>1, <2>2 DEF TypeOK, LifecycleInv, LifecycleMatchesMap, Kinds
  <1>4. ASSUME NEW c \in Chunks, BeginPreparation(c)
        PROVE  LifecycleInv'
    <2>1. stage["unload"][c] = "prepare" /\ UNCHANGED <<place, unvisited, epoch>>
      BY <1>4 DEF BeginPreparation, epochVars
    <2>2. CASE lifecycle[c] = "UNLOADING"
      <3>1. /\ lifecycle' = [lifecycle EXCEPT ![c] = "PREPARING"]
            /\ stage' = [stage EXCEPT !["unload"][c] = "reserved"]
        BY <1>4, <2>2 DEF BeginPreparation
      <3> QED
        BY <2>1, <2>2, <3>1 DEF TypeOK, LifecycleInv, LifecycleMatchesMap, Kinds
    <2>3. CASE lifecycle[c] # "UNLOADING"
      <3>1. lifecycle' = lifecycle /\ stage' = [stage EXCEPT !["unload"][c] = "none"]
        BY <1>4, <2>3 DEF BeginPreparation
      <3> QED
        BY <2>1, <2>3, <3>1 DEF TypeOK, LifecycleInv, LifecycleMatchesMap, Kinds
    <2> QED
      BY <2>2, <2>3
  <1>5. ASSUME NEW k \in Kinds, NEW c \in Chunks, Save(k, c)
        PROVE  LifecycleInv'
    BY <1>5, SaveKeepsLifecycle
  <1>6. CASE StartEpoch \/ ApplyTickets \/ FinishEpoch
    BY <1>6 DEF StartEpoch, ApplyTickets, FinishEpoch, LifecycleInv, LifecycleMatchesMap,
                holderVars, saveVars
  <1>7. ASSUME NEW c \in Chunks, KeepUnloading(c) \/ SpawnSave(c) \/ Finalize(c)
        PROVE  LifecycleInv'
    <2>1. CASE KeepUnloading(c)
      BY <2>1 DEF KeepUnloading, LifecycleInv, LifecycleMatchesMap, holderVars, saveVars
    <2>2. CASE SpawnSave(c)
      BY <2>2 DEF SpawnSave, Unreferenced, Referenced, TypeOK, LifecycleInv, LifecycleMatchesMap,
                  Kinds, holderVars
    <2>3. CASE Finalize(c)
      BY <2>3 DEF Finalize, Unreferenced, Referenced, TypeOK, LifecycleInv, LifecycleMatchesMap,
                  saveVars
    <2> QED
      BY <1>7, <2>1, <2>2, <2>3
  <1>8. CASE Commit
    BY <1>8, CommitKeepsLifecycle
  <1>9. CASE Pass \/ Cleanup \/ TasksJoined
    BY <1>9, LifecycleUntouched
       DEF Pass, RequestSave, PassFlushLight, PassCollect, PassEnds, Cleanup, TasksJoined,
           epochVars, holderVars, saveVars
  <1> QED
    BY <1>1, <1>2, <1>3, <1>4, <1>5, <1>6, <1>7, <1>8, <1>9 DEF Next, EpochTask

(* The assertions on save_lifecycle hold for any number of chunks and with *)
(* autosaves: a holder is ACTIVE exactly in the active map, and it is      *)
(* PREPARING exactly while its one save task is between its reservation    *)
(* and its snapshot.                                                       *)
THEOREM LifecycleHolds == Spec => []LifecycleMatchesMap
  <1>1. Init => LifecycleInv
    BY DEF Init, LifecycleInv, LifecycleMatchesMap, Kinds
  <1>2. LifecycleInv => LifecycleMatchesMap
    BY DEF LifecycleInv
  <1> QED
    BY <1>1, <1>2, StepKeepsLifecycle, PersistenceTyped, PTL DEF Spec

-----------------------------------------------------------------------------
(* Light.                                                                  *)

(* Only process_unloads lets a holder go, and it asks touches_chunk.       *)
LEMMA HoldersStay ==
  ASSUME TypeOK, [Next]_vars, NEW d \in Chunks, place[d] # "none", loaded[d],
         ~ (Finalize(d) /\ ~ LightTouches(d))
  PROVE  place'[d] # "none" /\ loaded'[d]
  <1>1. CASE UNCHANGED <<place, loaded>>
    BY <1>1
  <1>2. ASSUME NEW c \in Chunks, FinishLoad(c)
        PROVE  place'[d] # "none" /\ loaded'[d]
    BY <1>2 DEF FinishLoad, TypeOK
  <1>3. ASSUME NEW c \in Chunks, Finalize(c)
        PROVE  place'[d] # "none" /\ loaded'[d]
    BY <1>3 DEF Finalize, Unreferenced, TypeOK
  <1>4. CASE Commit
    BY <1>4 DEF Commit, TypeOK
  <1> QED
    BY <1>1, <1>2, <1>3, <1>4
       DEF Next, vars, TicketChange, Edit, MarkUnsaved, RemoveLiveEntity, QueueLightChange,
           DrainLight, PropagateLight, PutBackLight, AbortLoad, FlushLight, BeginPreparation, Save,
           TakeDirty, NothingToSave, Snapshot, PreparationFails, WriteChunk, WriteFails, StartEpoch,
           EpochTask, ApplyTickets, KeepUnloading, SpawnSave, FinishEpoch, Pass, RequestSave,
           PassFlushLight, PassCollect, PassEnds, Cleanup, TasksJoined, holderVars

(* A light update comes to a chunk only through queue_light_change.        *)
LEMMA LightComesFromTheQueue ==
  ASSUME TypeOK, [Next]_vars, NEW d \in Chunks, LightTouches(d)', ~ LightTouches(d)
  PROVE  QueueLightChange(d)
  <1>1. CASE UNCHANGED <<lightPending, lightFlying>>
    BY <1>1 DEF LightTouches
  <1>2. ASSUME NEW c \in Chunks, QueueLightChange(c)
        PROVE  QueueLightChange(d)
    BY <1>2 DEF QueueLightChange, LightTouches, TypeOK
  <1>3. ASSUME NEW c \in Chunks, DrainLight(c) \/ PropagateLight(c) \/ PutBackLight(c)
        PROVE  FALSE
    BY <1>3 DEF DrainLight, PropagateLight, PutBackLight, LightTouches, TypeOK
  <1> QED
    BY <1>1, <1>2, <1>3
       DEF Next, vars, TicketChange, Edit, MarkUnsaved, RemoveLiveEntity, FinishLoad,
           AbortLoad, FlushLight, BeginPreparation, Save, TakeDirty, NothingToSave, Snapshot,
           PreparationFails, WriteChunk, WriteFails, StartEpoch, EpochTask, ApplyTickets,
           KeepUnloading, SpawnSave, Finalize, FinishEpoch, Commit, Pass, RequestSave,
           PassFlushLight, PassCollect, PassEnds, Cleanup, TasksJoined, lightVars

(* A light update finds its chunk, however long it was queued, put back or *)
(* in flight, and whatever was unloaded, saved or revived meanwhile.       *)
THEOREM LightFindsItsChunk == Spec => []LightKeepsHolder
  <1>1. Init => LightKeepsHolder
    BY DEF Init, LightKeepsHolder, LightTouches
  <1>2. ASSUME TypeOK, LightKeepsHolder, [Next]_vars
        PROVE  LightKeepsHolder'
    <2> SUFFICES ASSUME NEW d \in Chunks, LightTouches(d)'
                 PROVE  place'[d] # "none" /\ loaded'[d]
      BY DEF LightKeepsHolder
    <2>1. CASE LightTouches(d)
      BY <1>2, <2>1, HoldersStay DEF LightKeepsHolder
    <2>2. CASE ~ LightTouches(d)
      BY <1>2, <2>2, LightComesFromTheQueue DEF QueueLightChange, holderVars
    <2> QED
      BY <2>1, <2>2
  <1> QED
    BY <1>1, <1>2, PersistenceTyped, PTL DEF Spec

-----------------------------------------------------------------------------
(* The shutdown.  From the moment the last pass has flushed the light      *)
(* nothing changes any more; the pass has every holder, and what it is     *)
(* through with is on disk or about to be.                                 *)

Quiet ==
    /\ stop # "running" => marking = {}
    /\ stop = "saving" /\ pass = "drain" => \A c \in Chunks : ~ lightPending[c]
    /\ (stop = "saving" /\ pass \in {"chunks", "unloads", "each"}) \/ stop = "halted" =>
           \A c \in Chunks : ~ lightPending[c] /\ lightFlying[c] = 0

Collected ==
    /\ stop = "saving" => pass # "idle"
    /\ pass = "unloads" => \A c \in Chunks : place[c] = "active" => c \in held
    /\ pass = "each" => \A c \in Chunks : place[c] # "none" => c \in held

SavedSoFar(c) ==
    \/ stage["pass"][c] = "taken"
    \/ stage["pass"][c] = "write" /\ snap["pass"][c] = latest[c]
    \/ stage["pass"][c] = "none" /\ disk[c] = latest[c]

Behind ==
    /\ \A c \in passTodo : stage["pass"][c] = "none"
    /\ pass = "each" /\ ~ passFailed => \A c \in Chunks \ passTodo : SavedSoFar(c)

ShutdownInv == Quiet /\ Collected /\ Behind /\ ShutdownSavesAll

LEMMA ShutdownBegins ==
  ASSUME IInv, IInv', ShutdownInv, [Next]_vars, stop \in {"running", "joining"}
  PROVE  ShutdownInv'
  <1>1. PhaseInv /\ PhaseInv' /\ pass = "idle" /\ (stop # "running" => marking = {})
    BY DEF IInv, PhaseInv, ShutdownInv, Quiet
  <1>2. CASE TasksJoined
    <2>1. stop' = "saving" /\ pass' = "flush" /\ marking' = {} /\ passTodo' = {}
      BY <1>1, <1>2 DEF TasksJoined, PhaseInv
    <2> QED
      BY <2>1 DEF ShutdownInv, Quiet, Collected, Behind, ShutdownSavesAll
  <1>3. CASE stop' \in {"running", "joining"} /\ (stop' # "running" => marking' = {})
    <2>1. pass' = "idle" /\ passTodo' = {}
      BY <1>1, <1>3 DEF PhaseInv
    <2> QED
      BY <1>3, <2>1 DEF ShutdownInv, Quiet, Collected, Behind, ShutdownSavesAll
  <1>4. CASE Cleanup
    BY <1>3, <1>4 DEF Cleanup
  <1>5. CASE stop' = stop /\ marking' \subseteq marking
    BY <1>1, <1>3, <1>5
  <1>6. ASSUME NEW c \in Chunks, Edit(c)
        PROVE  ShutdownInv'
    BY <1>3, <1>6 DEF Edit
  <1>7. CASE PassEnds
    BY <1>1, <1>7 DEF PassEnds
  <1> QED
    BY <1>2, <1>4, <1>5, <1>6, <1>7
       DEF Next, vars, TicketChange, MarkUnsaved, RemoveLiveEntity, QueueLightChange,
           DrainLight, PropagateLight, PutBackLight, FinishLoad, AbortLoad, FlushLight,
           BeginPreparation, Save, TakeDirty, NothingToSave, Snapshot, PreparationFails, WriteChunk,
           WriteFails, StartEpoch, EpochTask, ApplyTickets, KeepUnloading, SpawnSave, Finalize,
           FinishEpoch, Commit, Pass, RequestSave, PassFlushLight, PassCollect

(* What can still happen once the tasks are joined.                        *)
LEMMA ShutdownSteps ==
  ASSUME ~ AutoSave, IInv, ShutdownInv, [Next]_vars, stop \in {"saving", "halted"}
  PROVE  \/ UNCHANGED vars
         \/ \E c \in Chunks : DrainLight(c) \/ PropagateLight(c) \/ Save("pass", c)
         \/ PassFlushLight \/ PassCollect \/ PassEnds
  <1>1. /\ marking = {} /\ epoch \in {"idle", "ready"} /\ unvisited = {}
        /\ \A c \in Chunks : ~ loading[c] /\ stage["unload"][c] = "none"
    BY DEF IInv, PhaseInv, ShutdownInv, Quiet
  <1>2. \A c \in Chunks :
            ~ (TicketChange(c) \/ Edit(c) \/ MarkUnsaved(c) \/ RemoveLiveEntity(c)
               \/ QueueLightChange(c) \/ PutBackLight(c) \/ FinishLoad(c) \/ AbortLoad(c))
    BY <1>1 DEF TicketChange, Edit, MarkUnsaved, RemoveLiveEntity, QueueLightChange, PutBackLight,
                FinishLoad, AbortLoad
  <1>3. \A c \in Chunks : ~ (FlushLight(c) \/ BeginPreparation(c) \/ Save("unload", c))
    BY <1>1 DEF FlushLight, BeginPreparation, Save, TakeDirty, NothingToSave, Snapshot,
                PreparationFails, WriteChunk, WriteFails
  <1>4. ~ (StartEpoch \/ EpochTask \/ Commit)
    BY <1>1 DEF StartEpoch, EpochTask, ApplyTickets, KeepUnloading, SpawnSave, Finalize,
                Unreferenced, FinishEpoch, Commit
  <1>5. ~ (RequestSave \/ Cleanup \/ TasksJoined)
    BY DEF RequestSave, Cleanup, TasksJoined
  <1> QED
    BY <1>2, <1>3, <1>4, <1>5 DEF Next, Pass, Kinds

LEMMA SavingKeepsRest ==
  ASSUME IInv, ShutdownInv, NEW c \in Chunks, Save("pass", c)
  PROVE  /\ stop = "saving" /\ pass = "each" /\ stage["unload"][c] = "none" /\ marking = {}
         /\ UNCHANGED <<stop, pass, held, marking, place, lightPending, lightFlying, content,
                        latest, loaded>>
         /\ \A d \in Chunks : d # c =>
                UNCHANGED <<disk[d], stage["pass"][d], snap["pass"][d]>>
         /\ passTodo' = passTodo \/ (passTodo' = passTodo \ {c} /\ c \in passTodo)
  <1>1. TypeOK /\ PhaseInv
    BY DEF IInv
  <1>2. pass = "each" /\ stop = "saving" /\ stage["unload"][c] = "none" /\ marking = {}
    BY <1>1 DEF PhaseInv, ShutdownInv, Quiet, Save, TakeDirty, NothingToSave, Snapshot,
                PreparationFails, WriteChunk, WriteFails, PassReaches
  <1>3. UNCHANGED <<stop, pass, held, marking, place, lightPending, lightFlying, content, latest,
                    loaded>>
    BY DEF Save, TakeDirty, NothingToSave, Snapshot, PreparationFails, WriteChunk, WriteFails,
           holderVars, lightVars, passVars
  <1>4. (\E s : stage' = [stage EXCEPT !["pass"][c] = s])
           /\ (snap' = snap \/ \E v : snap' = [snap EXCEPT !["pass"][c] = v])
           /\ (disk' = disk \/ \E v : disk' = [disk EXCEPT ![c] = v])
    BY DEF Save, TakeDirty, NothingToSave, Snapshot, PreparationFails, WriteChunk, WriteFails,
           EndSave
  <1>5. \A d \in Chunks : d # c => UNCHANGED <<disk[d], stage["pass"][d], snap["pass"][d]>>
    BY <1>1, <1>4 DEF TypeOK, Kinds
  <1>6. passTodo' = passTodo \/ (passTodo' = passTodo \ {c} /\ c \in passTodo)
    BY DEF Save, TakeDirty, NothingToSave, Snapshot, PreparationFails, WriteChunk, WriteFails,
           PassReaches, passVars
  <1> QED
    BY <1>2, <1>3, <1>5, <1>6

LEMMA SaveIsBehind ==
  ASSUME IInv, ShutdownInv, NEW c \in Chunks, Save("pass", c)
  PROVE  \/ SavedSoFar(c)'
         \/ passFailed'
  <1>1. TypeOK /\ PhaseInv /\ ChunkInv(c)
    BY DEF IInv
  <1>2. pass = "each" /\ stop = "saving" /\ stage["unload"][c] = "none" /\ marking = {}
    BY SavingKeepsRest
  <1>3. CASE TakeDirty("pass", c)
    <2>1. CASE NeedsSave(c)
      BY <1>1, <1>3, <2>1 DEF TakeDirty, TypeOK, SavedSoFar, Kinds
    <2>2. CASE ~ NeedsSave(c)
      <3>1. ~ dirty[c] /\ pending[c] = {} /\ stage["pass"][c] = "none" /\ loaded[c]
        BY <1>3, <2>2 DEF TakeDirty, PassReaches, NeedsSave
      <3>2. disk[c] = latest[c]
        BY <1>1, <1>2, <3>1 DEF ChunkInv, Whereabouts, Remembered, Kinds
      <3> QED
        BY <1>1, <1>3, <2>2, <3>2 DEF TakeDirty, EndSave, TypeOK, SavedSoFar, Kinds
    <2> QED
      BY <2>1, <2>2
  <1>4. CASE NothingToSave("pass", c)
    BY <1>1, <1>4 DEF NothingToSave, EndSave, TypeOK, ChunkInv, Whereabouts, SavedSoFar, Kinds
  <1>5. CASE Snapshot("pass", c)
    <2>1. content[c] = latest[c]
      BY <1>1, <1>5 DEF Snapshot, ChunkInv, Whereabouts, Saves, Kinds
    <2> QED
      BY <1>1, <1>5, <2>1 DEF Snapshot, TypeOK, SavedSoFar, Kinds
  <1>6. CASE PreparationFails("pass", c)
    BY <1>2, <1>6 DEF PreparationFails
  <1>7. CASE WriteChunk("pass", c)
    <2>1. /\ stage["pass"][c] = "write" /\ stage'["pass"][c] = "none"
          /\ disk'[c] = snap["pass"][c] /\ UNCHANGED <<latest, passFailed>>
      BY <1>1, <1>7 DEF WriteChunk, EndSave, TypeOK, Kinds, passVars
    <2>2. passFailed \/ snap["pass"][c] = latest[c]
      BY <1>2, <2>1 DEF ShutdownInv, Behind, SavedSoFar
    <2> QED
      BY <2>1, <2>2 DEF SavedSoFar
  <1>8. CASE WriteFails("pass", c)
    BY <1>8 DEF WriteFails
  <1> QED
    BY <1>3, <1>4, <1>5, <1>6, <1>7, <1>8 DEF Save

LEMMA ShutdownGoesOn ==
  ASSUME ~ AutoSave, IInv, IInv', ShutdownInv, [Next]_vars, stop \in {"saving", "halted"}
  PROVE  ShutdownInv'
  <1>0. TypeOK /\ PhaseInv /\ PhaseInv' /\ Quiet /\ Collected /\ Behind
    BY DEF IInv, ShutdownInv
  <1>1. CASE UNCHANGED vars
    BY <1>0, <1>1 DEF ShutdownInv, Quiet, Collected, Behind, SavedSoFar, ShutdownSavesAll, vars,
                holderVars, lightVars, saveVars, passVars
  <1>2. ASSUME NEW c \in Chunks, DrainLight(c) \/ PropagateLight(c)
        PROVE  ShutdownInv'
    <2>1. stop = "saving" /\ pass \in {"flush", "drain"}
      BY <1>0, <1>2 DEF DrainLight, PropagateLight, TypeOK, Quiet, Collected
    <2>2. /\ UNCHANGED <<stop, pass, marking, passTodo, stage>>
          /\ \A d \in Chunks : lightPending'[d] => lightPending[d]
      BY <1>0, <1>2 DEF DrainLight, PropagateLight, TypeOK, saveVars, passVars
    <2> QED
      BY <1>0, <2>1, <2>2 DEF ShutdownInv, Quiet, Collected, Behind, ShutdownSavesAll
  <1>3. ASSUME NEW c \in Chunks, Save("pass", c)
        PROVE  ShutdownInv'
    <2>1. Quiet' /\ Collected' /\ ShutdownSavesAll'
      BY <1>0, <1>3, SavingKeepsRest DEF Quiet, Collected, ShutdownSavesAll
    <2>2. c \notin passTodo'
      BY <1>0, <1>3, SavingKeepsRest
         DEF Behind, Save, TakeDirty, NothingToSave, Snapshot, PreparationFails, WriteChunk,
             WriteFails
    <2>3. passFailed => passFailed'
      BY <1>3, SavingKeepsRest
         DEF Save, TakeDirty, NothingToSave, Snapshot, PreparationFails, WriteChunk, WriteFails,
             passVars
    <2>4. ASSUME NEW d \in Chunks \ passTodo', pass = "each", ~ passFailed'
          PROVE  SavedSoFar(d)'
      <3>1. CASE d = c
        BY <1>3, <2>4, <3>1, SaveIsBehind
      <3>2. CASE d # c
        BY <1>0, <1>3, <2>3, <2>4, <3>2, SavingKeepsRest DEF Behind, SavedSoFar
      <3> QED
        BY <3>1, <3>2
    <2>5. ASSUME NEW d \in passTodo'
          PROVE  stage'["pass"][d] = "none"
      <3>1. d \in Chunks /\ d # c /\ d \in passTodo
        BY <1>0, <1>3, <2>2, SavingKeepsRest DEF TypeOK
      <3> QED
        BY <1>0, <1>3, <3>1, SavingKeepsRest DEF Behind
    <2>6. pass = "each" /\ pass' = pass
      BY <1>3, SavingKeepsRest
    <2>7. Behind'
      BY <2>4, <2>5, <2>6, Zenon DEF Behind
    <2> QED
      BY <2>1, <2>7 DEF ShutdownInv
  <1>4. CASE PassFlushLight
    <2>1. /\ UNCHANGED <<stop, marking, lightPending, lightFlying, passTodo, stage>>
          /\ \/ pass = "flush" /\ pass' = "drain" /\ \A c \in Chunks : ~ lightPending[c]
             \/ pass = "drain" /\ pass' = "chunks" /\ \A c \in Chunks : lightFlying[c] = 0
             \/ pass = "drain" /\ pass' = "flush"
      BY <1>4 DEF PassFlushLight, lightVars, saveVars
    <2>2. stop = "saving"
      BY <1>0, <2>1 DEF PhaseInv
    <2> QED
      BY <1>0, <2>1, <2>2 DEF ShutdownInv, Quiet, Collected, Behind, ShutdownSavesAll
  <1>5. CASE PassCollect
    <2>1. stop = "saving" /\ \A c \in Chunks : stage["pass"][c] = "none"
      BY <1>0, <1>5 DEF PassCollect, PhaseInv
    <2>2. UNCHANGED <<stop, marking, lightPending, lightFlying, stage, place, disk, latest>>
      BY <1>5 DEF PassCollect, lightVars, saveVars, holderVars
    <2>3. Quiet' /\ ShutdownSavesAll'
      BY <1>0, <1>5, <2>1, <2>2 DEF PassCollect, Quiet, ShutdownSavesAll
    <2>4. Collected'
      BY <1>0, <1>5, <2>2 DEF PassCollect, Collected, TypeOK
    <2>5. ASSUME NEW c \in Chunks, c \notin passTodo', pass' = "each"
          PROVE  disk[c] = latest[c]
      <3>1. place[c] = "none"
        BY <1>0, <1>5, <2>5 DEF PassCollect, Collected, TypeOK
      <3> QED
        BY <3>1 DEF IInv, ChunkInv, Whereabouts, TypeOK
    <2>6. \A c \in passTodo' : stage'["pass"][c] = "none"
      BY <2>1, <2>2 DEF IInv, TypeOK
    <2>7. \A c \in Chunks \ passTodo' : pass' = "each" => SavedSoFar(c)'
      BY <2>1, <2>2, <2>5 DEF SavedSoFar
    <2>8. Behind'
      BY <2>6, <2>7, Zenon DEF Behind
    <2> QED
      BY <2>3, <2>4, <2>8 DEF ShutdownInv
  <1>6. CASE PassEnds
    <2>1. /\ pass = "each" /\ passTodo = {} /\ stop = "saving" /\ stop' = "halted" /\ pass' = "idle"
          /\ \A c \in Chunks : stage["pass"][c] = "none"
          /\ UNCHANGED <<marking, lightPending, lightFlying, passTodo, passFailed, disk, latest>>
      BY <1>0, <1>6 DEF PassEnds, PhaseInv, lightVars
    <2> QED
      BY <1>0, <2>1 DEF ShutdownInv, Quiet, Collected, Behind, SavedSoFar, ShutdownSavesAll
  <1> QED
    BY <1>1, <1>2, <1>3, <1>4, <1>5, <1>6, ShutdownSteps

(* Without autosaves, when World::cleanup has returned and its pass met no *)
(* error, every chunk's newest version is on disk, for any number of       *)
(* chunks, whatever was being edited, saved, unloaded or lit when the      *)
(* server was told to stop.                                                *)
THEOREM ShutdownIsComplete == ASSUME ~ AutoSave PROVE Spec => []ShutdownSavesAll
  <1>1. Init => ShutdownInv
    BY DEF Init, ShutdownInv, Quiet, Collected, Behind, ShutdownSavesAll
  <1>2. ASSUME IInv, IInv', ShutdownInv, [Next]_vars
        PROVE  ShutdownInv'
    BY <1>2, ShutdownBegins, ShutdownGoesOn DEF IInv, TypeOK
  <1>3. ShutdownInv => ShutdownSavesAll
    BY DEF ShutdownInv
  <1> QED
    BY InitIInv, <1>1, <1>2, <1>3, StepKeepsIInv, PTL DEF Spec
=============================================================================
