---------------------------- MODULE PyramidCheck ----------------------------
(***************************************************************************)
(* The arithmetic of ChunkPyramid on the pyramid the server is built with. *)
(* A state is one cell a generation task visits: a chunk `level` levels    *)
(* below Full has the target that level allows, and the task applies       *)
(* `layer` to a chunk at distance `dist`.  Layers go up from Empty.        *)
(***************************************************************************)
EXTENDS ChunkPyramid

VARIABLES level, target, layer, dist
cell == <<level, target, layer, dist>>

Pyramid == Build(GenerationRequirements)

CellInit ==
    /\ level \in 0 .. MaxLevel(Pyramid)
    /\ target \in 0 .. GenerationStatus(Pyramid, level)
    /\ layer = 0 /\ dist = 0

(* schedule_layer: the next ring of the square.                            *)
NextRing ==
    /\ dist < LayerRadius(Pyramid, target, layer)
    /\ dist' = dist + 1
    /\ UNCHANGED <<level, target, layer>>

(* schedule_next_layer.                                                    *)
NextLayer ==
    /\ dist = LayerRadius(Pyramid, target, layer) /\ layer < target
    /\ layer' = layer + 1 /\ dist' = 0
    /\ UNCHANGED <<level, target>>

-----------------------------------------------------------------------------
(* Reference: to give a chunk status `t`, each direct dependency has to be *)
(* given its status first, with all that takes around it.                  *)
NeededRadius ==
    LET needed[t \in 0 .. FullIndex(Pyramid)] ==
            LET direct == Step(Pyramid, t).direct IN
            [s \in 0 .. t |->
                IF s = t THEN 0
                ELSE MaxOf({0} \cup {j - 1 + needed[direct[j]][s] :
                                        j \in {i \in DOMAIN direct : direct[i] >= s}})]
    IN  needed

(* The layers a generation task runs are exactly as wide as the steps on   *)
(* top of them need: the accumulated radius of accumulate agrees with the  *)
(* closure of the direct requirements, for every target and layer.         *)
AccumulatedIsClosure == LayerRadius(Pyramid, target, layer) = NeededRadius[target][layer]

(* What ChunkGeneration assumes of any pyramid holds of this one.          *)
ServerPyramidIsWellFormed == WellFormed(Pyramid)

(* No step runs against a neighbour that an earlier layer of the same task *)
(* has not brought to the status the step requires there.                  *)
LayersCoverDependencies ==
    LET direct == Step(Pyramid, layer).direct IN
    /\ ServerPyramidIsWellFormed
    /\ \A j \in DOMAIN direct : dist + j - 1 <= LayerRadius(Pyramid, target, direct[j])

(* The ticket that allows a chunk its target also allows every chunk of    *)
(* its square the statuses the task asks of it: apply_step does not find   *)
(* a status disallowed merely because of the distance, and the square      *)
(* try_new collects (worst_case_radius) holds every cell.                  *)
TicketPermitsTask ==
    /\ GenerationStatus(Pyramid, level + dist) >= layer
    /\ dist <= LayerRadius(Pyramid, target, 0)
    /\ level + dist <= MaxLevel(Pyramid)
=============================================================================
