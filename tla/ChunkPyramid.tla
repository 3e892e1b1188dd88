---------------------------- MODULE ChunkPyramid ----------------------------
(***************************************************************************)
(* Which statuses the chunks around a chunk must have reached before it    *)
(* may take its next generation step.  A ChunkStatus is its index, 0 for   *)
(* Empty.  Dependencies are a sequence: entry d + 1 is the status needed   *)
(* at distance d.  A pyramid is the sequence of its steps.                 *)
(***************************************************************************)
EXTENDS Integers, Sequences, SequencesExt

CONSTANT MaxRadius      \* MAX_RADIUS: dependencies reach no further

ASSUME MaxRadiusAssumption == MaxRadius \in Nat \ {0}

MaxOf(S) == CHOOSE x \in S : \A y \in S : y <= x
Larger(a, b) == IF a > b THEN a ELSE b
Smaller(a, b) == IF a < b THEN a ELSE b

(* from_requirements, one round: status `s` up to radius `r`.              *)
Require(deps, s, r) ==
    [j \in 1 .. Larger(Len(deps), r + 1) |->
        IF j > Len(deps) THEN s ELSE IF j <= r + 1 THEN Larger(deps[j], s) ELSE deps[j]]

(* from_requirements: the parent at distance 0, then the requirements, a   *)
(* sequence of pairs of a status and a radius.                             *)
FromRequirements(reqs, parent) ==
    FoldLeft(LAMBDA deps, q : Require(deps, q[1], q[2]),
             IF parent < 0 THEN <<>> ELSE <<parent>>, reqs)

(* build_radius_lookup and get_radius_of: the largest distance at which    *)
(* status `s` or more is needed.                                           *)
RadiusOf(deps, s) == MaxOf({0} \cup {j - 1 : j \in {i \in DOMAIN deps : deps[i] >= s}})

(* Mutant of Accumulate: the parent's needs are not moved outwards.        *)
AccumulateUnshifted(direct, parentAcc, parent) ==
    [j \in 1 .. Larger(Len(parentAcc), Len(direct)) |->
        Larger(IF j <= Len(direct) THEN direct[j] ELSE 0,
               IF j <= Len(parentAcc) THEN parentAcc[j] ELSE 0)]

(* accumulate: what the parent step needs, moved outwards by the distance  *)
(* at which the parent status is needed, together with the direct needs.   *)
Accumulate(direct, parentAcc, parent) ==
    LET rop == RadiusOf(direct, parent)
        len == Smaller(Larger(rop + Len(parentAcc), Len(direct)), MaxRadius)
        below(j) == parentAcc[Larger(j - 1 - rop, 0) + 1]
    IN  [j \in 1 .. len |->
            IF j > Len(direct) THEN below(j)
            ELSE IF j > rop + Len(parentAcc) THEN direct[j]
            ELSE Larger(direct[j], below(j))]

(* ConstPyramidBuilder: one step per status, in order.                     *)
Build(requirements) ==
    FoldLeft(LAMBDA steps, reqs :
                 LET parent == Len(steps) - 1
                     direct == FromRequirements(reqs, parent)
                 IN  Append(steps, [direct |-> direct,
                                    acc |-> IF parent < 0 THEN direct
                                            ELSE Accumulate(direct, steps[Len(steps)].acc, parent)]),
             <<>>, requirements)

FullIndex(pyramid) == Len(pyramid) - 1
Step(pyramid, t) == pyramid[t + 1]

(* get_accumulated_radius_of: how far around a chunk with target `t` the   *)
(* layer of status `s` reaches.                                            *)
LayerRadius(pyramid, t, s) == IF s = t THEN 0 ELSE RadiusOf(Step(pyramid, t).acc, s)

(* Mutant of GenerationStatus: the ring beyond is looked up.               *)
GenerationStatusBeyond(pyramid, k) ==
    LET acc == Step(pyramid, FullIndex(pyramid)).acc IN
    IF k <= 0 THEN FullIndex(pyramid) ELSE IF k + 1 < Len(acc) THEN acc[k + 2] ELSE -1

(* generation_status: the status allowed `k` levels below a full chunk's   *)
(* level; -1 when the level keeps no chunk.                                *)
GenerationStatus(pyramid, k) ==
    LET acc == Step(pyramid, FullIndex(pyramid)).acc IN
    IF k <= 0 THEN FullIndex(pyramid) ELSE IF k < Len(acc) THEN acc[k + 1] ELSE -1

(* MAX_LEVEL, in levels below a full chunk's.                              *)
MaxLevel(pyramid) == RadiusOf(Step(pyramid, FullIndex(pyramid)).acc, 0)

(* What the tasks rely on: a step needs lower statuses only; the layers of *)
(* a task narrow from one status to the next, and each reaches far enough  *)
(* for what the steps above it need around them.                           *)
WellFormed(pyramid) ==
    LET full == FullIndex(pyramid)
        needs(t) == Step(pyramid, t).direct
    IN  /\ full \in Nat /\ MaxLevel(pyramid) \in Nat
        /\ Step(pyramid, full).acc \in Seq(0 .. full)
        /\ \A t \in 0 .. full : needs(t) \in Seq(0 .. (t - 1))
        /\ \A t \in 0 .. full : \A s \in 0 .. t :
              /\ LayerRadius(pyramid, t, s) \in Nat
              /\ LayerRadius(pyramid, t, s) <= LayerRadius(pyramid, t, 0)
              /\ s > 0 => LayerRadius(pyramid, t, s) <= LayerRadius(pyramid, t, s - 1)
              /\ \A j \in DOMAIN needs(s) :
                    LayerRadius(pyramid, t, s) + j - 1 <= LayerRadius(pyramid, t, needs(s)[j])

(* GENERATION_PYRAMID: Empty, StructureStarts, StructureReferences,        *)
(* Biomes, Noise, Surface, Carvers, Features, InitializeLight, Light,      *)
(* Spawn, Full.                                                            *)
GenerationRequirements ==
    << <<>>, <<>>, << <<1, 8>> >>, << <<1, 8>> >>, << <<1, 8>>, <<3, 1>> >>,
       << <<1, 8>>, <<3, 1>> >>, << <<1, 8>> >>, << <<1, 8>>, <<6, 1>> >>, <<>>,
       << <<8, 1>> >>, << <<3, 1>> >>, <<>> >>
=============================================================================
