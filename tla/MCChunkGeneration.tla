------------------------- MODULE MCChunkGeneration -------------------------
(***************************************************************************)
(* Small instances of ChunkGeneration: three statuses, of which the last   *)
(* needs the second one at distance 1, and tickets on one chunk, at the    *)
(* level of a full chunk and at the one below.                             *)
(***************************************************************************)
EXTENDS ChunkGeneration

SmallRequirements == << <<>>, <<>>, << <<1, 1>> >> >>
UpAndDown == {{}, {<<1, 1>>}, {<<1, 0>>}}
=============================================================================
