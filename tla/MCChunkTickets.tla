--------------------------- MODULE MCChunkTickets ---------------------------
(***************************************************************************)
(* A row of three chunks.  Level 1 ticks blocks, 2 is a full chunk, 3 its  *)
(* only dependency.  The player's ticket and the portal's are the same     *)
(* ticket, as they are in the server for some view distances.              *)
(***************************************************************************)
EXTENDS ChunkTickets

CONSTANTS r1, u1, portal, spawn

Row == 1 .. 3
RowDistance == [pq \in Row \X Row |-> IF pq[1] > pq[2] THEN pq[1] - pq[2] ELSE pq[2] - pq[1]]

Loading == [load |-> 2, sim |-> 4]
Simulating == [load |-> 1, sim |-> 1]
Watching == [load |-> 1, sim |-> 2]
SomeTickets == {Loading, Simulating, Watching}

AsksTwo == [r \in {r1} |-> {1, 2}]
SomeViews == {<<1, Simulating>>, <<1, Watching>>, <<3, Simulating>>}
TimedTickets == [k \in {portal, spawn} |-> IF k = portal THEN Simulating ELSE Watching]
Timeouts == [k \in {portal, spawn} |-> IF k = portal THEN 1 ELSE 0]
=============================================================================
