---------------------------- MODULE MCAlgorithms ----------------------------
(***************************************************************************)
(* Two pure algorithms, each against its reference, and the scheduled      *)
(* ticks, whose collection is a third.  A behaviour is about one of them;  *)
(* the others stay at a trivial state.  Scheduled ticks start either with  *)
(* two saved chunks whose unpacked orders tie, or with one new chunk that  *)
(* is saved, there with ticks of one priority only.                        *)
(***************************************************************************)
EXTENDS SectorScan, PyramidCheck, ScheduledTicks

VARIABLE subject

FirstBlock(c) == [chunk |-> c, kind |-> "block", name |-> 1]
SecondBlock == [chunk |-> "a", kind |-> "block", name |-> 2]
MCKeys == {FirstBlock("a"), FirstBlock("b"), SecondBlock,
           [chunk |-> "a", kind |-> "fluid", name |-> 1]}

OneNewChunk ==
    NewWorld /\ nextOrder = 2 /\ now = 1 /\ lifecycle = [a |-> "absent", b |-> "outside"]

TwoSavedChunks ==
    LET saved(id, key, p) == [id |-> id, key |-> key, delay |-> 0, priority |-> p]
    IN  \E p, q \in Priorities :
          /\ now = 0
          /\ SavedWorld([a |-> <<saved(0, FirstBlock("a"), 0), saved(1, SecondBlock, q)>>,
                         b |-> <<saved(2, FirstBlock("b"), p)>>])

OnePriority == \A q \in Queues : \A t \in ToSet(pending[q]) \cup live[q] : t.priority = 0

NoTicks == NewWorld /\ now = 0 /\ nextOrder = MaxScheduled /\ lifecycle = [c \in Chunks |-> "outside"]
NoScan == used = {} /\ request = 1 /\ fileSectors = FirstDataSector
NoCell == level = 0 /\ target = 0 /\ layer = 0 /\ dist = 0

Init ==
    \/ subject = "sectors" /\ ScanInit /\ NoCell /\ NoTicks
    \/ subject = "pyramid" /\ CellInit /\ NoScan /\ NoTicks
    \/ subject = "ticks" /\ TwoSavedChunks /\ NoScan /\ NoCell
    \/ subject = "saves" /\ OneNewChunk /\ NoScan /\ NoCell

Next ==
    \/ subject = "sectors" /\ Claim /\ UNCHANGED <<cell, tickVars, subject>>
    \/ subject = "pyramid" /\ (NextRing \/ NextLayer) /\ UNCHANGED <<scan, tickVars, subject>>
    \/ subject = "ticks" /\ TickNext /\ UNCHANGED <<scan, cell, subject>>
    \/ subject = "saves" /\ TickNext /\ OnePriority' /\ UNCHANGED <<scan, cell, subject>>

Spec == Init /\ [][Next]_<<scan, cell, tickVars, subject>>
=============================================================================
