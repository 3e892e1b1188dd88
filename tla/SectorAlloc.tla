---------------------------- MODULE SectorAlloc ----------------------------
(***************************************************************************)
(* The sector allocator of a region file (chunk_saver/format.rs).  A       *)
(* region is a sequence of fixed-size sectors; the first ones hold the     *)
(* header, and every chunk occupies one contiguous run that its entry of   *)
(* the chunk table names.                                                  *)
(*                                                                         *)
(* RegionHeader::find_free_sectors walks the used runs in the order of     *)
(* their first sector, keeping a cursor; it returns the cursor at the      *)
(* first gap wide enough, and appends past everything when there is none.  *)
(* The walk is stated here as the relation between the used runs and its   *)
(* answer: the cursor in front of a run is the highest end among the runs  *)
(* before it, and the answer is the lowest cursor with a gap behind it.    *)
(* SectorScan.tla has the loop itself and checks that the two agree.       *)
(***************************************************************************)
EXTENDS Naturals

CONSTANT
    FirstDataSector     \* FIRST_DATA_SECTOR: the header sits below it

ASSUME FirstDataSectorAssumption == FirstDataSector \in Nat \ {0}

(* A chunk table entry.  Offset 0 is how the format spells "no chunk";     *)
(* the size is in sectors (the code keeps bytes and rounds up).            *)
NoEntry == [off |-> 0, size |-> 0]

Exists(e) == e.off # 0

End(e) == e.off + e.size

Disjoint(d, e) == End(d) <= e.off \/ End(e) <= d.off

(* Where the cursor stands once the runs in `passed` are behind it.        *)
IsCursor(s, passed) ==
    /\ s = FirstDataSector \/ \E e \in passed : s = End(e)
    /\ s >= FirstDataSector
    /\ \A e \in passed : End(e) <= s

Cursors(used) == {FirstDataSector} \cup {End(e) : e \in used}

RunsBefore(used, e) == {d \in used : d.off < e.off}

(* The cursor is at s in front of a run that leaves n sectors free.        *)
IsGap(s, used, n) ==
    \E e \in used : IsCursor(s, RunsBefore(used, e)) /\ e.off >= s + n

(* s is what find_free_sectors returns for a request of n > 0 sectors.     *)
IsFreeSlot(s, used, n, fileSectors) ==
    \/ /\ IsGap(s, used, n)
       /\ \A t \in Cursors(used) : IsGap(t, used, n) => s <= t
    \/ /\ \A t \in Cursors(used) : ~ IsGap(t, used, n)
       /\ \E t \in Cursors(used) :
              /\ IsCursor(t, used)
              /\ s = IF t >= fileSectors THEN t ELSE fileSectors

(* RegionManager::validate_chunk_entry: the run lies between the header    *)
(* and the end of the file and is not empty.                               *)
ValidEntry(e, fileSectors) ==
    e.off >= FirstDataSector /\ e.size > 0 /\ End(e) <= fileSectors
=============================================================================
