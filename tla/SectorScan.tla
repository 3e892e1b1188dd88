----------------------------- MODULE SectorScan -----------------------------
(***************************************************************************)
(* RegionHeader::find_free_sectors as the loop the code runs, checked      *)
(* against the relation IsFreeSlot that RegionFiles uses and against what  *)
(* its caller needs: the run it hands out is nobody's and lies behind the  *)
(* header.  Every table over a small file is one initial state.            *)
(***************************************************************************)
EXTENDS SectorAlloc, Ordering

CONSTANTS
    LastSector,     \* bound: no run reaches past it
    MaxRequest      \* bound: sectors asked for

ASSUME ScanAssumption == LastSector \in Nat /\ MaxRequest \in Nat

VARIABLES used, request, fileSectors
scan == <<used, request, fileSectors>>

Runs == {e \in [off : FirstDataSector .. LastSector, size : 1 .. LastSector] :
             End(e) <= LastSector + 1}

(* The code sorts the used ranges by their start.                          *)
SortedRuns == InOrder(used, LAMBDA d, e : d.off < e.off)

(* Mutants of ScanStep: a gap of exactly the right size is passed over; a  *)
(* gap one sector short is taken.                                          *)
ScanStepStrict(e, acc) ==
    IF acc.found \/ e.off > acc.cursor + request
    THEN [acc EXCEPT !.found = TRUE]
    ELSE [acc EXCEPT !.cursor = IF End(e) > @ THEN End(e) ELSE @]

ScanStepShort(e, acc) ==
    IF acc.found \/ e.off + 1 >= acc.cursor + request
    THEN [acc EXCEPT !.found = TRUE]
    ELSE [acc EXCEPT !.cursor = IF End(e) > @ THEN End(e) ELSE @]

(* One iteration: stop at the first gap, else move the cursor past `e`.    *)
ScanStep(e, acc) ==
    IF acc.found \/ e.off >= acc.cursor + request
    THEN [acc EXCEPT !.found = TRUE]
    ELSE [acc EXCEPT !.cursor = IF End(e) > @ THEN End(e) ELSE @]

(* Cursor and outcome after each iteration.                                *)
Scan ==
    LET after[n \in 0 .. Len(SortedRuns)] ==
            IF n = 0 THEN [cursor |-> FirstDataSector, found |-> FALSE]
            ELSE ScanStep(SortedRuns[n], after[n - 1])
    IN  after

ScanResult ==
    LET end == Scan[Len(SortedRuns)]
    IN  IF end.found \/ end.cursor > fileSectors THEN end.cursor ELSE fileSectors

-----------------------------------------------------------------------------
(* A table the code accepts (validate_region_entries), of up to three      *)
(* chunks.                                                                 *)
ScanInit ==
    /\ fileSectors \in FirstDataSector .. (LastSector + 1)
    /\ used \in {{}} \cup {{d, e, f} : d, e, f \in {g \in Runs : ValidEntry(g, fileSectors)}}
    /\ \A d, e \in used : d = e \/ Disjoint(d, e)
    /\ request \in 1 .. MaxRequest

(* A save claims the run it was given, as set_pending_header_entry does.   *)
Claim ==
    LET run == [off |-> ScanResult, size |-> request] IN
    /\ End(run) <= LastSector + 1
    /\ used' = used \cup {run}
    /\ fileSectors' = IF End(run) > fileSectors THEN End(run) ELSE fileSectors
    /\ request' \in 1 .. MaxRequest

ScanSpec == ScanInit /\ [][Claim]_scan

-----------------------------------------------------------------------------
(* The loop of find_free_sectors returns exactly the slot the relation     *)
(* IsFreeSlot describes, for every table and request size: RegionFiles may *)
(* use the relation for the code.                                          *)
ScanAgreesWithRelation ==
    \A s \in FirstDataSector .. (LastSector + 1) :
        IsFreeSlot(s, used, request, fileSectors) <=> s = ScanResult

(* What save_chunk_data relies on when it writes before the table changes: *)
(* the run find_free_sectors returns meets no run of the table.            *)
ScanResultIsFree ==
    LET run == [off |-> ScanResult, size |-> request]
    IN  run.off >= FirstDataSector /\ \A e \in used : Disjoint(run, e)
=============================================================================
