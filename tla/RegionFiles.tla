---------------------------- MODULE RegionFiles ----------------------------
(***************************************************************************)
(* RegionManager (chunk_saver/region_manager.rs) and the way chunk holders *)
(* use it (ChunkHolder::apply_empty_step, ChunkMap::process_unloads).      *)
(*                                                                         *)
(* A region file has a chunk table in its header and chunk payloads in its *)
(* sectors.  An open region keeps the table in memory (`header`), counts   *)
(* the chunks loaded from it and remembers whether the table on disk       *)
(* (`durable`) is behind.  A save writes its payload to free sectors at    *)
(* once, but the table reaches the disk only when the region is closed or  *)
(* flushed.                                                                *)
(*                                                                         *)
(* Every operation holds the lock on the map of open regions from start to *)
(* end, so one operation is one action; load_chunk alone drops it to       *)
(* decode, and is two.  I/O may fail at every write: a failed payload      *)
(* write leaves some of its sectors torn, a failed table write leaves any  *)
(* mixture of old and new entries on disk.  An I/O error before anything   *)
(* is written changes nothing and is a step that does not happen.          *)
(* flush_all has no caller in the program and is left out.  The process    *)
(* may crash between any two steps, and losing power during a write is a   *)
(* failed write followed by a crash.                                       *)
(***************************************************************************)
EXTENDS SectorAlloc, FiniteSets

CONSTANTS
    Chunks,         \* chunk positions
    Regions,        \* region positions
    RegionOf,       \* RegionPos::from_chunk
    Holders,        \* chunk holders: two of them may succeed each other at a chunk
    ChunkOf,        \* the position a holder is for
    Sizes,          \* payload sizes in sectors, at most MAX_CHUNK_SIZE
    SizeWrap,       \* the table stores a size in a field that wraps here (2^24 bytes)
    LiveSave,       \* World::request_save runs while the world is being played
    Garbage,        \* sector content that decodes to no chunk
    LastSector,     \* bound: sectors of a file
    MaxVersion,     \* bound: saves of one chunk
    MaxCrashes      \* bound: crashes

ASSUME RegionAssumption ==
    /\ IsFiniteSet(Holders)
    /\ RegionOf \in [Chunks -> Regions]
    /\ ChunkOf \in [Holders -> Chunks]
    /\ SizeWrap \in Nat \ {0}
    /\ Sizes \subseteq 1 .. SizeWrap
    /\ LiveSave \in BOOLEAN
    /\ LastSector \in Nat
    /\ MaxVersion \in Nat
    /\ MaxCrashes \in Nat

(* What decodes to no chunk is neither a part of a payload nor a chunk.    *)
ASSUME GarbageAssumption ==
    /\ Garbage \notin [chunk : Chunks, version : Nat, part : Nat, of : Nat]
    /\ Garbage \notin Chunks \X Nat

VARIABLES
    open,           \* regions with a RegionHandle in the map
    header,         \* RegionHandle.header of the open regions
    count,          \* RegionHandle.loaded_chunk_count
    dirty,          \* regions whose RegionHandle.header_dirty is set
    fileSectors,    \* RegionHandle.file_sectors
    durable,        \* the table on disk
    sector,         \* the data sectors on disk
    fileLen,        \* length of the file on disk, in sectors
    phase,          \* what each holder is doing with the storage
    data,           \* what load_chunk read and has yet to decode
    expected,       \* the entry load_chunk read it from
    stopped,        \* World::cleanup has begun
    version,        \* ghost: saves prepared for each chunk so far
    written,        \* ghost: the version the newest table names (0: none)
    committed,      \* ghost: the version the table on disk names
    suspect,        \* ghost: regions whose table was behind at a crash
    crashes         \* crashes so far

handleVars == <<open, header, count, dirty, fileSectors>>
diskVars == <<durable, sector, fileLen>>
holderVars == <<phase, data, expected>>
ghostVars == <<version, written, committed, suspect>>
vars == <<handleVars, diskVars, holderVars, stopped, ghostVars, crashes>>

Entries == [off : Nat, size : Nat]

Contents == [chunk : Chunks, version : Nat, part : Nat, of : Nat] \cup {Garbage}

(* What the decoder makes of a payload: a chunk as of some save, or nothing. *)
Decoded == (Chunks \X (1 .. MaxVersion)) \cup {Garbage}

(* A payload is cut into sectors; each part carries what makes a decode    *)
(* succeed: whose payload, which version, which part of how many.          *)
Part(c, v, i, n) == [chunk |-> c, version |-> v, part |-> i, of |-> n]

ChunksIn(r) == {c \in Chunks : RegionOf[c] = r}

(* Mutant of UsedRuns: pending entries are not counted as used.            *)
UsedRunsOnDisk(hdr, r) == {durable[c] : c \in {d \in ChunksIn(r) : Exists(durable[d])}}

UsedRuns(hdr, r) == {hdr[c] : c \in {d \in ChunksIn(r) : Exists(hdr[d])}}

(* to_bytes keeps the low three bytes of the size.                         *)
Stored(e) == [off |-> e.off, size |-> e.size % SizeWrap]

(* The sectors of e hold version v of chunk c from its first to its last.  *)
Holds(e, r, c, v) ==
    \A i \in 0 .. (e.size - 1) : sector[r][e.off + i] = Part(c, v, i, e.size)

(* Mutant of TableValid: entries are checked one by one only.              *)
TableEntriesValid(r) ==
    \A c \in ChunksIn(r) : Exists(durable[c]) => ValidEntry(durable[c], fileLen[r])

(* validate_region_entries, on the table open_region reads.                *)
TableValid(r) ==
    /\ \A c \in ChunksIn(r) : Exists(durable[c]) => ValidEntry(durable[c], fileLen[r])
    /\ \A c, d \in ChunksIn(r) :
           c # d /\ Exists(durable[c]) /\ Exists(durable[d]) => Disjoint(durable[c], durable[d])

-----------------------------------------------------------------------------
TypeOK ==
    /\ open \subseteq Regions /\ dirty \subseteq open
    /\ header \in [Chunks -> Entries] /\ durable \in [Chunks -> Entries]
    /\ sector \in [Regions -> [FirstDataSector .. LastSector -> Contents]]
    /\ count \in [Regions -> Nat]
    /\ fileSectors \in [Regions -> Nat] /\ fileLen \in [Regions -> Nat]
    /\ phase \in [Holders -> {"idle", "acquired", "decoding", "loaded", "releasing"}]
    /\ data \in [Holders -> Decoded]
    /\ expected \in [Holders -> Entries]
    /\ stopped \in BOOLEAN
    /\ version \in [Chunks -> 0 .. MaxVersion]
    /\ written \in [Chunks -> 0 .. MaxVersion]
    /\ committed \in [Chunks -> 0 .. MaxVersion]
    /\ suspect \subseteq Regions
    /\ crashes \in 0 .. MaxCrashes

Init ==
    /\ open = {} /\ dirty = {} /\ suspect = {}
    /\ header = [c \in Chunks |-> NoEntry]
    /\ durable = [c \in Chunks |-> NoEntry]
    /\ count = [r \in Regions |-> 0]
    /\ fileSectors = [r \in Regions |-> FirstDataSector]
    /\ fileLen = [r \in Regions |-> FirstDataSector]
    /\ sector = [r \in Regions |-> [s \in FirstDataSector .. LastSector |-> Garbage]]
    /\ phase = [h \in Holders |-> "idle"]
    /\ data = [h \in Holders |-> Garbage]
    /\ expected = [h \in Holders |-> NoEntry]
    /\ stopped = FALSE
    /\ version = [c \in Chunks |-> 0]
    /\ written = [c \in Chunks |-> 0]
    /\ committed = [c \in Chunks |-> 0]
    /\ crashes = 0

-----------------------------------------------------------------------------
(* Mutant of OpenedHeader: the table is read again for an open region.     *)
RereadHeader(r) ==
    [c \in Chunks |-> IF c \in ChunksIn(r) THEN durable[c] ELSE header[c]]

(* The table and file length an operation on region r works with: the      *)
(* handle's, or what open_region reads.  A file that does not exist is     *)
(* created with an empty table, which is how `durable` starts.             *)
OpenedHeader(r) ==
    [c \in Chunks |-> IF c \in ChunksIn(r) /\ r \notin open THEN durable[c] ELSE header[c]]

OpenedSectors(r) == IF r \in open THEN fileSectors[r] ELSE fileLen[r]

CanOpen(r) == r \in open \/ TableValid(r)

(* Dropping a RegionHandle.                                                *)
Closed(hdr, rs) == [c \in Chunks |-> IF RegionOf[c] \in rs THEN NoEntry ELSE hdr[c]]

(* write_header put the entries of the chunks in `landed` on disk.         *)
WriteHeader(hdr, vers, landed) ==
    /\ durable' = [c \in Chunks |-> IF c \in landed THEN Stored(hdr[c]) ELSE durable[c]]
    /\ committed' = [c \in Chunks |-> IF c \in landed THEN vers[c] ELSE committed[c]]

(* Holders between acquire_chunk and the release_chunk that answers it.    *)
Using(r) == {h \in Holders : phase[h] # "idle" /\ RegionOf[ChunkOf[h]] = r}

Live(h) == phase[h] \in {"acquired", "decoding", "loaded"}

-----------------------------------------------------------------------------
(* acquire_chunk, called by the Empty step of a new holder; a position has *)
(* one live holder at a time, but its predecessor's release may be late.   *)
(* Without an entry the holder goes on to generate the chunk.              *)
AcquireChunk(h) ==
    LET c == ChunkOf[h]
        r == RegionOf[c]
    IN  /\ ~ stopped /\ phase[h] = "idle"
        /\ \A g \in Holders : ChunkOf[g] = c => ~ Live(g)
        /\ CanOpen(r)
        /\ open' = open \cup {r}
        /\ header' = OpenedHeader(r)
        /\ fileSectors' = [fileSectors EXCEPT ![r] = OpenedSectors(r)]
        /\ count' = [count EXCEPT ![r] = @ + 1]
        /\ phase' = [phase EXCEPT ![h] = IF Exists(header'[c]) THEN "acquired" ELSE "loaded"]
        /\ UNCHANGED <<dirty, diskVars, data, expected, stopped, ghostVars, crashes>>

(* load_chunk answers Ok(None) without a decode: the region is not open,   *)
(* or the table no longer has the entry.  The holder regenerates.          *)
LoadNothing(h) ==
    LET c == ChunkOf[h]
    IN  /\ phase[h] = "acquired"
        /\ RegionOf[c] \notin open \/ ~ Exists(header[c])
        /\ phase' = [phase EXCEPT ![h] = "loaded"]
        /\ UNCHANGED <<handleVars, diskVars, data, expected, stopped, ghostVars, crashes>>

(* load_chunk reads the payload and gives up the lock to decode it.        *)
LoadRead(h) ==
    LET c == ChunkOf[h]
        r == RegionOf[c]
        e == header[c]
        found == {x \in Chunks \X (1 .. MaxVersion) : Holds(e, r, x[1], x[2])}
    IN  /\ phase[h] = "acquired"
        /\ r \in open /\ Exists(e) /\ ValidEntry(e, fileSectors[r])
        /\ phase' = [phase EXCEPT ![h] = "decoding"]
        /\ expected' = [expected EXCEPT ![h] = e]
        /\ data' = [data EXCEPT ![h] = IF found = {} THEN Garbage ELSE CHOOSE x \in found : TRUE]
        /\ UNCHANGED <<handleVars, diskVars, stopped, ghostVars, crashes>>

(* Mutant of LoadFails: the error path forgets the reference.              *)
LoadFailsUnreleased(h) ==
    LET c == ChunkOf[h]
    IN  /\ \/ phase[h] = "acquired" /\ RegionOf[c] \in open /\ Exists(header[c])
           \/ phase[h] = "decoding"
        /\ phase' = [phase EXCEPT ![h] = "idle"]
        /\ data' = [data EXCEPT ![h] = Garbage]
        /\ expected' = [expected EXCEPT ![h] = NoEntry]
        /\ UNCHANGED <<handleVars, diskVars, stopped, ghostVars, crashes>>

(* load_chunk fails (an invalid entry, a read error, a lost decode task):  *)
(* generation is aborted and the reference given back.                     *)
LoadFails(h) ==
    LET c == ChunkOf[h]
    IN  /\ \/ phase[h] = "acquired" /\ RegionOf[c] \in open /\ Exists(header[c])
           \/ phase[h] = "decoding"
        /\ phase' = [phase EXCEPT ![h] = "releasing"]
        /\ data' = [data EXCEPT ![h] = Garbage]
        /\ expected' = [expected EXCEPT ![h] = NoEntry]
        /\ UNCHANGED <<handleVars, diskVars, stopped, ghostVars, crashes>>

LoadDecoded(h) ==
    /\ phase[h] = "decoding" /\ data[h] # Garbage
    /\ phase' = [phase EXCEPT ![h] = "loaded"]
    /\ data' = [data EXCEPT ![h] = Garbage]
    /\ expected' = [expected EXCEPT ![h] = NoEntry]
    /\ UNCHANGED <<handleVars, diskVars, stopped, ghostVars, crashes>>

(* The payload does not decode: clear_corrupt_chunk_if_unchanged copies it *)
(* aside and clears the slot, and the holder regenerates.  Its failures    *)
(* before the slot is cleared are LoadFails; if the table write fails the  *)
(* cleared slot stays pending and the load is an error.                    *)
LoadCorrupt(h) ==
    LET c == ChunkOf[h]
        r == RegionOf[c]
        hdr == [header EXCEPT ![c] = NoEntry]
        vers == [written EXCEPT ![c] = 0]
    IN  /\ phase[h] = "decoding" /\ data[h] = Garbage
        /\ r \in open /\ header[c] = expected[h]
        /\ header' = hdr /\ written' = vers
        /\ \/ /\ WriteHeader(hdr, vers, ChunksIn(r))
              /\ dirty' = dirty \ {r}
              /\ phase' = [phase EXCEPT ![h] = "loaded"]
           \/ /\ \E landed \in SUBSET ChunksIn(r) : WriteHeader(hdr, vers, landed)
              /\ dirty' = dirty \cup {r}
              /\ phase' = [phase EXCEPT ![h] = "releasing"]
        /\ expected' = [expected EXCEPT ![h] = NoEntry]
        /\ UNCHANGED <<open, count, fileSectors, sector, fileLen, data, stopped, version,
                       suspect, crashes>>

-----------------------------------------------------------------------------
(* Mutant of Placed: the chunk's old sectors count as free.                *)
PlacedOverOldCopy(h, n, off) ==
    LET r == RegionOf[ChunkOf[h]]
        hdr == [OpenedHeader(r) EXCEPT ![ChunkOf[h]] = NoEntry]
    IN  /\ ~ stopped /\ phase[h] = "loaded" /\ CanOpen(r)
        /\ version[ChunkOf[h]] < MaxVersion
        /\ off + n - 1 <= LastSector
        /\ IsFreeSlot(off, UsedRuns(hdr, r), n, OpenedSectors(r))

(* save_chunk_data, once its payload of n sectors is encoded: `off` is     *)
(* where find_free_sectors puts it, in the table of the handle only.       *)
Placed(h, n, off) ==
    LET r == RegionOf[ChunkOf[h]] IN
    /\ ~ stopped /\ phase[h] = "loaded" /\ CanOpen(r)
    /\ version[ChunkOf[h]] < MaxVersion
    /\ off + n - 1 <= LastSector
    /\ IsFreeSlot(off, UsedRuns(OpenedHeader(r), r), n, OpenedSectors(r))

(* Table and versions with the new entry pending.                          *)
PendingHeader(h, n, off) ==
    [OpenedHeader(RegionOf[ChunkOf[h]]) EXCEPT ![ChunkOf[h]] = [off |-> off, size |-> n]]

PendingVersions(h) == [written EXCEPT ![ChunkOf[h]] = version[ChunkOf[h]] + 1]

(* Mutant of AtLeast: the last sector of a payload is not padded out.      *)
AtLeastUnpadded(len, end) == IF end - 1 > len THEN end - 1 ELSE len

(* The length of a file after a write that ended in front of sector `end`. *)
AtLeast(len, end) == IF end > len THEN end ELSE len

(* write_chunk_data: the whole payload is on disk and synced.              *)
WriteChunkData(h, n, off) ==
    LET c == ChunkOf[h]
        r == RegionOf[c]
    IN  /\ sector' = [sector EXCEPT ![r] = [s \in DOMAIN @ |->
               IF s \in off .. (off + n - 1) THEN Part(c, version[c] + 1, s - off, n) ELSE @[s]]]
        /\ fileLen' = [fileLen EXCEPT ![r] = AtLeast(@, off + n)]
        /\ version' = [version EXCEPT ![c] = @ + 1]
        /\ written' = PendingVersions(h)
        /\ UNCHANGED <<holderVars, count, stopped, suspect, crashes>>

(* The region is open: the new table stays in memory.                      *)
SaveIntoOpenRegion(h, n, off) ==
    LET r == RegionOf[ChunkOf[h]] IN
    /\ r \in open /\ Placed(h, n, off)
    /\ WriteChunkData(h, n, off)
    /\ header' = PendingHeader(h, n, off)
    /\ dirty' = dirty \cup {r}
    /\ fileSectors' = [fileSectors EXCEPT ![r] = AtLeast(@, off + n)]
    /\ UNCHANGED <<open, durable, committed>>

(* The save opened the region itself: the table is written and the handle  *)
(* dropped; if that write fails the handle stays, dirty.                   *)
SaveIntoClosedRegion(h, n, off) ==
    LET r == RegionOf[ChunkOf[h]] IN
    /\ r \notin open /\ Placed(h, n, off)
    /\ WriteChunkData(h, n, off)
    /\ \/ /\ WriteHeader(PendingHeader(h, n, off), PendingVersions(h), ChunksIn(r))
          /\ UNCHANGED <<open, header, dirty, fileSectors>>
       \/ /\ \E landed \in SUBSET ChunksIn(r) :
                 WriteHeader(PendingHeader(h, n, off), PendingVersions(h), landed)
          /\ open' = open \cup {r} /\ dirty' = dirty \cup {r}
          /\ header' = PendingHeader(h, n, off)
          /\ fileSectors' = [fileSectors EXCEPT ![r] = AtLeast(fileLen[r], off + n)]

(* The payload write fails after k sectors: the table is as before, and a  *)
(* handle opened for this save is given back.  A flush or sync that fails  *)
(* does so after file_sectors has been raised.                             *)
SaveFails(h, n, off) ==
    LET r == RegionOf[ChunkOf[h]] IN
    /\ Placed(h, n, off)
    /\ \E k \in 1 .. n :
           /\ sector' = [sector EXCEPT ![r] = [s \in DOMAIN @ |->
                  IF s \in off .. (off + k - 1) THEN Garbage ELSE @[s]]]
           /\ fileLen' = [fileLen EXCEPT ![r] = AtLeast(@, off + k)]
    /\ \/ UNCHANGED fileSectors
       \/ /\ r \in open
          /\ fileSectors' = [fileSectors EXCEPT ![r] = AtLeast(@, off + n)]
    /\ UNCHANGED <<open, header, count, dirty, durable, holderVars, stopped, ghostVars, crashes>>

-----------------------------------------------------------------------------
(* The holder is done with its chunk: finalised by process_unloads, or its *)
(* target became disallowed during the Empty step.  The release is a task. *)
Retire(h) ==
    /\ phase[h] \in {"acquired", "loaded"}
    /\ phase' = [phase EXCEPT ![h] = "releasing"]
    /\ UNCHANGED <<handleVars, diskVars, data, expected, stopped, ghostVars, crashes>>

(* release_chunk.  The last reference closes the region and commits its    *)
(* table; a table that cannot be written keeps its handle.                 *)
ReleaseChunk(h) ==
    LET r == RegionOf[ChunkOf[h]]
        left == IF count[r] = 0 THEN 0 ELSE count[r] - 1
    IN  /\ phase[h] = "releasing"
        /\ phase' = [phase EXCEPT ![h] = "idle"]
        /\ \/ /\ r \notin open
              /\ UNCHANGED <<handleVars, durable, committed>>
           \/ /\ r \in open /\ left > 0
              /\ count' = [count EXCEPT ![r] = left]
              /\ UNCHANGED <<open, header, dirty, fileSectors, durable, committed>>
           \/ /\ r \in open /\ left = 0
              /\ IF r \in dirty THEN WriteHeader(header, written, ChunksIn(r))
                                ELSE UNCHANGED <<durable, committed>>
              /\ open' = open \ {r} /\ dirty' = dirty \ {r}
              /\ header' = Closed(header, {r})
              /\ count' = [count EXCEPT ![r] = 0]
              /\ fileSectors' = [fileSectors EXCEPT ![r] = FirstDataSector]
           \/ /\ r \in dirty /\ left = 0
              /\ \E landed \in SUBSET ChunksIn(r) : WriteHeader(header, written, landed)
              /\ count' = [count EXCEPT ![r] = 0]
              /\ UNCHANGED <<open, header, dirty, fileSectors>>
        /\ UNCHANGED <<sector, fileLen, data, expected, stopped, version, written, suspect,
                       crashes>>

(* Mutant of CloseAll: header_dirty outlives the handle.                   *)
CloseAllKeepsDirty ==
    /\ LiveSave \/ stopped
    /\ WriteHeader(header, written, {c \in Chunks : RegionOf[c] \in dirty})
    /\ open' = {} /\ header' = Closed(header, Regions)
    /\ count' = [r \in Regions |-> 0]
    /\ fileSectors' = [r \in Regions |-> FirstDataSector]
    /\ UNCHANGED <<dirty, sector, fileLen, holderVars, stopped, version, written, suspect,
                   crashes>>

(* close_all, at the end of save_all_chunks: every table is written and    *)
(* every handle dropped, with its count, except those whose write fails.   *)
CloseAll ==
    /\ LiveSave \/ stopped
    /\ \E failed \in SUBSET dirty :
           /\ \E landed \in SUBSET {c \in Chunks : RegionOf[c] \in failed} :
                  WriteHeader(header, written,
                              {c \in Chunks : RegionOf[c] \in dirty \ failed} \cup landed)
           /\ open' = failed /\ dirty' = failed
           /\ header' = Closed(header, Regions \ failed)
           /\ count' = [r \in Regions |-> IF r \in failed THEN count[r] ELSE 0]
           /\ fileSectors' = [r \in Regions |->
                  IF r \in failed THEN fileSectors[r] ELSE FirstDataSector]
    /\ UNCHANGED <<sector, fileLen, holderVars, stopped, version, written, suspect, crashes>>

(* Mutant of Cleanup: the tasks are not joined.                            *)
CleanupAtOnce ==
    /\ ~ stopped
    /\ stopped' = TRUE
    /\ UNCHANGED <<handleVars, diskVars, holderVars, ghostVars, crashes>>

(* World::cleanup has stopped generation, joined the tasks that load,      *)
(* generate and release, and saved every chunk; what follows is the        *)
(* close_all of that last save_all_chunks.                                 *)
Cleanup ==
    /\ ~ stopped
    /\ \A h \in Holders : phase[h] \in {"idle", "loaded"}
    /\ stopped' = TRUE
    /\ UNCHANGED <<handleVars, diskVars, holderVars, ghostVars, crashes>>

(* The process dies and is started again: what is left is on disk.         *)
Crash ==
    /\ crashes < MaxCrashes
    /\ crashes' = crashes + 1
    /\ open' = {} /\ dirty' = {}
    /\ header' = [c \in Chunks |-> NoEntry]
    /\ count' = [r \in Regions |-> 0]
    /\ fileSectors' = [r \in Regions |-> FirstDataSector]
    /\ phase' = [h \in Holders |-> "idle"]
    /\ data' = [h \in Holders |-> Garbage]
    /\ expected' = [h \in Holders |-> NoEntry]
    /\ stopped' = FALSE
    /\ suspect' = suspect \cup dirty
    /\ written' = committed
    /\ UNCHANGED <<diskVars, version, committed>>

-----------------------------------------------------------------------------
Save(h) ==
    \E n \in Sizes : \E off \in FirstDataSector .. LastSector :
        \/ SaveIntoOpenRegion(h, n, off)
        \/ SaveIntoClosedRegion(h, n, off)
        \/ SaveFails(h, n, off)

Next ==
    \/ \E h \in Holders :
           \/ AcquireChunk(h)
           \/ LoadNothing(h)
           \/ LoadRead(h)
           \/ LoadFails(h)
           \/ LoadDecoded(h)
           \/ LoadCorrupt(h)
           \/ Save(h)
           \/ Retire(h)
           \/ ReleaseChunk(h)
    \/ CloseAll
    \/ Cleanup
    \/ Crash

Spec == Init /\ [][Next]_vars

-----------------------------------------------------------------------------
(* What a reader of chunk c finds: the handle's entry, or the disk's.      *)
View(c) == IF RegionOf[c] \in open THEN header[c] ELSE durable[c]

(* No two chunks of an open region share a sector, and none lies in the    *)
(* header or past the end of the file: save_chunk_data allocates from the  *)
(* table in memory and open_region accepts only such tables.               *)
TablesNeverOverlap ==
    \A r \in open : \A c, d \in ChunksIn(r) :
        Exists(header[c]) =>
            /\ ValidEntry(header[c], fileSectors[r])
            /\ c # d /\ Exists(header[d]) => Disjoint(header[c], header[d])

(* A chunk reads back as it was last saved, whatever writes failed and     *)
(* whatever was closed in between, and also after a crash that found the   *)
(* table of its region on disk up to date.                                 *)
ReadsBackLastSave ==
    \A c \in Chunks : RegionOf[c] \notin suspect =>
        IF written[c] = 0 THEN ~ Exists(View(c))
        ELSE Exists(View(c)) /\ Holds(View(c), RegionOf[c], c, written[c])

(* What load_chunk hands to the decoder is the chunk's last save, although *)
(* it gave up the lock: no clean chunk is ever taken for a corrupt one or  *)
(* for another chunk.                                                      *)
LoadsLastSave ==
    \A h \in Holders :
        phase[h] = "decoding" /\ RegionOf[ChunkOf[h]] \notin suspect =>
            data[h] = <<ChunkOf[h], written[ChunkOf[h]]>>

(* open_region accepts every file the manager wrote, unless a crash found  *)
(* its table behind.                                                       *)
RegionsReopen ==
    \A r \in Regions : r \notin open /\ r \notin suspect => TableValid(r)

(* While the world is played, loaded_chunk_count is the number of holders  *)
(* that have yet to release, and none of them is left without its region.  *)
ReferencesCounted ==
    ~ stopped => \A r \in Regions :
        count[r] = Cardinality(Using(r)) /\ (Using(r) # {} => r \in open)

(* A holder that was told its chunk is on disk comes up with the saved     *)
(* chunk, not with regenerated terrain, whenever an intact copy is there.  *)
NeverRegeneratesSaved ==
    [][\A h \in Holders :
           /\ phase[h] \in {"acquired", "decoding"} /\ phase'[h] = "loaded"
           /\ Exists(View(ChunkOf[h]))
           /\ \E v \in 1 .. MaxVersion :
                  Holds(View(ChunkOf[h]), RegionOf[ChunkOf[h]], ChunkOf[h], v)
           => phase[h] = "decoding" /\ data[h] # Garbage]_vars

(* save_chunk_data's claim that the header update is the commit point: "until it *)
(* lands, the old copy is intact and a reload finds it".  What the table   *)
(* on disk names is still there, complete, at every moment.                *)
CommitPoint ==
    \A c \in Chunks : committed[c] # 0 => Holds(durable[c], RegionOf[c], c, committed[c])
=============================================================================
