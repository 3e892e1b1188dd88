------------------------- MODULE RegionFilesProofs -------------------------
(***************************************************************************)
(* What RegionFiles guarantees for every number of chunks, regions and     *)
(* holders, every file size and every pattern of failures.                 *)
(***************************************************************************)
EXTENDS RegionFiles, FiniteSetTheorems, TLAPS

(* The payload sizes the three-byte field of the table can represent.      *)
SizesFit == \A n \in Sizes : n < SizeWrap

(* Every run lies in the file, and its size survives to_bytes.             *)
Fits(e) ==
    /\ e.size < SizeWrap /\ End(e) <= LastSector + 1
    /\ Exists(e) => e.off >= FirstDataSector

EntriesFit == \A c \in Chunks : Fits(header[c]) /\ Fits(durable[c])

(* The disk is behind a table in memory only if the handle says so.        *)
CleanIsDurable ==
    \A c \in Chunks :
        /\ RegionOf[c] \in open \ dirty => durable[c] = header[c] /\ committed[c] = written[c]
        /\ RegionOf[c] \notin open => committed[c] = written[c]

IInv ==
    /\ TypeOK
    /\ TablesNeverOverlap
    /\ EntriesFit
    /\ CleanIsDurable
    /\ ReadsBackLastSave

-----------------------------------------------------------------------------
(* find_free_sectors returns a run that meets no run of the table.         *)
LEMMA FreeSlotIsFree ==
    ASSUME NEW used \in SUBSET Entries, NEW n \in Nat, NEW fileLength \in Nat, NEW s,
           IsFreeSlot(s, used, n, fileLength)
    PROVE  /\ s \in Nat /\ s >= FirstDataSector
           /\ \A e \in used : s + n <= e.off \/ End(e) <= s
<1> USE FirstDataSectorAssumption
<1>1. CASE IsGap(s, used, n)
  <2>1. PICK e \in used : IsCursor(s, RunsBefore(used, e)) /\ e.off >= s + n
    BY <1>1 DEF IsGap
  <2>2. s \in Nat /\ s >= FirstDataSector
    BY <2>1 DEF IsCursor, RunsBefore, End, Entries
  <2>3. ASSUME NEW d \in used PROVE s + n <= d.off \/ End(d) <= s
    BY <2>1, <2>2 DEF IsCursor, RunsBefore, End, Entries
  <2> QED BY <2>2, <2>3
<1>2. CASE ~ IsGap(s, used, n)
  <2>1. PICK t \in Cursors(used) :
            /\ IsCursor(t, used)
            /\ s = IF t >= fileLength THEN t ELSE fileLength
    BY <1>2 DEF IsFreeSlot
  <2>2. t \in Nat /\ t >= FirstDataSector
    BY <2>1 DEF IsCursor, End, Entries
  <2>3. \A e \in used : End(e) <= t /\ End(e) \in Nat
    BY <2>1 DEF IsCursor, End, Entries
  <2> QED BY <2>1, <2>2, <2>3
<1> QED BY <1>1, <1>2

(* A size that fits its field is stored unchanged.                         *)
LEMMA StoredFits ==
    ASSUME NEW e \in Entries, e.size < SizeWrap
    PROVE  Stored(e) = e
<1>1. SizeWrap \in Nat \ {0} /\ e.size \in Nat
  BY RegionAssumption DEF Entries
<1>2. e.size % SizeWrap = e.size
  BY <1>1
<1> QED BY <1>2 DEF Stored, Entries

(* The tables a step leaves behind are tables.                             *)
LEMMA TablesTyped ==
    ASSUME TypeOK
    PROVE  /\ \A r \in Regions : OpenedHeader(r) \in [Chunks -> Entries]
           /\ \A r \in Regions : OpenedSectors(r) \in Nat
           /\ \A hdr \in [Chunks -> Entries] : \A c \in Chunks : Stored(hdr[c]) \in Entries
           /\ \A hdr \in [Chunks -> Entries], rs \in SUBSET Regions :
                  Closed(hdr, rs) \in [Chunks -> Entries]
           /\ NoEntry \in Entries
<1> USE RegionAssumption
<1>1. NoEntry \in Entries
  BY DEF NoEntry, Entries
<1>2. \A r \in Regions : OpenedHeader(r) \in [Chunks -> Entries]
  BY DEF TypeOK, OpenedHeader
<1>3. \A r \in Regions : OpenedSectors(r) \in Nat
  BY DEF TypeOK, OpenedSectors
<1>4. ASSUME NEW hdr \in [Chunks -> Entries], NEW c \in Chunks
      PROVE  Stored(hdr[c]) \in Entries
  <2>1. hdr[c].size % SizeWrap \in Nat
    BY DEF Entries
  <2> QED BY <2>1 DEF Stored, Entries
<1>5. \A hdr \in [Chunks -> Entries], rs \in SUBSET Regions : Closed(hdr, rs) \in [Chunks -> Entries]
  BY <1>1 DEF Closed
<1> QED BY <1>1, <1>2, <1>3, <1>4, <1>5

LEMMA WriteHeaderTyped ==
    ASSUME TypeOK, NEW hdr \in [Chunks -> Entries], NEW vers \in [Chunks -> 0 .. MaxVersion],
           NEW landed, WriteHeader(hdr, vers, landed)
    PROVE  durable' \in [Chunks -> Entries] /\ committed' \in [Chunks -> 0 .. MaxVersion]
BY TablesTyped DEF WriteHeader, TypeOK

LEMMA SaveTyped ==
    ASSUME TypeOK, NEW h \in Holders, NEW n \in Sizes, NEW off \in FirstDataSector .. LastSector,
           Placed(h, n, off)
    PROVE  /\ PendingHeader(h, n, off) \in [Chunks -> Entries]
           /\ PendingVersions(h) \in [Chunks -> 0 .. MaxVersion]
           /\ WriteChunkData(h, n, off) =>
                  /\ sector' \in [Regions -> [FirstDataSector .. LastSector -> Contents]]
                  /\ fileLen' \in [Regions -> Nat]
                  /\ version' \in [Chunks -> 0 .. MaxVersion]
           /\ \A len \in Nat : AtLeast(len, off + n) \in Nat
<1> USE RegionAssumption, FirstDataSectorAssumption
<1> DEFINE c == ChunkOf[h]
           r == RegionOf[c]
<1>1. c \in Chunks /\ r \in Regions /\ n \in Nat \ {0} /\ off \in Nat
  OBVIOUS
<1>2. version[c] + 1 \in 0 .. MaxVersion
  BY <1>1 DEF Placed, TypeOK
<1>3. [off |-> off, size |-> n] \in Entries
  BY <1>1 DEF Entries
<1>4. PendingHeader(h, n, off) \in [Chunks -> Entries]
  BY <1>1, <1>3, TablesTyped DEF PendingHeader
<1>5. PendingVersions(h) \in [Chunks -> 0 .. MaxVersion]
  BY <1>1, <1>2 DEF PendingVersions, TypeOK
<1>6. \A len \in Nat : AtLeast(len, off + n) \in Nat
  BY <1>1 DEF AtLeast
<1>7. ASSUME WriteChunkData(h, n, off)
      PROVE  /\ sector' \in [Regions -> [FirstDataSector .. LastSector -> Contents]]
             /\ fileLen' \in [Regions -> Nat]
             /\ version' \in [Chunks -> 0 .. MaxVersion]
  <2>1. \A s \in off .. (off + n - 1) : Part(c, version[c] + 1, s - off, n) \in Contents
    BY <1>1, <1>2 DEF Part, Contents
  <2>2. sector' \in [Regions -> [FirstDataSector .. LastSector -> Contents]]
    BY <1>1, <1>7, <2>1 DEF WriteChunkData, TypeOK
  <2>3. fileLen' \in [Regions -> Nat]
    BY <1>1, <1>6, <1>7 DEF WriteChunkData, TypeOK
  <2>4. version' \in [Chunks -> 0 .. MaxVersion]
    BY <1>1, <1>2, <1>7 DEF WriteChunkData, TypeOK
  <2> QED BY <2>2, <2>3, <2>4
<1> QED BY <1>4, <1>5, <1>6, <1>7

LEMMA GarbageDecoded == Garbage \in Decoded
BY DEF Decoded

(* Every step keeps the types.                                             *)
LEMMA TypeStep ==
    ASSUME TypeOK, [Next]_vars
    PROVE  TypeOK'
<1> USE RegionAssumption, FirstDataSectorAssumption
<1>1. ASSUME NEW h \in Holders, AcquireChunk(h) PROVE TypeOK'
  <2> RegionOf[ChunkOf[h]] \in Regions
    OBVIOUS
  <2>1. header' \in [Chunks -> Entries]
    BY <1>1, TablesTyped DEF AcquireChunk
  <2>2. fileSectors' \in [Regions -> Nat] /\ count' \in [Regions -> Nat]
    <3>1. OpenedSectors(RegionOf[ChunkOf[h]]) \in Nat
      BY TablesTyped
    <3>2. fileSectors' \in [Regions -> Nat]
      BY <1>1, <3>1 DEF AcquireChunk, TypeOK
    <3>3. count' \in [Regions -> Nat]
      BY <1>1 DEF AcquireChunk, TypeOK
    <3> QED BY <3>2, <3>3
  <2>3. phase' \in [Holders -> {"idle", "acquired", "decoding", "loaded", "releasing"}]
    BY <1>1 DEF AcquireChunk, TypeOK
  <2>4. open' \subseteq Regions /\ dirty' \subseteq open'
    BY <1>1 DEF AcquireChunk, TypeOK
  <2> QED BY <1>1, <2>1, <2>2, <2>3, <2>4 DEF AcquireChunk, TypeOK, diskVars, ghostVars
<1>2. ASSUME NEW h \in Holders, LoadNothing(h) PROVE TypeOK'
  BY <1>2 DEF LoadNothing, TypeOK, handleVars, diskVars, ghostVars
<1>3. ASSUME NEW h \in Holders, LoadRead(h) PROVE TypeOK'
  <2> DEFINE found == {x \in Chunks \X (1 .. MaxVersion) :
                           Holds(header[ChunkOf[h]], RegionOf[ChunkOf[h]], x[1], x[2])}
             read == IF found = {} THEN Garbage ELSE CHOOSE x \in found : TRUE
  <2>1. read \in Decoded
    <3>1. found # {} => (CHOOSE x \in found : TRUE) \in found
      <4> HIDE DEF found
      <4> QED OBVIOUS
    <3> QED BY <3>1 DEF Decoded
  <2>2. data' = [data EXCEPT ![h] = read]
    BY <1>3 DEF LoadRead
  <2> HIDE DEF read
  <2>3. data' \in [Holders -> Decoded]
    BY <2>1, <2>2 DEF TypeOK
  <2> QED BY <1>3, <2>3 DEF LoadRead, TypeOK, handleVars, diskVars, ghostVars
<1>4. ASSUME NEW h \in Holders, LoadFails(h) PROVE TypeOK'
  BY <1>4, TablesTyped, GarbageDecoded DEF LoadFails, TypeOK, handleVars, diskVars, ghostVars
<1>5. ASSUME NEW h \in Holders, LoadDecoded(h) PROVE TypeOK'
  BY <1>5, TablesTyped, GarbageDecoded DEF LoadDecoded, TypeOK, handleVars, diskVars, ghostVars
<1>6. ASSUME NEW h \in Holders, LoadCorrupt(h) PROVE TypeOK'
  <2> DEFINE hdr == [header EXCEPT ![ChunkOf[h]] = NoEntry]
             vers == [written EXCEPT ![ChunkOf[h]] = 0]
  <2>1. hdr \in [Chunks -> Entries] /\ vers \in [Chunks -> 0 .. MaxVersion]
    BY TablesTyped DEF TypeOK
  <2>2. \E landed : WriteHeader(hdr, vers, landed)
    BY <1>6 DEF LoadCorrupt
  <2>3. durable' \in [Chunks -> Entries] /\ committed' \in [Chunks -> 0 .. MaxVersion]
    BY <2>1, <2>2, WriteHeaderTyped
  <2>4. header' \in [Chunks -> Entries] /\ written' \in [Chunks -> 0 .. MaxVersion]
    BY <1>6, <2>1 DEF LoadCorrupt
  <2>5. open' \subseteq Regions /\ dirty' \subseteq open'
    BY <1>6 DEF LoadCorrupt, TypeOK
  <2> QED BY <1>6, <2>3, <2>4, <2>5, TablesTyped DEF LoadCorrupt, TypeOK
<1>7. ASSUME NEW h \in Holders, Save(h) PROVE TypeOK'
  <2> PICK n \in Sizes, off \in FirstDataSector .. LastSector :
          \/ SaveIntoOpenRegion(h, n, off)
          \/ SaveIntoClosedRegion(h, n, off)
          \/ SaveFails(h, n, off)
    BY <1>7 DEF Save
  <2> RegionOf[ChunkOf[h]] \in Regions
    OBVIOUS
  <2>1. CASE SaveIntoOpenRegion(h, n, off)
    <3>1. Placed(h, n, off) /\ WriteChunkData(h, n, off)
      BY <2>1 DEF SaveIntoOpenRegion
    <3>2. written' = PendingVersions(h)
      BY <3>1 DEF WriteChunkData
    <3>3. /\ header' \in [Chunks -> Entries] /\ written' \in [Chunks -> 0 .. MaxVersion]
          /\ sector' \in [Regions -> [FirstDataSector .. LastSector -> Contents]]
          /\ fileLen' \in [Regions -> Nat] /\ version' \in [Chunks -> 0 .. MaxVersion]
      BY <2>1, <3>1, <3>2, SaveTyped DEF SaveIntoOpenRegion
    <3>4. fileSectors' \in [Regions -> Nat]
      BY <2>1, <3>1, SaveTyped DEF SaveIntoOpenRegion, TypeOK
    <3>5. open' \subseteq Regions /\ dirty' \subseteq open'
      BY <2>1 DEF SaveIntoOpenRegion, TypeOK
    <3> QED BY <2>1, <3>1, <3>3, <3>4, <3>5
            DEF SaveIntoOpenRegion, WriteChunkData, TypeOK, holderVars
  <2>2. CASE SaveIntoClosedRegion(h, n, off)
    <3>1. Placed(h, n, off) /\ WriteChunkData(h, n, off)
      BY <2>2 DEF SaveIntoClosedRegion
    <3>2. written' = PendingVersions(h)
      BY <3>1 DEF WriteChunkData
    <3>3. \E landed : WriteHeader(PendingHeader(h, n, off), PendingVersions(h), landed)
      BY <2>2 DEF SaveIntoClosedRegion
    <3>4. durable' \in [Chunks -> Entries] /\ committed' \in [Chunks -> 0 .. MaxVersion]
      BY <3>1, <3>3, SaveTyped, WriteHeaderTyped
    <3>5. header' \in [Chunks -> Entries]
      <4>1. PendingHeader(h, n, off) \in [Chunks -> Entries]
        BY <3>1, SaveTyped
      <4> QED BY <2>2, <4>1 DEF SaveIntoClosedRegion, TypeOK
    <3>6. fileSectors' \in [Regions -> Nat]
      <4>1. AtLeast(fileLen[RegionOf[ChunkOf[h]]], off + n) \in Nat
        BY <3>1, SaveTyped DEF TypeOK
      <4> QED BY <2>2, <4>1 DEF SaveIntoClosedRegion, TypeOK
    <3>7. open' \subseteq Regions /\ dirty' \subseteq open'
      BY <2>2 DEF SaveIntoClosedRegion, TypeOK
    <3>8. /\ written' \in [Chunks -> 0 .. MaxVersion]
          /\ sector' \in [Regions -> [FirstDataSector .. LastSector -> Contents]]
          /\ fileLen' \in [Regions -> Nat] /\ version' \in [Chunks -> 0 .. MaxVersion]
      BY <3>1, <3>2, SaveTyped
    <3> QED BY <3>1, <3>4, <3>5, <3>6, <3>7, <3>8 DEF WriteChunkData, TypeOK, holderVars
  <2>3. CASE SaveFails(h, n, off)
    <3>1. PICK k \in 1 .. n :
              /\ sector' = [sector EXCEPT ![RegionOf[ChunkOf[h]]] = [s \in DOMAIN @ |->
                    IF s \in off .. (off + k - 1) THEN Garbage ELSE @[s]]]
              /\ fileLen' = [fileLen EXCEPT ![RegionOf[ChunkOf[h]]] = AtLeast(@, off + k)]
      BY <2>3 DEF SaveFails
    <3>2. Garbage \in Contents
      BY DEF Contents
    <3>3. sector' \in [Regions -> [FirstDataSector .. LastSector -> Contents]]
      BY <3>1, <3>2 DEF TypeOK
    <3>4. n \in Nat /\ off \in Nat
      OBVIOUS
    <3>5. fileLen' \in [Regions -> Nat]
      BY <3>1, <3>4 DEF TypeOK, AtLeast
    <3>6. fileSectors' \in [Regions -> Nat]
      BY <2>3, <3>4 DEF SaveFails, TypeOK, AtLeast
    <3> QED BY <2>3, <3>3, <3>5, <3>6 DEF SaveFails, TypeOK, holderVars, ghostVars
  <2> QED BY <2>1, <2>2, <2>3
<1>8. ASSUME NEW h \in Holders, Retire(h) PROVE TypeOK'
  BY <1>8 DEF Retire, TypeOK, handleVars, diskVars, ghostVars
<1>9. ASSUME NEW h \in Holders, ReleaseChunk(h) PROVE TypeOK'
  <2>1. RegionOf[ChunkOf[h]] \in Regions
    OBVIOUS
  <2>2. \/ UNCHANGED <<durable, committed>>
        \/ \E landed : WriteHeader(header, written, landed)
    BY <1>9 DEF ReleaseChunk
  <2>3. durable' \in [Chunks -> Entries] /\ committed' \in [Chunks -> 0 .. MaxVersion]
    BY <2>2, WriteHeaderTyped DEF TypeOK
  <2>4. header' \in [Chunks -> Entries]
    <3>1. Closed(header, {RegionOf[ChunkOf[h]]}) \in [Chunks -> Entries]
      BY <2>1, TablesTyped DEF TypeOK
    <3> QED BY <1>9, <3>1 DEF ReleaseChunk, TypeOK, handleVars
  <2>5. count' \in [Regions -> Nat]
    <3> DEFINE left == IF count[RegionOf[ChunkOf[h]]] = 0 THEN 0 ELSE count[RegionOf[ChunkOf[h]]] - 1
    <3>1. left \in Nat
      BY <2>1 DEF TypeOK
    <3>2. \/ count' = count
          \/ count' = [count EXCEPT ![RegionOf[ChunkOf[h]]] = left]
          \/ count' = [count EXCEPT ![RegionOf[ChunkOf[h]]] = 0]
      BY <1>9 DEF ReleaseChunk, handleVars
    <3> QED BY <3>1, <3>2, <2>1 DEF TypeOK
  <2>6. fileSectors' \in [Regions -> Nat]
    <3>1. \/ fileSectors' = fileSectors
          \/ fileSectors' = [fileSectors EXCEPT ![RegionOf[ChunkOf[h]]] = FirstDataSector]
      BY <1>9 DEF ReleaseChunk, handleVars
    <3> QED BY <3>1, <2>1 DEF TypeOK
  <2>7. open' \subseteq Regions /\ dirty' \subseteq open'
    BY <1>9, <2>1 DEF ReleaseChunk, TypeOK, handleVars
  <2>8. phase' \in [Holders -> {"idle", "acquired", "decoding", "loaded", "releasing"}]
    BY <1>9 DEF ReleaseChunk, TypeOK
  <2> QED BY <1>9, <2>3, <2>4, <2>5, <2>6, <2>7, <2>8 DEF ReleaseChunk, TypeOK
<1>10. ASSUME CloseAll PROVE TypeOK'
  <2>1. \E landed : WriteHeader(header, written, landed)
    BY <1>10 DEF CloseAll
  <2>2. durable' \in [Chunks -> Entries] /\ committed' \in [Chunks -> 0 .. MaxVersion]
    BY <2>1, WriteHeaderTyped DEF TypeOK
  <2>3. PICK failed \in SUBSET dirty :
            /\ open' = failed /\ dirty' = failed
            /\ header' = Closed(header, Regions \ failed)
            /\ count' = [r \in Regions |-> IF r \in failed THEN count[r] ELSE 0]
            /\ fileSectors' = [r \in Regions |->
                   IF r \in failed THEN fileSectors[r] ELSE FirstDataSector]
    BY <1>10 DEF CloseAll
  <2>4. header' \in [Chunks -> Entries]
    BY <2>3, TablesTyped DEF TypeOK
  <2> QED BY <1>10, <2>2, <2>3, <2>4 DEF CloseAll, TypeOK, holderVars
<1>11. ASSUME Cleanup PROVE TypeOK'
  BY <1>11 DEF Cleanup, TypeOK, handleVars, diskVars, holderVars, ghostVars
<1>12. ASSUME Crash PROVE TypeOK'
  <2>1. NoEntry \in Entries
    BY TablesTyped
  <2>2. /\ header' \in [Chunks -> Entries] /\ expected' \in [Holders -> Entries]
        /\ count' \in [Regions -> Nat] /\ fileSectors' \in [Regions -> Nat]
        /\ data' \in [Holders -> Decoded]
    BY <1>12, <2>1, GarbageDecoded DEF Crash
  <2>3. crashes' \in 0 .. MaxCrashes /\ suspect' \subseteq Regions
    BY <1>12 DEF Crash, TypeOK
  <2>4. phase' \in [Holders -> {"idle", "acquired", "decoding", "loaded", "releasing"}]
    BY <1>12 DEF Crash
  <2> QED BY <1>12, <2>2, <2>3, <2>4 DEF Crash, TypeOK, diskVars
<1>13. CASE UNCHANGED vars
  BY <1>13 DEF vars, TypeOK, handleVars, diskVars, holderVars, ghostVars
<1> QED BY <1>1, <1>2, <1>3, <1>4, <1>5, <1>6, <1>7, <1>8, <1>9, <1>10, <1>11, <1>12, <1>13 DEF Next

-----------------------------------------------------------------------------
LEMMA NoEntryFits ==
    Fits(NoEntry) /\ ~ Exists(NoEntry) /\ NoEntry \in Entries
BY RegionAssumption DEF Fits, NoEntry, Exists, End, Entries

(* What a table write leaves on disk when the sizes fit.                   *)
LEMMA WrittenTable ==
    ASSUME TypeOK, NEW hdr \in [Chunks -> Entries], NEW vers, NEW landed,
           \A c \in Chunks : Fits(hdr[c]),
           WriteHeader(hdr, vers, landed)
    PROVE  \A c \in Chunks :
               /\ durable'[c] = IF c \in landed THEN hdr[c] ELSE durable[c]
               /\ committed'[c] = IF c \in landed THEN vers[c] ELSE committed[c]
<1>1. \A c \in Chunks : Stored(hdr[c]) = hdr[c]
  BY StoredFits DEF Fits
<1> QED BY <1>1 DEF WriteHeader

(* The table an operation works with, once the region could be opened.     *)
LEMMA OpenedTable ==
    ASSUME IInv, NEW r \in Regions, CanOpen(r)
    PROVE  /\ \A c \in ChunksIn(r) : OpenedHeader(r)[c] = View(c)
           /\ \A c \in Chunks : c \notin ChunksIn(r) => OpenedHeader(r)[c] = header[c]
           /\ \A c \in Chunks : Fits(OpenedHeader(r)[c])
           /\ \A c, d \in ChunksIn(r) :
                  Exists(OpenedHeader(r)[c]) =>
                      /\ ValidEntry(OpenedHeader(r)[c], OpenedSectors(r))
                      /\ c # d /\ Exists(OpenedHeader(r)[d]) =>
                             Disjoint(OpenedHeader(r)[c], OpenedHeader(r)[d])
<1>1. \A c \in ChunksIn(r) : OpenedHeader(r)[c] = View(c)
  BY DEF OpenedHeader, View, ChunksIn
<1>2. \A c \in Chunks : c \notin ChunksIn(r) => OpenedHeader(r)[c] = header[c]
  BY DEF OpenedHeader
<1>3. \A c \in Chunks : Fits(OpenedHeader(r)[c])
  BY DEF OpenedHeader, IInv, EntriesFit
<1>4. ASSUME NEW c \in ChunksIn(r), NEW d \in ChunksIn(r), Exists(OpenedHeader(r)[c])
      PROVE  /\ ValidEntry(OpenedHeader(r)[c], OpenedSectors(r))
             /\ c # d /\ Exists(OpenedHeader(r)[d]) =>
                    Disjoint(OpenedHeader(r)[c], OpenedHeader(r)[d])
  <2>1. CASE r \in open
    <3>1. OpenedHeader(r)[c] = header[c] /\ OpenedHeader(r)[d] = header[d]
          /\ OpenedSectors(r) = fileSectors[r]
      BY <2>1 DEF OpenedHeader, OpenedSectors, ChunksIn
    <3> QED BY <1>4, <2>1, <3>1 DEF IInv, TablesNeverOverlap
  <2>2. CASE r \notin open
    <3>1. OpenedHeader(r)[c] = durable[c] /\ OpenedHeader(r)[d] = durable[d]
          /\ OpenedSectors(r) = fileLen[r]
      BY <2>2 DEF OpenedHeader, OpenedSectors, ChunksIn
    <3> QED BY <1>4, <2>2, <3>1 DEF CanOpen, TableValid
  <2> QED BY <2>1, <2>2
<1> QED BY <1>1, <1>2, <1>3, <1>4

(* Where a save puts its payload, no chunk of the region is.               *)
LEMMA PlacedIsFree ==
    ASSUME IInv, NEW h \in Holders, NEW n \in Sizes, NEW off \in FirstDataSector .. LastSector,
           Placed(h, n, off),
           NEW d \in ChunksIn(RegionOf[ChunkOf[h]])
    PROVE  /\ off + n - 1 <= LastSector
           /\ Exists(View(d)) => off + n <= View(d).off \/ End(View(d)) <= off
<1> DEFINE r == RegionOf[ChunkOf[h]]
           used == UsedRuns(OpenedHeader(r), r)
<1>1. r \in Regions /\ n \in Nat
  BY RegionAssumption
<1>2. OpenedHeader(r) \in [Chunks -> Entries] /\ OpenedSectors(r) \in Nat
  BY <1>1, TablesTyped DEF IInv
<1>3. used \in SUBSET Entries
  BY <1>2 DEF UsedRuns, ChunksIn
<1>4. CanOpen(r) /\ IsFreeSlot(off, used, n, OpenedSectors(r)) /\ off + n - 1 <= LastSector
  BY DEF Placed
<1>5. \A e \in used : off + n <= e.off \/ End(e) <= off
  BY <1>1, <1>2, <1>3, <1>4, FreeSlotIsFree
<1>6. OpenedHeader(r)[d] = View(d)
  BY <1>1, <1>4, OpenedTable
<1>7. Exists(View(d)) => View(d) \in used
  BY <1>6 DEF UsedRuns
<1> QED BY <1>4, <1>5, <1>7

(* A step writes no data sector but those of the run at off in region r.   *)
OnlyRunWritten(r, off, k) ==
    /\ \A q \in Regions : q # r => sector'[q] = sector[q]
    /\ \A s \in FirstDataSector .. LastSector :
           s < off \/ s >= off + k => sector'[r][s] = sector[r][s]

(* Payloads outside a run that is written stay as they are.                *)
LEMMA OtherPayloadsKept ==
    ASSUME IInv, NEW r \in Regions, NEW off \in Nat, NEW k \in Nat, OnlyRunWritten(r, off, k),
           NEW d \in Chunks, NEW e \in Entries, NEW v, Fits(e), Exists(e),
           RegionOf[d] = r => off + k <= e.off \/ End(e) <= off,
           Holds(e, RegionOf[d], d, v)
    PROVE  \A i \in 0 .. (e.size - 1) : sector'[RegionOf[d]][e.off + i] = Part(d, v, i, e.size)
<1> SUFFICES ASSUME NEW i \in 0 .. (e.size - 1)
             PROVE  sector'[RegionOf[d]][e.off + i] = Part(d, v, i, e.size)
  OBVIOUS
<1> DEFINE s == e.off + i
<1>1. RegionOf[d] \in Regions
  BY RegionAssumption
<1>2. /\ e.off \in Nat /\ e.size \in Nat /\ i \in Nat
      /\ s \in FirstDataSector .. LastSector
  BY RegionAssumption, FirstDataSectorAssumption DEF Fits, Entries, End
<1>3. sector[RegionOf[d]][s] = Part(d, v, i, e.size)
  BY DEF Holds
<1>4. CASE RegionOf[d] # r
  BY <1>1, <1>3, <1>4 DEF OnlyRunWritten
<1>5. CASE RegionOf[d] = r
  <2>1. s < off \/ s >= off + k
    BY <1>2, <1>5 DEF End
  <2> QED BY <1>2, <1>3, <1>5, <2>1 DEF OnlyRunWritten
<1> QED BY <1>4, <1>5

-----------------------------------------------------------------------------
(* Steps that touch neither tables nor disk keep the invariant.            *)
LEMMA StorageUntouched ==
    ASSUME IInv, TypeOK',
           UNCHANGED <<open, header, dirty, fileSectors, durable, sector, written, committed,
                       suspect>>
    PROVE  IInv'
BY DEF IInv, TablesNeverOverlap, EntriesFit, CleanIsDurable, ReadsBackLastSave, View, Holds

LEMMA AcquireStep ==
    ASSUME IInv, TypeOK', NEW h \in Holders, AcquireChunk(h)
    PROVE  IInv'
<1> DEFINE r == RegionOf[ChunkOf[h]]
<1>1. r \in Regions
  BY RegionAssumption
<1>2. /\ CanOpen(r) /\ open' = open \cup {r} /\ header' = OpenedHeader(r)
      /\ fileSectors' = [fileSectors EXCEPT ![r] = OpenedSectors(r)]
      /\ UNCHANGED <<dirty, durable, sector, written, committed, suspect>>
  BY DEF AcquireChunk, diskVars, ghostVars
<1>3. \A c \in Chunks : View(c)' = View(c)
  BY <1>2 DEF View, OpenedHeader, ChunksIn
<1>4. TablesNeverOverlap'
  <2> SUFFICES ASSUME NEW q \in open', NEW c \in ChunksIn(q), NEW d \in ChunksIn(q),
                      Exists(header'[c])
               PROVE  /\ ValidEntry(header'[c], fileSectors'[q])
                      /\ c # d /\ Exists(header'[d]) => Disjoint(header'[c], header'[d])
    BY DEF TablesNeverOverlap, ChunksIn
  <2>1. CASE q = r
    BY <1>1, <1>2, <2>1, OpenedTable DEF IInv, TypeOK
  <2>2. CASE q # r
    <3>1. header'[c] = header[c] /\ header'[d] = header[d] /\ fileSectors'[q] = fileSectors[q]
      BY <1>1, <1>2, <2>2, OpenedTable DEF ChunksIn, IInv, TypeOK
    <3> QED BY <1>2, <2>2, <3>1 DEF IInv, TablesNeverOverlap
  <2> QED BY <2>1, <2>2
<1>5. EntriesFit'
  <2>1. \A c \in Chunks : Fits(header'[c])
    BY <1>1, <1>2, OpenedTable
  <2> QED BY <1>2, <2>1 DEF EntriesFit, IInv, Fits
<1>6. CleanIsDurable'
  BY <1>2 DEF CleanIsDurable, IInv, TypeOK, OpenedHeader, ChunksIn
<1>7. ReadsBackLastSave'
  BY <1>2, <1>3 DEF ReadsBackLastSave, IInv, Holds
<1> QED BY <1>4, <1>5, <1>6, <1>7 DEF IInv

(* release_chunk closing its region, or failing to.                        *)
LEMMA ReleaseStep ==
    ASSUME IInv, TypeOK', NEW h \in Holders, ReleaseChunk(h)
    PROVE  IInv'
<1> DEFINE r == RegionOf[ChunkOf[h]]
<1>1. UNCHANGED <<sector, written, suspect>>
  BY DEF ReleaseChunk
<1>0. TypeOK /\ header \in [Chunks -> Entries] /\ \A c \in Chunks : Fits(header[c])
  BY DEF IInv, TypeOK, EntriesFit
<1>2. CASE UNCHANGED <<open, header, dirty, fileSectors, durable, committed>>
  BY <1>1, <1>2, StorageUntouched
<1>3. CASE /\ r \in open
           /\ IF r \in dirty THEN WriteHeader(header, written, ChunksIn(r))
                             ELSE UNCHANGED <<durable, committed>>
           /\ open' = open \ {r} /\ dirty' = dirty \ {r}
           /\ header' = Closed(header, {r})
           /\ fileSectors' = [fileSectors EXCEPT ![r] = FirstDataSector]
  <2>1. \A c \in Chunks : /\ durable'[c] = IF c \in ChunksIn(r) THEN header[c] ELSE durable[c]
                          /\ committed'[c] = IF c \in ChunksIn(r) THEN written[c] ELSE committed[c]
    <3>1. CASE r \in dirty
      BY <1>0, <1>3, <3>1, WrittenTable
    <3>2. CASE r \notin dirty
      BY <1>3, <3>2 DEF IInv, CleanIsDurable, ChunksIn
    <3> QED BY <3>1, <3>2
  <2>2. \A c \in Chunks : header'[c] = IF c \in ChunksIn(r) THEN NoEntry ELSE header[c]
    BY <1>3 DEF Closed, ChunksIn
  <2>3. \A c \in Chunks : View(c)' = View(c)
    BY <1>3, <2>1, <2>2 DEF View, ChunksIn
  <2>4. TablesNeverOverlap'
    <3> SUFFICES ASSUME NEW q \in open', NEW c \in ChunksIn(q), NEW d \in ChunksIn(q),
                        Exists(header'[c])
                 PROVE  /\ ValidEntry(header'[c], fileSectors'[q])
                        /\ c # d /\ Exists(header'[d]) => Disjoint(header'[c], header'[d])
      BY DEF TablesNeverOverlap, ChunksIn
    <3>1. q \in open /\ q # r
      BY <1>3
    <3>2. header'[c] = header[c] /\ header'[d] = header[d] /\ fileSectors'[q] = fileSectors[q]
      BY <1>3, <2>2, <3>1 DEF ChunksIn, IInv, TypeOK
    <3> QED BY <3>1, <3>2 DEF IInv, TablesNeverOverlap
  <2>5. EntriesFit'
    <3>1. Fits(NoEntry)
      BY NoEntryFits
    <3> QED BY <2>1, <2>2, <3>1 DEF EntriesFit, IInv, Fits
  <2>6. CleanIsDurable'
    BY <1>1, <1>3, <2>1, <2>2 DEF CleanIsDurable, IInv, ChunksIn
  <2>7. ReadsBackLastSave'
    BY <1>1, <2>3 DEF ReadsBackLastSave, IInv, Holds
  <2> QED BY <2>4, <2>5, <2>6, <2>7 DEF IInv
<1>4. CASE /\ r \in dirty
           /\ \E landed \in SUBSET ChunksIn(r) : WriteHeader(header, written, landed)
           /\ UNCHANGED <<open, header, dirty, fileSectors>>
  <2>1. PICK landed \in SUBSET ChunksIn(r) : WriteHeader(header, written, landed)
    BY <1>4
  <2>2. \A c \in Chunks : /\ durable'[c] = IF c \in landed THEN header[c] ELSE durable[c]
                          /\ committed'[c] = IF c \in landed THEN written[c] ELSE committed[c]
    BY <1>0, <2>1, WrittenTable
  <2>3. \A c \in Chunks : View(c)' = View(c)
    BY <1>4, <2>2 DEF View, ChunksIn, IInv, TypeOK
  <2>4. TablesNeverOverlap'
    BY <1>4 DEF TablesNeverOverlap, IInv
  <2>5. EntriesFit'
    BY <1>4, <2>2 DEF EntriesFit, IInv, Fits
  <2>6. CleanIsDurable'
    BY <1>1, <1>4, <2>2 DEF CleanIsDurable, IInv, TypeOK, ChunksIn
  <2>7. ReadsBackLastSave'
    BY <1>1, <2>3 DEF ReadsBackLastSave, IInv, Holds
  <2> QED BY <2>4, <2>5, <2>6, <2>7 DEF IInv
<1> QED BY <1>2, <1>3, <1>4 DEF ReleaseChunk, handleVars

LEMMA CloseAllStep ==
    ASSUME IInv, TypeOK', CloseAll
    PROVE  IInv'
<1>1. UNCHANGED <<sector, written, suspect>>
  BY DEF CloseAll
<1>2. TypeOK /\ header \in [Chunks -> Entries] /\ \A c \in Chunks : Fits(header[c])
  BY DEF IInv, TypeOK, EntriesFit
<1>3. PICK failed \in SUBSET dirty :
          /\ \E landed \in SUBSET {c \in Chunks : RegionOf[c] \in failed} :
                 WriteHeader(header, written,
                             {c \in Chunks : RegionOf[c] \in dirty \ failed} \cup landed)
          /\ open' = failed /\ dirty' = failed
          /\ header' = Closed(header, Regions \ failed)
          /\ fileSectors' = [r \in Regions |->
                 IF r \in failed THEN fileSectors[r] ELSE FirstDataSector]
  BY DEF CloseAll
<1>4. PICK landed \in SUBSET {c \in Chunks : RegionOf[c] \in failed} :
          WriteHeader(header, written,
                      {c \in Chunks : RegionOf[c] \in dirty \ failed} \cup landed)
  BY <1>3
<1> DEFINE all == {c \in Chunks : RegionOf[c] \in dirty \ failed} \cup landed
<1>5. \A c \in Chunks : /\ durable'[c] = IF c \in all THEN header[c] ELSE durable[c]
                        /\ committed'[c] = IF c \in all THEN written[c] ELSE committed[c]
  BY <1>2, <1>4, WrittenTable
<1>6. \A c \in Chunks : RegionOf[c] \in Regions
  BY RegionAssumption
<1>7. \A c \in Chunks : header'[c] = IF RegionOf[c] \in failed THEN header[c] ELSE NoEntry
  BY <1>3, <1>6 DEF Closed
<1>8. \A c \in Chunks : RegionOf[c] \notin failed =>
          View(c)' = View(c) /\ durable'[c] = View(c) /\ committed'[c] = written[c]
  <2> SUFFICES ASSUME NEW c \in Chunks, RegionOf[c] \notin failed
               PROVE  View(c)' = View(c) /\ durable'[c] = View(c) /\ committed'[c] = written[c]
    OBVIOUS
  <2>1. View(c)' = durable'[c]
    BY <1>3 DEF View
  <2>2. CASE RegionOf[c] \in dirty
    BY <1>5, <2>1, <2>2 DEF View, IInv, TypeOK
  <2>3. CASE RegionOf[c] \notin dirty
    BY <1>5, <2>1, <2>3 DEF View, IInv, CleanIsDurable
  <2> QED BY <2>2, <2>3
<1>9. \A c \in Chunks : RegionOf[c] \in failed => View(c)' = View(c)
  BY <1>2, <1>3, <1>7 DEF View, TypeOK
<1>10. TablesNeverOverlap'
  BY <1>3, <1>7, <1>6 DEF TablesNeverOverlap, IInv, TypeOK, ChunksIn
<1>11. EntriesFit'
  <2>1. \A c \in Chunks : Fits(header'[c])
    BY <1>2, <1>7, NoEntryFits
  <2>2. \A c \in Chunks : Fits(durable'[c])
    BY <1>5 DEF IInv, EntriesFit
  <2> QED BY <2>1, <2>2 DEF EntriesFit, Fits
<1>12. CleanIsDurable'
  BY <1>1, <1>3, <1>8 DEF CleanIsDurable
<1>13. ReadsBackLastSave'
  BY <1>1, <1>8, <1>9 DEF ReadsBackLastSave, IInv, Holds
<1> QED BY <1>10, <1>11, <1>12, <1>13 DEF IInv

LEMMA CrashStep ==
    ASSUME IInv, TypeOK', Crash
    PROVE  IInv'
<1>1. /\ open' = {} /\ suspect' = suspect \cup dirty /\ written' = committed
      /\ header' = [c \in Chunks |-> NoEntry]
      /\ UNCHANGED <<durable, sector, committed>>
  BY DEF Crash, diskVars
<1>2. TablesNeverOverlap'
  BY <1>1 DEF TablesNeverOverlap
<1>3. EntriesFit'
  <2>1. \A c \in Chunks : Fits(header'[c])
    BY <1>1, NoEntryFits
  <2> QED BY <1>1, <2>1 DEF EntriesFit, IInv, Fits
<1>4. CleanIsDurable'
  BY <1>1 DEF CleanIsDurable
<1>5. ReadsBackLastSave'
  <2>1. \A c \in Chunks : RegionOf[c] \notin suspect' =>
            /\ RegionOf[c] \notin suspect
            /\ View(c)' = View(c) /\ written'[c] = written[c]
    BY <1>1 DEF View, IInv, CleanIsDurable
  <2> QED BY <1>1, <2>1 DEF ReadsBackLastSave, IInv, Holds
<1> QED BY <1>2, <1>3, <1>4, <1>5 DEF IInv

LEMMA LoadCorruptStep ==
    ASSUME IInv, TypeOK', NEW h \in Holders, LoadCorrupt(h)
    PROVE  IInv'
<1> DEFINE x == ChunkOf[h]
           r == RegionOf[x]
           hdr == [header EXCEPT ![x] = NoEntry]
           vers == [written EXCEPT ![x] = 0]
<1>1. x \in Chunks /\ r \in open /\ header' = hdr /\ written' = vers
      /\ UNCHANGED <<open, fileSectors, sector, suspect>>
  BY RegionAssumption DEF LoadCorrupt
<1>2. hdr \in [Chunks -> Entries] /\ \A c \in Chunks : Fits(hdr[c])
  BY <1>1, NoEntryFits DEF IInv, TypeOK, EntriesFit
<1>3. /\ \A c \in Chunks : hdr[c] = IF c = x THEN NoEntry ELSE header[c]
      /\ \A c \in Chunks : vers[c] = IF c = x THEN 0 ELSE written[c]
  BY <1>1 DEF IInv, TypeOK
<1>4. PICK landed \in SUBSET ChunksIn(r) :
          /\ WriteHeader(hdr, vers, landed)
          /\ \/ landed = ChunksIn(r) /\ dirty' = dirty \ {r}
             \/ dirty' = dirty \cup {r}
  BY DEF LoadCorrupt
<1>5. \A c \in Chunks : /\ durable'[c] = IF c \in landed THEN hdr[c] ELSE durable[c]
                        /\ committed'[c] = IF c \in landed THEN vers[c] ELSE committed[c]
  <2> HIDE DEF hdr, vers
  <2>1. TypeOK
    BY DEF IInv
  <2> QED BY <1>2, <1>4, <2>1, WrittenTable
<1>6. TablesNeverOverlap'
  BY <1>1, <1>3, NoEntryFits DEF TablesNeverOverlap, IInv, ChunksIn
<1>7. EntriesFit'
  BY <1>1, <1>2, <1>5 DEF EntriesFit, IInv, Fits
<1>8. CleanIsDurable'
  BY <1>1, <1>3, <1>4, <1>5 DEF CleanIsDurable, IInv, ChunksIn
<1>9. ReadsBackLastSave'
  <2>1. \A c \in Chunks : c # x => View(c)' = View(c) /\ written'[c] = written[c]
    BY <1>1, <1>3, <1>4, <1>5 DEF View, ChunksIn
  <2>2. ~ Exists(View(x)') /\ written'[x] = 0
    BY <1>1, <1>3, NoEntryFits DEF View
  <2> QED BY <1>1, <2>1, <2>2 DEF ReadsBackLastSave, IInv, Holds
<1> QED BY <1>6, <1>7, <1>8, <1>9 DEF IInv

-----------------------------------------------------------------------------
(* What a save that could be placed does to the tables and the data.       *)
LEMMA SavedPayload ==
    ASSUME IInv, NEW h \in Holders, NEW n \in Sizes, NEW off \in FirstDataSector .. LastSector,
           SizesFit, Placed(h, n, off), WriteChunkData(h, n, off)
    PROVE  /\ Fits([off |-> off, size |-> n]) /\ Exists([off |-> off, size |-> n])
           /\ written'[ChunkOf[h]] = version[ChunkOf[h]] + 1
           /\ written'[ChunkOf[h]] # 0
           /\ \A i \in 0 .. (n - 1) :
                  sector'[RegionOf[ChunkOf[h]]][off + i] =
                      Part(ChunkOf[h], written'[ChunkOf[h]], i, n)
           /\ \A c \in Chunks : c # ChunkOf[h] => written'[c] = written[c]
           /\ OnlyRunWritten(RegionOf[ChunkOf[h]], off, n)
           /\ suspect' = suspect
<1> DEFINE x == ChunkOf[h]
           r == RegionOf[x]
<1> USE RegionAssumption, FirstDataSectorAssumption
<1>1. x \in Chunks /\ r \in Regions /\ n \in Nat \ {0} /\ off \in Nat /\ off + n - 1 <= LastSector
  BY DEF Placed
<1>2. Fits([off |-> off, size |-> n]) /\ Exists([off |-> off, size |-> n])
  BY <1>1 DEF Fits, Exists, End, SizesFit
<1>3. /\ written'[x] = version[x] + 1 /\ version[x] + 1 # 0
      /\ \A c \in Chunks : c # x => written'[c] = written[c]
      /\ suspect' = suspect
  BY <1>1 DEF WriteChunkData, PendingVersions, IInv, TypeOK
<1>4. /\ \A s \in FirstDataSector .. LastSector : sector'[r][s] =
             IF s \in off .. (off + n - 1) THEN Part(x, version[x] + 1, s - off, n) ELSE sector[r][s]
      /\ \A q \in Regions : q # r => sector'[q] = sector[q]
  BY <1>1 DEF WriteChunkData, IInv, TypeOK
<1>5. OnlyRunWritten(r, off, n)
  BY <1>1, <1>4 DEF OnlyRunWritten
<1>6. ASSUME NEW i \in 0 .. (n - 1)
      PROVE  sector'[r][off + i] = Part(x, version[x] + 1, i, n)
  <2>1. /\ off + i \in FirstDataSector .. LastSector
        /\ off + i \in off .. (off + n - 1)
        /\ (off + i) - off = i
    BY <1>1
  <2> QED BY <1>4, <2>1
<1> QED BY <1>2, <1>3, <1>5, <1>6

(* The tables in memory after a save, whichever way the region was opened. *)
LEMMA SavedTable ==
    ASSUME IInv, NEW h \in Holders, NEW n \in Sizes, NEW off \in FirstDataSector .. LastSector,
           SizesFit, Placed(h, n, off)
    PROVE  /\ PendingHeader(h, n, off)[ChunkOf[h]] = [off |-> off, size |-> n]
           /\ \A c \in ChunksIn(RegionOf[ChunkOf[h]]) :
                  c # ChunkOf[h] => PendingHeader(h, n, off)[c] = View(c)
           /\ \A c \in Chunks :
                  RegionOf[c] # RegionOf[ChunkOf[h]] => PendingHeader(h, n, off)[c] = header[c]
           /\ \A c \in Chunks : Fits(PendingHeader(h, n, off)[c])
           /\ \A len \in Nat, c, d \in ChunksIn(RegionOf[ChunkOf[h]]) :
                  len >= OpenedSectors(RegionOf[ChunkOf[h]]) /\ len >= off + n
                  /\ Exists(PendingHeader(h, n, off)[c]) =>
                      /\ ValidEntry(PendingHeader(h, n, off)[c], len)
                      /\ c # d /\ Exists(PendingHeader(h, n, off)[d]) =>
                             Disjoint(PendingHeader(h, n, off)[c], PendingHeader(h, n, off)[d])
<1> DEFINE x == ChunkOf[h]
           r == RegionOf[x]
           P == PendingHeader(h, n, off)
           new == [off |-> off, size |-> n]
<1> USE RegionAssumption, FirstDataSectorAssumption
<1>1. x \in Chunks /\ r \in Regions /\ x \in ChunksIn(r) /\ n \in Nat \ {0} /\ off \in Nat
      /\ CanOpen(r) /\ off + n - 1 <= LastSector /\ off >= FirstDataSector
  BY DEF Placed, ChunksIn
<1>2. OpenedHeader(r) \in [Chunks -> Entries] /\ OpenedSectors(r) \in Nat
  BY <1>1, TablesTyped DEF IInv
<1>3. P[x] = new /\ \A c \in Chunks : c # x => P[c] = OpenedHeader(r)[c]
  BY <1>1, <1>2 DEF PendingHeader
<1>4. \A c \in ChunksIn(r) : OpenedHeader(r)[c] = View(c)
  BY <1>1, OpenedTable
<1>5. \A c \in Chunks : Fits(OpenedHeader(r)[c])
  BY <1>1, OpenedTable
<1>6. \A c \in Chunks : RegionOf[c] # r => P[c] = header[c]
  BY <1>1, <1>3, OpenedTable DEF ChunksIn
<1>7. \A c \in Chunks : Fits(P[c])
  <2>1. Fits(new)
    BY <1>1 DEF Fits, Exists, End, SizesFit
  <2> QED BY <1>3, <1>5, <2>1
<1>8. ASSUME NEW len \in Nat, NEW c \in ChunksIn(r), NEW d \in ChunksIn(r),
             len >= OpenedSectors(r), len >= off + n, Exists(P[c])
      PROVE  /\ ValidEntry(P[c], len)
             /\ c # d /\ Exists(P[d]) => Disjoint(P[c], P[d])
  <2>1. \A e \in ChunksIn(r) : e # x /\ Exists(P[e]) =>
            /\ P[e] \in Entries
            /\ ValidEntry(P[e], OpenedSectors(r))
            /\ off + n <= P[e].off \/ End(P[e]) <= off
    <3> SUFFICES ASSUME NEW e \in ChunksIn(r), e # x, Exists(P[e])
                 PROVE  /\ P[e] \in Entries
                        /\ ValidEntry(P[e], OpenedSectors(r))
                        /\ off + n <= P[e].off \/ End(P[e]) <= off
      OBVIOUS
    <3>1. e \in Chunks /\ P[e] = OpenedHeader(r)[e] /\ P[e] = View(e)
      BY <1>3, <1>4 DEF ChunksIn
    <3>2. ValidEntry(P[e], OpenedSectors(r))
      BY <1>1, <3>1, OpenedTable
    <3>3. off + n <= P[e].off \/ End(P[e]) <= off
      BY <3>1, PlacedIsFree
    <3> QED BY <1>2, <3>1, <3>2, <3>3
  <2>2. ValidEntry(P[c], len)
    <3>1. CASE c = x
      BY <1>1, <1>3, <1>8, <3>1 DEF ValidEntry, End
    <3>2. CASE c # x
      BY <1>2, <1>8, <2>1, <3>2 DEF ValidEntry, End, Entries
    <3> QED BY <3>1, <3>2
  <2>3. ASSUME c # d, Exists(P[d]) PROVE Disjoint(P[c], P[d])
    <3>1. CASE c = x
      BY <1>3, <2>1, <2>3, <3>1 DEF Disjoint, End
    <3>2. CASE d = x
      BY <1>3, <1>8, <2>1, <2>3, <3>2 DEF Disjoint, End
    <3>3. CASE c # x /\ d # x
      <4>1. P[c] = OpenedHeader(r)[c] /\ P[d] = OpenedHeader(r)[d]
        BY <1>3, <3>3 DEF ChunksIn
      <4> QED BY <1>1, <1>8, <2>3, <4>1, OpenedTable
    <3> QED BY <3>1, <3>2, <3>3
  <2> QED BY <2>2, <2>3
<1> HIDE DEF P
<1>9. \A c \in ChunksIn(r) : c # x => P[c] = View(c)
  BY <1>3, <1>4 DEF ChunksIn
<1> QED BY <1>3, <1>6, <1>7, <1>8, <1>9 DEF P

LEMMA ViewFits ==
    ASSUME IInv, NEW c \in Chunks
    PROVE  View(c) \in Entries /\ Fits(View(c))
BY DEF IInv, TypeOK, EntriesFit, View

(* A save changes what is read back for its own chunk only.                *)
LEMMA SaveReadsBack ==
    ASSUME IInv, NEW h \in Holders, NEW n \in Sizes, NEW off \in FirstDataSector .. LastSector,
           SizesFit, Placed(h, n, off), WriteChunkData(h, n, off),
           \A c \in Chunks : View(c)' = IF c = ChunkOf[h] THEN [off |-> off, size |-> n] ELSE View(c)
    PROVE  ReadsBackLastSave'
<1> DEFINE x == ChunkOf[h]
           new == [off |-> off, size |-> n]
<1>1. x \in Chunks /\ RegionOf[x] \in Regions /\ n \in Nat /\ off \in Nat
  BY RegionAssumption, FirstDataSectorAssumption
<1>2. suspect' = suspect
  BY SavedPayload
<1>3. /\ View(x)' = new /\ Exists(new) /\ written'[x] # 0
      /\ \A i \in 0 .. (n - 1) : sector'[RegionOf[x]][off + i] = Part(x, written'[x], i, n)
  BY <1>1, SavedPayload
<1>4. ASSUME NEW c \in Chunks, c # x, RegionOf[c] \notin suspect
      PROVE  /\ View(c)' = View(c) /\ written'[c] = written[c]
             /\ IF written[c] = 0 THEN ~ Exists(View(c))
                ELSE /\ Exists(View(c))
                     /\ \A i \in 0 .. (View(c).size - 1) :
                            sector'[RegionOf[c]][View(c).off + i] =
                                Part(c, written[c], i, View(c).size)
  <2>1. View(c)' = View(c) /\ written'[c] = written[c]
    BY <1>4, SavedPayload
  <2>2. ASSUME written[c] # 0
        PROVE  /\ Exists(View(c))
               /\ \A i \in 0 .. (View(c).size - 1) :
                      sector'[RegionOf[c]][View(c).off + i] = Part(c, written[c], i, View(c).size)
    <3>1. Exists(View(c)) /\ Holds(View(c), RegionOf[c], c, written[c])
      BY <1>4, <2>2 DEF IInv, ReadsBackLastSave
    <3>2. RegionOf[c] = RegionOf[x] => off + n <= View(c).off \/ End(View(c)) <= off
      BY <3>1, PlacedIsFree DEF ChunksIn
    <3>3. OnlyRunWritten(RegionOf[x], off, n)
      BY SavedPayload
    <3>4. PICK e \in Entries : e = View(c)
      BY ViewFits
    <3>5. Fits(e) /\ Exists(e) /\ Holds(e, RegionOf[c], c, written[c])
          /\ (RegionOf[c] = RegionOf[x] => off + n <= e.off \/ End(e) <= off)
      BY <3>1, <3>2, <3>4, ViewFits
    <3>6. \A i \in 0 .. (e.size - 1) : sector'[RegionOf[c]][e.off + i] = Part(c, written[c], i, e.size)
      <4> DEFINE r == RegionOf[x]
                 v == written[c]
      <4>1. /\ r \in Regions /\ off \in Nat /\ n \in Nat /\ OnlyRunWritten(r, off, n)
            /\ Fits(e) /\ Exists(e) /\ Holds(e, RegionOf[c], c, v)
            /\ (RegionOf[c] = r => off + n <= e.off \/ End(e) <= off)
        BY <1>1, <3>3, <3>5
      <4> HIDE DEF r, v
      <4>2. \A i \in 0 .. (e.size - 1) : sector'[RegionOf[c]][e.off + i] = Part(c, v, i, e.size)
        BY <4>1, OtherPayloadsKept
      <4> QED BY <4>2 DEF v
    <3> QED BY <3>1, <3>4, <3>6
  <2> QED BY <1>4, <2>1, <2>2 DEF IInv, ReadsBackLastSave
<1> QED BY <1>2, <1>3, <1>4 DEF ReadsBackLastSave, Holds

LEMMA SaveOpenStep ==
    ASSUME IInv, TypeOK', SizesFit, NEW h \in Holders, NEW n \in Sizes,
           NEW off \in FirstDataSector .. LastSector, SaveIntoOpenRegion(h, n, off)
    PROVE  IInv'
<1> DEFINE x == ChunkOf[h]
           r == RegionOf[x]
           P == PendingHeader(h, n, off)
<1>1. x \in Chunks /\ r \in Regions /\ n \in Nat /\ off \in Nat
  BY RegionAssumption, FirstDataSectorAssumption
<1>2. /\ r \in open /\ Placed(h, n, off) /\ WriteChunkData(h, n, off)
      /\ header' = P /\ dirty' = dirty \cup {r}
      /\ fileSectors' = [fileSectors EXCEPT ![r] = AtLeast(@, off + n)]
      /\ UNCHANGED <<open, durable, committed>>
  BY DEF SaveIntoOpenRegion
<1>3. /\ P[x] = [off |-> off, size |-> n]
      /\ \A c \in ChunksIn(r) : c # x => P[c] = View(c)
      /\ \A c \in Chunks : RegionOf[c] # r => P[c] = header[c]
      /\ \A c \in Chunks : Fits(P[c])
  BY <1>2, SavedTable
<1>4. \A c \in Chunks : View(c)' = IF c = x THEN [off |-> off, size |-> n] ELSE View(c)
  <2> HIDE DEF P
  <2> QED BY <1>1, <1>2, <1>3 DEF View, ChunksIn
<1>5. ReadsBackLastSave'
  BY <1>2, <1>4, SaveReadsBack
<1>6. EntriesFit'
  <2> HIDE DEF P
  <2> QED BY <1>2, <1>3 DEF EntriesFit, IInv, Fits
<1>7. CleanIsDurable'
  <2>1. \A c \in Chunks : c # x => written'[c] = written[c]
    BY <1>2, SavedPayload
  <2> HIDE DEF P
  <2> QED BY <1>1, <1>2, <1>3, <2>1 DEF CleanIsDurable, IInv
<1>8. TablesNeverOverlap'
  <2> SUFFICES ASSUME NEW q \in open', NEW c \in ChunksIn(q), NEW d \in ChunksIn(q),
                      Exists(header'[c])
               PROVE  /\ ValidEntry(header'[c], fileSectors'[q])
                      /\ c # d /\ Exists(header'[d]) => Disjoint(header'[c], header'[d])
    BY DEF TablesNeverOverlap, ChunksIn
  <2>1. CASE q = r
    <3>1. OpenedSectors(r) = fileSectors[r] /\ fileSectors[r] \in Nat
      BY <1>1, <1>2 DEF OpenedSectors, IInv, TypeOK
    <3>2. fileSectors'[r] = AtLeast(fileSectors[r], off + n)
      BY <1>1, <1>2 DEF IInv, TypeOK
    <3>3. /\ fileSectors'[r] \in Nat /\ fileSectors'[r] >= OpenedSectors(r)
          /\ fileSectors'[r] >= off + n
      BY <1>1, <3>1, <3>2 DEF AtLeast
    <3> QED BY <1>2, <2>1, <3>3, SavedTable
  <2>2. CASE q # r
    <3>1. header'[c] = header[c] /\ header'[d] = header[d] /\ fileSectors'[q] = fileSectors[q]
      <4> HIDE DEF P
      <4> QED BY <1>1, <1>2, <1>3, <2>2 DEF ChunksIn, IInv, TypeOK
    <3> QED BY <1>2, <2>2, <3>1 DEF IInv, TablesNeverOverlap
  <2> QED BY <2>1, <2>2
<1> QED BY <1>5, <1>6, <1>7, <1>8 DEF IInv

LEMMA SaveClosedStep ==
    ASSUME IInv, TypeOK', SizesFit, NEW h \in Holders, NEW n \in Sizes,
           NEW off \in FirstDataSector .. LastSector, SaveIntoClosedRegion(h, n, off)
    PROVE  IInv'
<1> DEFINE x == ChunkOf[h]
           r == RegionOf[x]
           P == PendingHeader(h, n, off)
           V == PendingVersions(h)
<1>1. x \in Chunks /\ r \in Regions /\ n \in Nat /\ off \in Nat
  BY RegionAssumption, FirstDataSectorAssumption
<1>2. /\ r \notin open /\ Placed(h, n, off) /\ WriteChunkData(h, n, off)
  BY DEF SaveIntoClosedRegion
<1>3. PICK landed \in SUBSET ChunksIn(r) :
          /\ WriteHeader(P, V, landed)
          /\ \/ landed = ChunksIn(r) /\ UNCHANGED <<open, header, dirty, fileSectors>>
             \/ /\ open' = open \cup {r} /\ dirty' = dirty \cup {r}
                /\ header' = P
                /\ fileSectors' = [fileSectors EXCEPT ![r] = AtLeast(fileLen[r], off + n)]
  BY DEF SaveIntoClosedRegion
<1>4. /\ P[x] = [off |-> off, size |-> n]
      /\ \A c \in ChunksIn(r) : c # x => P[c] = View(c)
      /\ \A c \in Chunks : RegionOf[c] # r => P[c] = header[c]
      /\ \A c \in Chunks : Fits(P[c])
  BY <1>2, SavedTable
<1>5. P \in [Chunks -> Entries] /\ TypeOK
  BY <1>2, SaveTyped DEF IInv
<1>6. \A c \in Chunks : /\ durable'[c] = IF c \in landed THEN P[c] ELSE durable[c]
                        /\ committed'[c] = IF c \in landed THEN V[c] ELSE committed[c]
  <2> HIDE DEF P, V
  <2> QED BY <1>3, <1>4, <1>5, WrittenTable
<1>7. written' = V
  BY <1>2 DEF WriteChunkData
<1>8. \A c \in Chunks : View(c)' = IF c = x THEN [off |-> off, size |-> n] ELSE View(c)
  <2> HIDE DEF P, V
  <2> QED BY <1>1, <1>2, <1>3, <1>4, <1>6 DEF View, ChunksIn
<1>9. ReadsBackLastSave'
  BY <1>2, <1>8, SaveReadsBack
<1>10. EntriesFit'
  <2> HIDE DEF P, V
  <2> QED BY <1>3, <1>4, <1>6 DEF EntriesFit, IInv, Fits
<1>11. CleanIsDurable'
  <2>1. \A c \in Chunks : c # x => written'[c] = written[c]
    BY <1>2, SavedPayload
  <2> HIDE DEF P, V
  <2> SUFFICES ASSUME NEW c \in Chunks
               PROVE  /\ RegionOf[c] \in open' \ dirty' =>
                             durable'[c] = header'[c] /\ committed'[c] = written'[c]
                      /\ RegionOf[c] \notin open' => committed'[c] = written'[c]
    BY DEF CleanIsDurable
  <2>2. CASE RegionOf[c] = r
    <3>1. r \notin dirty
      BY <1>2, <1>5 DEF TypeOK
    <3> QED BY <1>2, <1>3, <1>6, <1>7, <2>2, <3>1 DEF ChunksIn
  <2>3. CASE RegionOf[c] # r
    <3>1. c \notin landed /\ header'[c] = header[c]
      BY <1>3, <1>4, <2>3 DEF ChunksIn
    <3>2. durable'[c] = durable[c] /\ committed'[c] = committed[c] /\ written'[c] = written[c]
      BY <1>6, <2>1, <2>3, <3>1
    <3> QED BY <1>3, <2>3, <3>1, <3>2 DEF IInv, CleanIsDurable
  <2> QED BY <2>2, <2>3
<1>12. TablesNeverOverlap'
  <2>1. CASE UNCHANGED <<open, header, dirty, fileSectors>>
    BY <2>1 DEF TablesNeverOverlap, IInv
  <2>2. CASE /\ open' = open \cup {r} /\ header' = P
             /\ fileSectors' = [fileSectors EXCEPT ![r] = AtLeast(fileLen[r], off + n)]
    <3> SUFFICES ASSUME NEW q \in open', NEW c \in ChunksIn(q), NEW d \in ChunksIn(q),
                        Exists(header'[c])
                 PROVE  /\ ValidEntry(header'[c], fileSectors'[q])
                        /\ c # d /\ Exists(header'[d]) => Disjoint(header'[c], header'[d])
      BY DEF TablesNeverOverlap, ChunksIn
    <3>1. CASE q = r
      <4>1. OpenedSectors(r) = fileLen[r] /\ fileLen[r] \in Nat
        BY <1>1, <1>2 DEF OpenedSectors, IInv, TypeOK
      <4>2. fileSectors'[r] = AtLeast(fileLen[r], off + n)
        BY <1>1, <2>2 DEF IInv, TypeOK
      <4>3. /\ fileSectors'[r] \in Nat /\ fileSectors'[r] >= OpenedSectors(r)
            /\ fileSectors'[r] >= off + n
        BY <1>1, <4>1, <4>2 DEF AtLeast
      <4> QED BY <1>2, <2>2, <3>1, <4>3, SavedTable
    <3>2. CASE q # r
      <4>1. header'[c] = header[c] /\ header'[d] = header[d] /\ fileSectors'[q] = fileSectors[q]
        <5> HIDE DEF P
        <5> QED BY <1>1, <1>4, <2>2, <3>2 DEF ChunksIn, IInv, TypeOK
      <4> QED BY <2>2, <3>2, <4>1 DEF IInv, TablesNeverOverlap
    <3> QED BY <3>1, <3>2
  <2> QED BY <1>3, <2>1, <2>2
<1> QED BY <1>9, <1>10, <1>11, <1>12 DEF IInv

LEMMA SaveFailsStep ==
    ASSUME IInv, TypeOK', NEW h \in Holders, NEW n \in Sizes,
           NEW off \in FirstDataSector .. LastSector, SaveFails(h, n, off)
    PROVE  IInv'
<1> DEFINE x == ChunkOf[h]
           r == RegionOf[x]
<1>1. x \in Chunks /\ r \in Regions /\ n \in Nat /\ off \in Nat
  BY RegionAssumption, FirstDataSectorAssumption
<1>2. /\ Placed(h, n, off)
      /\ UNCHANGED <<open, header, dirty, durable, written, committed, suspect>>
  BY DEF SaveFails, ghostVars
<1>3. PICK k \in 1 .. n : sector' = [sector EXCEPT ![r] = [s \in DOMAIN @ |->
          IF s \in off .. (off + k - 1) THEN Garbage ELSE @[s]]]
  BY DEF SaveFails
<1>4. OnlyRunWritten(r, off, n)
  <2>1. \A q \in Regions : q # r => sector'[q] = sector[q]
    BY <1>1, <1>3 DEF IInv, TypeOK
  <2>2. \A s \in FirstDataSector .. LastSector : sector'[r][s] =
            IF s \in off .. (off + k - 1) THEN Garbage ELSE sector[r][s]
    BY <1>1, <1>3 DEF IInv, TypeOK
  <2> QED BY <1>1, <2>1, <2>2, FirstDataSectorAssumption, RegionAssumption DEF OnlyRunWritten
<1>5. ReadsBackLastSave'
  <2> SUFFICES ASSUME NEW c \in Chunks, RegionOf[c] \notin suspect, written[c] # 0
               PROVE  /\ Exists(View(c))
                      /\ \A i \in 0 .. (View(c).size - 1) :
                             sector'[RegionOf[c]][View(c).off + i] =
                                 Part(c, written[c], i, View(c).size)
    BY <1>2 DEF IInv, ReadsBackLastSave, Holds, View
  <2>1. Exists(View(c)) /\ Holds(View(c), RegionOf[c], c, written[c])
    BY DEF IInv, ReadsBackLastSave
  <2>2. RegionOf[c] = r => off + n <= View(c).off \/ End(View(c)) <= off
    BY <1>2, <2>1, PlacedIsFree DEF ChunksIn
  <2>3. PICK e \in Entries : e = View(c)
    BY ViewFits
  <2> DEFINE v == written[c]
  <2>4. /\ r \in Regions /\ off \in Nat /\ n \in Nat /\ OnlyRunWritten(r, off, n)
        /\ Fits(e) /\ Exists(e) /\ Holds(e, RegionOf[c], c, v)
        /\ (RegionOf[c] = r => off + n <= e.off \/ End(e) <= off)
    BY <1>1, <1>4, <2>1, <2>2, <2>3, ViewFits
  <2>5. \A i \in 0 .. (e.size - 1) : sector'[RegionOf[c]][e.off + i] = Part(c, v, i, e.size)
    <3> HIDE DEF r, v
    <3> QED BY <2>4, OtherPayloadsKept
  <2> QED BY <2>1, <2>3, <2>5
<1>6. EntriesFit' /\ CleanIsDurable'
  BY <1>2 DEF IInv, EntriesFit, CleanIsDurable, Fits
<1>7. \A q \in Regions : fileSectors'[q] >= fileSectors[q]
  <2>1. \/ fileSectors' = fileSectors
        \/ fileSectors' = [fileSectors EXCEPT ![r] = AtLeast(@, off + n)]
    BY DEF SaveFails
  <2>2. fileSectors \in [Regions -> Nat]
    BY DEF IInv, TypeOK
  <2> HIDE DEF r, x
  <2> QED BY <1>1, <2>1, <2>2 DEF AtLeast
<1>8. TablesNeverOverlap'
  <2> SUFFICES ASSUME NEW q \in open, NEW c \in ChunksIn(q), NEW d \in ChunksIn(q),
                      Exists(header[c])
               PROVE  /\ ValidEntry(header[c], fileSectors'[q])
                      /\ c # d /\ Exists(header[d]) => Disjoint(header[c], header[d])
    BY <1>2 DEF TablesNeverOverlap
  <2>1. /\ ValidEntry(header[c], fileSectors[q])
        /\ c # d /\ Exists(header[d]) => Disjoint(header[c], header[d])
    BY DEF IInv, TablesNeverOverlap
  <2>2. /\ q \in Regions /\ header[c].off \in Nat /\ header[c].size \in Nat
        /\ fileSectors[q] \in Nat /\ fileSectors'[q] \in Nat
    BY DEF IInv, TypeOK, ChunksIn, Entries
  <2> QED BY <1>7, <2>1, <2>2 DEF ValidEntry, End
<1> QED BY <1>5, <1>6, <1>8 DEF IInv

-----------------------------------------------------------------------------
LEMMA InitTyped ==
    ASSUME Init
    PROVE  TypeOK
<1>1. NoEntry \in Entries /\ Garbage \in Contents
  BY DEF NoEntry, Entries, Contents
<1>2. header \in [Chunks -> Entries] /\ durable \in [Chunks -> Entries] /\ expected \in [Holders -> Entries]
  BY <1>1 DEF Init
<1>3. sector \in [Regions -> [FirstDataSector .. LastSector -> Contents]]
  BY <1>1 DEF Init
<1>4. /\ count \in [Regions -> Nat]
      /\ fileSectors \in [Regions -> Nat] /\ fileLen \in [Regions -> Nat]
  BY FirstDataSectorAssumption DEF Init
<1>5. 0 \in 0 .. MaxVersion /\ 0 \in 0 .. MaxCrashes
  BY RegionAssumption
<1>6. /\ version \in [Chunks -> 0 .. MaxVersion] /\ written \in [Chunks -> 0 .. MaxVersion]
      /\ committed \in [Chunks -> 0 .. MaxVersion] /\ crashes \in 0 .. MaxCrashes
  BY <1>5 DEF Init
<1>7. phase \in [Holders -> {"idle", "acquired", "decoding", "loaded", "releasing"}]
  BY DEF Init
<1>8. open \subseteq Regions /\ dirty \subseteq open /\ suspect \subseteq Regions /\ stopped \in BOOLEAN
  BY DEF Init
<1>9. data \in [Holders -> Decoded]
  BY DEF Init, Decoded
<1> QED BY <1>2, <1>3, <1>4, <1>6, <1>7, <1>8, <1>9 DEF TypeOK

(* TypeOK is an invariant of the specification.                            *)
THEOREM TypeCorrect == Spec => []TypeOK
<1>1. Init => TypeOK
  BY InitTyped
<1>2. TypeOK /\ [Next]_vars => TypeOK'
  BY TypeStep
<1> QED BY <1>1, <1>2, PTL DEF Spec

LEMMA InvariantStep ==
    ASSUME SizesFit, IInv, [Next]_vars
    PROVE  IInv'
<1>1. TypeOK'
  BY TypeStep DEF IInv
<1>2. ASSUME NEW h \in Holders, Save(h) PROVE IInv'
  BY <1>1, <1>2, SaveOpenStep, SaveClosedStep, SaveFailsStep DEF Save
<1>3. ASSUME NEW h \in Holders,
             LoadNothing(h) \/ LoadRead(h) \/ LoadFails(h) \/ LoadDecoded(h) \/ Retire(h)
      PROVE  IInv'
  BY <1>1, <1>3, StorageUntouched
     DEF LoadNothing, LoadRead, LoadFails, LoadDecoded, Retire, handleVars, diskVars, ghostVars
<1>4. ASSUME Cleanup \/ UNCHANGED vars PROVE IInv'
  BY <1>1, <1>4, StorageUntouched DEF Cleanup, vars, handleVars, diskVars, ghostVars
<1> QED BY <1>1, <1>2, <1>3, <1>4, AcquireStep, LoadCorruptStep, ReleaseStep, CloseAllStep, CrashStep
        DEF Next

LEMMA InitIInv ==
    ASSUME Init
    PROVE  IInv
<1>1. TypeOK
  BY InitTyped
<1>2. TablesNeverOverlap /\ CleanIsDurable
  BY DEF Init, TablesNeverOverlap, CleanIsDurable
<1>3. EntriesFit
  BY NoEntryFits DEF Init, EntriesFit
<1>4. ReadsBackLastSave
  BY NoEntryFits DEF Init, ReadsBackLastSave, View
<1> QED BY <1>1, <1>2, <1>3, <1>4 DEF IInv

(* However writes fail, regions are closed and the process crashes: tables *)
(* in memory never overlap, and a chunk reads back as last saved unless a  *)
(* crash found the table of its region behind.  Payloads must be shorter   *)
(* than the size field wraps.                                              *)
THEOREM StorageSafe ==
    ASSUME SizesFit
    PROVE  Spec => [](TablesNeverOverlap /\ ReadsBackLastSave)
<1>1. Init => IInv
  BY InitIInv
<1>2. IInv /\ [Next]_vars => IInv'
  BY InvariantStep
<1>3. IInv => TablesNeverOverlap /\ ReadsBackLastSave
  BY DEF IInv
<1> QED BY <1>1, <1>2, <1>3, PTL DEF Spec

(* No two chunks of an open region ever share a sector, and every entry    *)
(* lies behind the header and inside the file: what find_free_sectors      *)
(* hands out never meets a run that is in use.                             *)
THEOREM TablesStayDisjoint ==
    ASSUME SizesFit
    PROVE  Spec => []TablesNeverOverlap
BY StorageSafe, PTL

-----------------------------------------------------------------------------
(***************************************************************************)
(* What the users of the region files get: references are counted exactly, *)
(* closed regions can be opened again, a load reads the last save, and a   *)
(* saved chunk is never taken for a missing or a corrupt one.              *)
(***************************************************************************)

-----------------------------------------------------------------------------
(* How a step may move the holders that use a region.                      *)
LEMMA UsingFinite ==
    ASSUME NEW r
    PROVE  IsFiniteSet(Using(r)) /\ Cardinality(Using(r)) \in Nat
<1>1. Using(r) \in SUBSET Holders
  BY DEF Using
<1> QED BY <1>1, RegionAssumption, FS_Subset, FS_CardinalityType

(* A step that leaves every holder on its side of "idle" keeps the counts, *)
(* if it closes no region.                                                 *)
LEMMA SameUsers ==
    ASSUME TypeOK, ReferencesCounted,
           \A g \in Holders : (phase'[g] # "idle") <=> (phase[g] # "idle"),
           UNCHANGED <<count, stopped>>, open \subseteq open'
    PROVE  ReferencesCounted'
<1>1. \A r : Using(r)' = Using(r)
  BY DEF Using
<1> QED BY <1>1 DEF ReferencesCounted

LEMMA AcquireCounts ==
    ASSUME TypeOK, ReferencesCounted, NEW h \in Holders, AcquireChunk(h)
    PROVE  ReferencesCounted'
<1> DEFINE r == RegionOf[ChunkOf[h]]
<1>1. /\ ~ stopped /\ phase[h] = "idle" /\ open' = open \cup {r}
      /\ count' = [count EXCEPT ![r] = @ + 1]
      /\ phase' = [phase EXCEPT ![h] = IF Exists(header'[ChunkOf[h]]) THEN "acquired" ELSE "loaded"]
  BY DEF AcquireChunk
<1>2. r \in Regions
  BY RegionAssumption
<1>3. phase'[h] # "idle" /\ \A g \in Holders : g # h => phase'[g] = phase[g]
  BY <1>1 DEF TypeOK
<1>4. Using(r)' = Using(r) \cup {h} /\ h \notin Using(r)
  BY <1>1, <1>3 DEF Using
<1>5. \A q : q # r => Using(q)' = Using(q)
  BY <1>1, <1>3 DEF Using
<1>6. Cardinality(Using(r)') = Cardinality(Using(r)) + 1
  BY <1>4, UsingFinite, FS_AddElement
<1>7. count'[r] = count[r] + 1 /\ \A q \in Regions : q # r => count'[q] = count[q]
  BY <1>1, <1>2 DEF TypeOK
<1> HIDE DEF r
<1> QED BY <1>1, <1>5, <1>6, <1>7 DEF ReferencesCounted

LEMMA ReleaseCounts ==
    ASSUME TypeOK, ReferencesCounted, NEW h \in Holders, ReleaseChunk(h)
    PROVE  ReferencesCounted'
<1> DEFINE r == RegionOf[ChunkOf[h]]
<1> SUFFICES ASSUME ~ stopped
             PROVE  \A q \in Regions : /\ count'[q] = Cardinality(Using(q)')
                                       /\ Using(q)' # {} => q \in open'
  BY DEF ReferencesCounted, ReleaseChunk
<1>1. phase[h] = "releasing" /\ phase' = [phase EXCEPT ![h] = "idle"]
  BY DEF ReleaseChunk
<1>2. r \in Regions
  BY RegionAssumption
<1>3. phase'[h] = "idle" /\ \A g \in Holders : g # h => phase'[g] = phase[g]
  BY <1>1 DEF TypeOK
<1>4. Using(r)' = Using(r) \ {h} /\ h \in Using(r)
  BY <1>1, <1>3 DEF Using
<1>5. \A q : q # r => Using(q)' = Using(q)
  BY <1>1, <1>3 DEF Using
<1>6. Cardinality(Using(r)') = Cardinality(Using(r)) - 1 /\ Cardinality(Using(r)) \in Nat
  BY <1>4, UsingFinite, FS_RemoveElement
<1>7. IsFiniteSet(Using(r)') /\ Cardinality(Using(r)') \in Nat
  BY <1>4, UsingFinite, FS_RemoveElement, FS_CardinalityType
<1>8. Cardinality(Using(r)') = 0 => Using(r)' = {}
  BY <1>7, FS_EmptySet
<1>9. r \in open /\ count[r] = Cardinality(Using(r))
  BY <1>2, <1>4 DEF ReferencesCounted
<1>10. count[r] # 0 /\ count[r] - 1 = Cardinality(Using(r)')
  BY <1>6, <1>7, <1>9
<1>11. \/ count[r] - 1 > 0 /\ count' = [count EXCEPT ![r] = count[r] - 1] /\ open' = open
       \/ count[r] - 1 = 0 /\ count' = [count EXCEPT ![r] = 0] /\ open' \in {open, open \ {r}}
  BY <1>9, <1>10 DEF ReleaseChunk
<1>12. count'[r] = Cardinality(Using(r)') /\ \A q \in Regions : q # r => count'[q] = count[q]
  BY <1>2, <1>10, <1>11 DEF TypeOK
<1>13. Using(r)' # {} => r \in open'
  BY <1>8, <1>9, <1>10, <1>11
<1>14. \A q \in Regions : q # r /\ q \in open => q \in open'
  BY <1>11
<1> HIDE DEF r
<1> QED BY <1>5, <1>12, <1>13, <1>14 DEF ReferencesCounted

(* As long as nothing saves the world while it is played: every reference  *)
(* a holder has yet to give back is counted, and holds its region open.    *)
THEOREM ReferencesAreCounted ==
    ASSUME ~ LiveSave
    PROVE  Spec => []ReferencesCounted
<1>1. Init => ReferencesCounted
  <2> SUFFICES ASSUME Init PROVE ReferencesCounted
    OBVIOUS
  <2>1. \A r : Using(r) = {}
    BY DEF Init, Using
  <2> QED BY <2>1, FS_EmptySet DEF Init, ReferencesCounted
<1>2. TypeOK /\ ReferencesCounted /\ [Next]_vars => ReferencesCounted'
  <2> SUFFICES ASSUME TypeOK, ReferencesCounted, [Next]_vars PROVE ReferencesCounted'
    OBVIOUS
  <2>1. ASSUME NEW h \in Holders, LoadNothing(h) \/ LoadRead(h) \/ Retire(h)
        PROVE  ReferencesCounted'
    <3>1. phase[h] # "idle" /\ \E p : p # "idle" /\ phase' = [phase EXCEPT ![h] = p]
      BY <2>1 DEF LoadNothing, LoadRead, Retire
    <3>2. \A g \in Holders : (phase'[g] # "idle") <=> (phase[g] # "idle")
      BY <3>1 DEF TypeOK
    <3> QED BY <2>1, <3>2, SameUsers DEF LoadNothing, LoadRead, Retire, handleVars
  <2>2. ASSUME NEW h \in Holders, LoadFails(h) \/ LoadDecoded(h) \/ LoadCorrupt(h)
        PROVE  ReferencesCounted'
    <3>1. phase[h] # "idle" /\ \E p : p # "idle" /\ phase' = [phase EXCEPT ![h] = p]
      BY <2>2 DEF LoadFails, LoadDecoded, LoadCorrupt
    <3>2. \A g \in Holders : (phase'[g] # "idle") <=> (phase[g] # "idle")
      BY <3>1 DEF TypeOK
    <3> QED BY <2>2, <3>2, SameUsers DEF LoadFails, LoadDecoded, LoadCorrupt, handleVars
  <2>3. ASSUME NEW h \in Holders, Save(h) PROVE ReferencesCounted'
    <3>1. UNCHANGED <<phase, count, stopped>> /\ open \subseteq open'
      BY <2>3 DEF Save, SaveIntoOpenRegion, SaveIntoClosedRegion, SaveFails, WriteChunkData, holderVars
    <3> QED BY <3>1, SameUsers
  <2>4. ASSUME CloseAll \/ Cleanup PROVE ReferencesCounted'
    BY <2>4 DEF CloseAll, Cleanup, ReferencesCounted
  <2>5. ASSUME Crash PROVE ReferencesCounted'
    <3>1. \A r : Using(r)' = {}
      BY <2>5 DEF Crash, Using
    <3> QED BY <2>5, <3>1, FS_EmptySet DEF Crash, ReferencesCounted
  <2>6. ASSUME UNCHANGED vars PROVE ReferencesCounted'
    BY <2>6, SameUsers DEF vars, handleVars, holderVars
  <2> QED BY <2>1, <2>2, <2>3, <2>4, <2>5, <2>6, AcquireCounts, ReleaseCounts DEF Next
<1> QED BY <1>1, <1>2, TypeCorrect, PTL DEF Spec

-----------------------------------------------------------------------------
(* What a reader of region r finds is a table open_region would accept for *)
(* the file as long as it is on disk.  For an open region TablesNeverOverlap *)
(* says this of file_sectors only, which a failed save may have raised.    *)
WholeRegion(r) ==
    \A c, d \in ChunksIn(r) :
        Exists(View(c)) =>
            /\ ValidEntry(View(c), fileLen[r])
            /\ c # d /\ Exists(View(d)) => Disjoint(View(c), View(d))

(* Regions that are open or that a crash never found behind are whole.     *)
ViewsWhole == \A r \in Regions : r \in open \/ r \notin suspect => WholeRegion(r)

LEMMA OpenableIsWhole ==
    ASSUME IInv, ViewsWhole, NEW r \in Regions, CanOpen(r)
    PROVE  WholeRegion(r)
<1>1. CASE r \in open
  BY <1>1 DEF ViewsWhole
<1>2. CASE r \notin open
  <2>1. TableValid(r) /\ \A c \in ChunksIn(r) : View(c) = durable[c]
    BY <1>2 DEF CanOpen, View, ChunksIn
  <2> QED BY <2>1 DEF WholeRegion, TableValid
<1> QED BY <1>1, <1>2

(* acquire_chunk, release_chunk, close_all and the loads that succeed      *)
(* change where the newest table is kept and never what it says.           *)
LEMMA ViewsKept ==
    ASSUME IInv, [Next]_vars, ~ Crash, \A h \in Holders : ~ Save(h) /\ ~ LoadCorrupt(h)
    PROVE  /\ \A c \in Chunks : View(c)' = View(c)
           /\ UNCHANGED <<sector, fileLen, written, suspect>>
<1>1. ASSUME UNCHANGED <<open, header, durable>> PROVE \A c \in Chunks : View(c)' = View(c)
  BY <1>1 DEF View
<1>2. ASSUME NEW h \in Holders, LoadNothing(h) \/ LoadRead(h) \/ LoadFails(h) \/ LoadDecoded(h) \/ Retire(h)
      PROVE  UNCHANGED <<open, header, durable, sector, fileLen, written, suspect>>
  BY <1>2 DEF LoadNothing, LoadRead, LoadFails, LoadDecoded, Retire, handleVars, diskVars, ghostVars
<1>3. ASSUME Cleanup \/ UNCHANGED vars
      PROVE  UNCHANGED <<open, header, durable, sector, fileLen, written, suspect>>
  BY <1>3 DEF Cleanup, vars, handleVars, diskVars, ghostVars
<1>4. ASSUME NEW h \in Holders, AcquireChunk(h)
      PROVE  /\ \A c \in Chunks : View(c)' = View(c)
             /\ UNCHANGED <<sector, fileLen, written, suspect>>
  BY <1>4 DEF AcquireChunk, diskVars, ghostVars, View, OpenedHeader, ChunksIn
<1>5. TypeOK /\ header \in [Chunks -> Entries] /\ \A c \in Chunks : Fits(header[c])
  BY DEF IInv, TypeOK, EntriesFit
<1>6. ASSUME NEW h \in Holders, ReleaseChunk(h)
      PROVE  /\ \A c \in Chunks : View(c)' = View(c)
             /\ UNCHANGED <<sector, fileLen, written, suspect>>
  <2> DEFINE r == RegionOf[ChunkOf[h]]
  <2>1. UNCHANGED <<sector, fileLen, written, suspect>>
    BY <1>6 DEF ReleaseChunk
  <2>2. CASE UNCHANGED <<open, header, durable>>
    BY <1>1, <2>1, <2>2
  <2>3. CASE /\ IF r \in dirty THEN WriteHeader(header, written, ChunksIn(r))
                               ELSE UNCHANGED <<durable, committed>>
             /\ r \in open /\ open' = open \ {r} /\ header' = Closed(header, {r})
    <3>1. \A c \in Chunks : durable'[c] = IF c \in ChunksIn(r) THEN header[c] ELSE durable[c]
      <4>1. CASE r \in dirty
        BY <1>5, <2>3, <4>1, WrittenTable
      <4>2. CASE r \notin dirty
        BY <2>3, <4>2 DEF IInv, CleanIsDurable, ChunksIn
      <4> QED BY <4>1, <4>2
    <3>2. \A c \in Chunks : header'[c] = IF c \in ChunksIn(r) THEN NoEntry ELSE header[c]
      BY <2>3 DEF Closed, ChunksIn
    <3> QED BY <2>1, <2>3, <3>1, <3>2 DEF View, ChunksIn
  <2>4. CASE /\ r \in dirty /\ UNCHANGED <<open, header>>
             /\ \E landed \in SUBSET ChunksIn(r) : WriteHeader(header, written, landed)
    <3>1. PICK landed \in SUBSET ChunksIn(r) : WriteHeader(header, written, landed)
      BY <2>4
    <3>2. \A c \in Chunks : c \notin ChunksIn(r) => durable'[c] = durable[c]
      BY <1>5, <3>1, WrittenTable
    <3> QED BY <1>5, <2>1, <2>4, <3>2 DEF View, ChunksIn, TypeOK
  <2> QED BY <1>6, <2>2, <2>3, <2>4 DEF ReleaseChunk, handleVars
<1>7. ASSUME CloseAll
      PROVE  /\ \A c \in Chunks : View(c)' = View(c)
             /\ UNCHANGED <<sector, fileLen, written, suspect>>
  <2>1. UNCHANGED <<sector, fileLen, written, suspect>>
    BY <1>7 DEF CloseAll
  <2>2. PICK failed \in SUBSET dirty :
            /\ \E landed \in SUBSET {c \in Chunks : RegionOf[c] \in failed} :
                   WriteHeader(header, written,
                               {c \in Chunks : RegionOf[c] \in dirty \ failed} \cup landed)
            /\ open' = failed
            /\ header' = Closed(header, Regions \ failed)
    BY <1>7 DEF CloseAll
  <2>3. PICK landed \in SUBSET {c \in Chunks : RegionOf[c] \in failed} :
            WriteHeader(header, written,
                        {c \in Chunks : RegionOf[c] \in dirty \ failed} \cup landed)
    BY <2>2
  <2>4. \A c \in Chunks : RegionOf[c] \notin failed =>
            durable'[c] = IF RegionOf[c] \in dirty THEN header[c] ELSE durable[c]
    BY <1>5, <2>3, WrittenTable
  <2>5. \A c \in Chunks : RegionOf[c] \in failed => header'[c] = header[c]
    BY <2>2 DEF Closed
  <2> QED BY <1>5, <2>1, <2>2, <2>4, <2>5 DEF View, IInv, TypeOK, CleanIsDurable
<1> QED BY <1>1, <1>2, <1>3, <1>4, <1>6, <1>7 DEF Next

(* A save replaces the entry of its chunk, and nothing else, in what is    *)
(* read; if it fails, nothing at all.  The file covers the new entry.      *)
LEMMA SavedViews ==
    ASSUME IInv, SizesFit, NEW h \in Holders, NEW n \in Sizes,
           NEW off \in FirstDataSector .. LastSector,
           SaveIntoOpenRegion(h, n, off) \/ SaveIntoClosedRegion(h, n, off)
    PROVE  /\ Placed(h, n, off) /\ WriteChunkData(h, n, off)
           /\ \A c \in Chunks : View(c)' = IF c = ChunkOf[h] THEN [off |-> off, size |-> n] ELSE View(c)
<1> DEFINE x == ChunkOf[h]
           r == RegionOf[x]
           P == PendingHeader(h, n, off)
<1>1. x \in Chunks /\ r \in Regions
  BY RegionAssumption
<1>2. Placed(h, n, off) /\ WriteChunkData(h, n, off)
  BY DEF SaveIntoOpenRegion, SaveIntoClosedRegion
<1>3. /\ P[x] = [off |-> off, size |-> n]
      /\ \A c \in ChunksIn(r) : c # x => P[c] = View(c)
      /\ \A c \in Chunks : RegionOf[c] # r => P[c] = header[c]
      /\ \A c \in Chunks : Fits(P[c])
  BY <1>2, SavedTable
<1>4. P \in [Chunks -> Entries] /\ TypeOK
  BY <1>2, SaveTyped DEF IInv
<1>5. CASE SaveIntoOpenRegion(h, n, off)
  <2>1. r \in open /\ header' = P /\ UNCHANGED <<open, durable>>
    BY <1>5 DEF SaveIntoOpenRegion
  <2> HIDE DEF P
  <2> QED BY <1>1, <1>2, <1>3, <2>1 DEF View, ChunksIn
<1>6. CASE SaveIntoClosedRegion(h, n, off)
  <2>1. PICK landed \in SUBSET ChunksIn(r) :
            /\ WriteHeader(P, PendingVersions(h), landed)
            /\ \/ landed = ChunksIn(r) /\ UNCHANGED <<open, header>>
               \/ open' = open \cup {r} /\ header' = P
    BY <1>6 DEF SaveIntoClosedRegion
  <2>2. \A c \in Chunks : durable'[c] = IF c \in landed THEN P[c] ELSE durable[c]
    <3> HIDE DEF P
    <3> QED BY <1>3, <1>4, <2>1, WrittenTable
  <2>3. r \notin open
    BY <1>6 DEF SaveIntoClosedRegion
  <2> HIDE DEF P
  <2> QED BY <1>1, <1>2, <1>3, <2>1, <2>2, <2>3 DEF View, ChunksIn
<1> QED BY <1>2, <1>5, <1>6

LEMMA SaveFailsKeepsViews ==
    ASSUME IInv, NEW h \in Holders, NEW n \in Sizes, NEW off \in FirstDataSector .. LastSector,
           SaveFails(h, n, off)
    PROVE  /\ \A c \in Chunks : View(c)' = View(c)
           /\ UNCHANGED <<open, written, suspect>>
BY DEF SaveFails, ghostVars, View

(* Files never shrink.                                                     *)
LEMMA FilesGrow ==
    ASSUME TypeOK, NEW h \in Holders, NEW n \in Sizes, NEW off \in FirstDataSector .. LastSector,
           WriteChunkData(h, n, off) \/ SaveFails(h, n, off)
    PROVE  /\ \A q \in Regions : fileLen'[q] \in Nat /\ fileLen'[q] >= fileLen[q]
           /\ WriteChunkData(h, n, off) => fileLen'[RegionOf[ChunkOf[h]]] >= off + n
<1> DEFINE r == RegionOf[ChunkOf[h]]
<1>1. r \in Regions /\ n \in Nat /\ off \in Nat /\ fileLen \in [Regions -> Nat]
  BY RegionAssumption, FirstDataSectorAssumption DEF TypeOK
<1>2. CASE WriteChunkData(h, n, off)
  <2>1. fileLen' = [fileLen EXCEPT ![r] = AtLeast(@, off + n)]
    BY <1>2 DEF WriteChunkData
  <2> HIDE DEF r
  <2>2. QED BY <1>1, <2>1 DEF AtLeast, r
<1>3. CASE SaveFails(h, n, off) /\ ~ WriteChunkData(h, n, off)
  <2>1. PICK k \in 1 .. n : fileLen' = [fileLen EXCEPT ![r] = AtLeast(@, off + k)]
    BY <1>3 DEF SaveFails
  <2>2. k \in Nat
    BY <1>1
  <2> HIDE DEF r
  <2> QED BY <1>1, <1>3, <2>1, <2>2 DEF AtLeast
<1> QED BY <1>2, <1>3

(* The file of a region may grow under a table that stays.                 *)
LEMMA StaysWhole ==
    ASSUME IInv, NEW r \in Regions, WholeRegion(r), fileLen'[r] \in Nat, fileLen'[r] >= fileLen[r],
           \A c \in ChunksIn(r) : View(c)' = View(c)
    PROVE  WholeRegion(r)'
<1>1. \A c \in ChunksIn(r) : View(c).off \in Nat /\ View(c).size \in Nat
  BY ViewFits DEF ChunksIn, Entries
<1>2. fileLen[r] \in Nat
  BY DEF IInv, TypeOK
<1>3. \A c \in ChunksIn(r) : ValidEntry(View(c), fileLen[r]) => ValidEntry(View(c), fileLen'[r])
  BY <1>1, <1>2 DEF ValidEntry, End
<1>4. ChunksIn(r)' = ChunksIn(r)
  BY DEF ChunksIn
<1> QED BY <1>3, <1>4 DEF WholeRegion

LEMMA SaveStaysWhole ==
    ASSUME IInv, SizesFit, ViewsWhole, NEW h \in Holders, NEW n \in Sizes,
           NEW off \in FirstDataSector .. LastSector,
           SaveIntoOpenRegion(h, n, off) \/ SaveIntoClosedRegion(h, n, off)
    PROVE  WholeRegion(RegionOf[ChunkOf[h]])'
<1> DEFINE x == ChunkOf[h]
           r == RegionOf[x]
           new == [off |-> off, size |-> n]
<1>1. /\ x \in Chunks /\ r \in Regions /\ n \in Nat \ {0} /\ off \in Nat
      /\ off >= FirstDataSector
  BY RegionAssumption, FirstDataSectorAssumption
<1>2. /\ Placed(h, n, off) /\ WriteChunkData(h, n, off)
      /\ \A c \in Chunks : View(c)' = IF c = x THEN new ELSE View(c)
  BY SavedViews
<1>3. WholeRegion(r)
  BY <1>1, <1>2, OpenableIsWhole DEF Placed
<1>4. fileLen'[r] \in Nat /\ fileLen'[r] >= fileLen[r] /\ fileLen'[r] >= off + n /\ fileLen[r] \in Nat
  BY <1>1, <1>2, FilesGrow DEF IInv, TypeOK
<1>5. \A c \in ChunksIn(r) : Exists(View(c)) =>
          /\ View(c) \in Entries
          /\ ValidEntry(View(c), fileLen[r])
          /\ off + n <= View(c).off \/ End(View(c)) <= off
  BY <1>2, <1>3, PlacedIsFree, ViewFits DEF WholeRegion, ChunksIn
<1>6. ValidEntry(new, fileLen'[r])
  BY <1>1, <1>4 DEF ValidEntry, End
<1>7. \A c \in ChunksIn(r) : Exists(View(c)) =>
          /\ ValidEntry(View(c), fileLen'[r])
          /\ Disjoint(new, View(c)) /\ Disjoint(View(c), new)
  <2> SUFFICES ASSUME NEW c \in ChunksIn(r), Exists(View(c))
               PROVE  /\ ValidEntry(View(c), fileLen'[r])
                      /\ Disjoint(new, View(c)) /\ Disjoint(View(c), new)
    OBVIOUS
  <2>1. PICK e \in Entries : e = View(c)
    BY <1>5
  <2>2. /\ ValidEntry(e, fileLen[r]) /\ (off + n <= e.off \/ End(e) <= off)
        /\ e.off \in Nat /\ e.size \in Nat
    BY <1>5, <2>1 DEF Entries
  <2>3. ValidEntry(e, fileLen'[r])
    BY <1>4, <2>2 DEF ValidEntry, End
  <2>4. Disjoint(new, e) /\ Disjoint(e, new)
    BY <2>2 DEF Disjoint, End
  <2> QED BY <2>1, <2>3, <2>4
<1> HIDE DEF new
<1>8. \A c, d \in ChunksIn(r) :
          Exists(View(c)') =>
            /\ ValidEntry(View(c)', fileLen'[r])
            /\ c # d /\ Exists(View(d)') => Disjoint(View(c)', View(d)')
  BY <1>2, <1>3, <1>6, <1>7 DEF ChunksIn, WholeRegion
<1> QED BY <1>8 DEF WholeRegion, ChunksIn

LEMMA WholeStep ==
    ASSUME SizesFit, IInv, ViewsWhole, [Next]_vars
    PROVE  ViewsWhole'
<1> SUFFICES ASSUME NEW q \in Regions, q \in open' \/ q \notin suspect'
             PROVE  WholeRegion(q)'
  BY DEF ViewsWhole
<1>1. fileLen[q] \in Nat
  BY DEF IInv, TypeOK
<1>2. ASSUME NEW h \in Holders, Save(h) PROVE WholeRegion(q)'
  <2>1. PICK n \in Sizes, off \in FirstDataSector .. LastSector :
            \/ SaveIntoOpenRegion(h, n, off)
            \/ SaveIntoClosedRegion(h, n, off)
            \/ SaveFails(h, n, off)
    BY <1>2 DEF Save
  <2>2. CASE SaveFails(h, n, off)
    <3>1. WholeRegion(q)
      BY <2>2, SaveFailsKeepsViews DEF ViewsWhole
    <3> QED BY <2>2, <3>1, SaveFailsKeepsViews, FilesGrow, StaysWhole DEF IInv, ChunksIn
  <2>3. CASE SaveIntoOpenRegion(h, n, off) \/ SaveIntoClosedRegion(h, n, off)
    <3>1. CASE q = RegionOf[ChunkOf[h]]
      BY <2>3, <3>1, SaveStaysWhole
    <3>2. CASE q # RegionOf[ChunkOf[h]]
      <4>1. (q \in open' <=> q \in open) /\ suspect' = suspect
        BY <2>3, <3>2 DEF SaveIntoOpenRegion, SaveIntoClosedRegion, WriteChunkData
      <4>2. WholeRegion(q)
        BY <4>1 DEF ViewsWhole
      <4>3. \A c \in ChunksIn(q) : View(c)' = View(c)
        BY <2>3, <3>2, SavedViews DEF ChunksIn
      <4>4. fileLen'[q] \in Nat /\ fileLen'[q] >= fileLen[q]
        BY <2>3, FilesGrow, SavedViews DEF IInv
      <4> QED BY <4>2, <4>3, <4>4, StaysWhole
    <3> QED BY <3>1, <3>2
  <2> QED BY <2>1, <2>2, <2>3
<1>3. ASSUME NEW h \in Holders, LoadCorrupt(h) PROVE WholeRegion(q)'
  <2> DEFINE x == ChunkOf[h]
             r == RegionOf[x]
  <2>1. x \in Chunks /\ r \in open /\ header' = [header EXCEPT ![x] = NoEntry]
        /\ UNCHANGED <<open, fileLen, suspect>>
    BY <1>3, RegionAssumption DEF LoadCorrupt
  <2>2. PICK landed \in SUBSET ChunksIn(r) :
            durable' = [c \in Chunks |->
                IF c \in landed THEN Stored([header EXCEPT ![x] = NoEntry][c]) ELSE durable[c]]
    BY <1>3 DEF LoadCorrupt, WriteHeader
  <2>3. \A c \in Chunks : View(c)' = IF c = x THEN NoEntry ELSE View(c)
    BY <2>1, <2>2 DEF View, ChunksIn, IInv, TypeOK
  <2>4. WholeRegion(q)
    BY <2>1 DEF ViewsWhole
  <2> QED BY <2>1, <2>3, <2>4, NoEntryFits DEF WholeRegion, ChunksIn
<1>4. ASSUME Crash PROVE WholeRegion(q)'
  <2>1. open' = {} /\ suspect' = suspect \cup dirty /\ UNCHANGED <<durable, fileLen>>
    BY <1>4 DEF Crash, diskVars
  <2>2. \A c \in ChunksIn(q) : View(c)' = View(c)
    BY <2>1 DEF View, IInv, CleanIsDurable, ChunksIn
  <2>3. WholeRegion(q)
    BY <2>1 DEF ViewsWhole
  <2> QED BY <1>1, <2>1, <2>2, <2>3, StaysWhole
<1>5. ASSUME ~ Crash, \A h \in Holders : ~ Save(h) /\ ~ LoadCorrupt(h) PROVE WholeRegion(q)'
  <2>1. (\A c \in ChunksIn(q) : View(c)' = View(c)) /\ UNCHANGED <<fileLen, suspect>>
    BY <1>5, ViewsKept DEF ChunksIn
  <2>2. WholeRegion(q)
    <3>1. CASE q \in open' /\ q \notin open
      <4>1. PICK h \in Holders : AcquireChunk(h)
        <5>1. ASSUME NEW h \in Holders, ReleaseChunk(h) PROVE FALSE
          BY <3>1, <5>1 DEF ReleaseChunk, handleVars
        <5>2. ASSUME NEW h \in Holders, LoadNothing(h) \/ LoadRead(h) \/ LoadFails(h) \/ LoadDecoded(h) \/ Retire(h)
              PROVE  FALSE
          BY <3>1, <5>2 DEF LoadNothing, LoadRead, LoadFails, LoadDecoded, Retire, handleVars
        <5>3. ~ Cleanup /\ ~ UNCHANGED vars
          BY <3>1 DEF Cleanup, vars, handleVars
        <5>4. CloseAll => open' \subseteq dirty
          BY DEF CloseAll
        <5>5. ~ CloseAll
          BY <3>1, <5>4 DEF IInv, TypeOK
        <5> QED BY <1>5, <5>1, <5>2, <5>3, <5>5 DEF Next
      <4>2. q = RegionOf[ChunkOf[h]] /\ CanOpen(q)
        BY <3>1, <4>1 DEF AcquireChunk
      <4> QED BY <4>2, OpenableIsWhole
    <3>2. CASE q \in open \/ q \notin suspect
      BY <3>2 DEF ViewsWhole
    <3> QED BY <2>1, <3>1, <3>2
  <2> QED BY <1>1, <2>1, <2>2, StaysWhole
<1> QED BY <1>2, <1>3, <1>4, <1>5

(* open_region accepts every file the manager leaves behind, after any     *)
(* number of failed saves and failed table writes, unless a crash found    *)
(* the table behind: the invariant is that what a reader finds fits the    *)
(* file on disk, not only the length the handle remembers.                 *)
THEOREM RegionsAlwaysReopen ==
    ASSUME SizesFit
    PROVE  Spec => []RegionsReopen
<1>1. Init => IInv /\ ViewsWhole
  <2> SUFFICES ASSUME Init PROVE ViewsWhole
    BY InitIInv
  <2>1. \A c \in Chunks : ~ Exists(View(c))
    BY NoEntryFits DEF Init, View
  <2> QED BY <2>1 DEF ViewsWhole, WholeRegion, ChunksIn
<1>2. IInv /\ ViewsWhole /\ [Next]_vars => (IInv /\ ViewsWhole)'
  BY InvariantStep, WholeStep
<1>3. IInv /\ ViewsWhole => RegionsReopen
  <2> SUFFICES ASSUME ViewsWhole, NEW r \in Regions, r \notin open, r \notin suspect
               PROVE  TableValid(r)
    BY DEF RegionsReopen
  <2>1. \A c \in ChunksIn(r) : View(c) = durable[c]
    BY DEF View, ChunksIn
  <2> QED BY <2>1 DEF ViewsWhole, WholeRegion, TableValid
<1> QED BY <1>1, <1>2, <1>3, PTL DEF Spec

-----------------------------------------------------------------------------
(* A position has one holder at a time that reads or writes its chunk; the *)
(* holders it had before have only their release left.                     *)
OneLiveHolder ==
    \A g, h \in Holders : ChunkOf[g] = ChunkOf[h] /\ Live(g) /\ Live(h) => g = h

(* Only acquire_chunk makes a holder live.                                 *)
LEMMA LiveOnlyByAcquire ==
    ASSUME TypeOK, [Next]_vars
    PROVE  \A g \in Holders : Live(g)' /\ ~ Live(g) => AcquireChunk(g)
<1>1. ASSUME NEW h \in Holders, AcquireChunk(h), NEW g \in Holders, Live(g)', ~ Live(g)
      PROVE  g = h
  BY <1>1 DEF AcquireChunk, Live, TypeOK
<1>2. ASSUME NEW h \in Holders, LoadNothing(h) \/ LoadRead(h) \/ LoadFails(h)
      PROVE  \A g \in Holders : Live(g)' => Live(g)
  BY <1>2 DEF LoadNothing, LoadRead, LoadFails, Live, TypeOK
<1>3. ASSUME NEW h \in Holders, LoadDecoded(h) \/ LoadCorrupt(h)
      PROVE  \A g \in Holders : Live(g)' => Live(g)
  BY <1>3 DEF LoadDecoded, LoadCorrupt, Live, TypeOK
<1>4. ASSUME NEW h \in Holders, Retire(h) \/ ReleaseChunk(h)
      PROVE  \A g \in Holders : Live(g)' => Live(g)
  BY <1>4 DEF Retire, ReleaseChunk, Live, TypeOK
<1>5. ASSUME NEW h \in Holders, Save(h)
      PROVE  \A g \in Holders : Live(g)' => Live(g)
  BY <1>5 DEF Save, SaveIntoOpenRegion, SaveIntoClosedRegion, SaveFails, WriteChunkData, holderVars, Live
<1>6. CloseAll \/ Cleanup \/ UNCHANGED vars => \A g \in Holders : Live(g)' => Live(g)
  BY DEF CloseAll, Cleanup, vars, holderVars, Live
<1>7. Crash => \A g \in Holders : ~ Live(g)'
  BY DEF Crash, Live
<1> QED BY <1>1, <1>2, <1>3, <1>4, <1>5, <1>6, <1>7 DEF Next

LEMMA OneLiveStep ==
    ASSUME TypeOK, OneLiveHolder, [Next]_vars
    PROVE  OneLiveHolder'
<1> SUFFICES ASSUME NEW g \in Holders, NEW h \in Holders, ChunkOf[g] = ChunkOf[h],
                    Live(g)', Live(h)', g # h
             PROVE  FALSE
  BY DEF OneLiveHolder
<1>1. ASSUME NEW f \in Holders, AcquireChunk(f), NEW k \in Holders, ChunkOf[k] = ChunkOf[f], k # f
      PROVE  ~ Live(k)'
  BY <1>1 DEF AcquireChunk, Live, TypeOK
<1>2. CASE Live(g) /\ Live(h)
  BY <1>2 DEF OneLiveHolder
<1>3. CASE ~ Live(g)
  BY <1>1, <1>3, LiveOnlyByAcquire
<1>4. CASE ~ Live(h)
  BY <1>1, <1>4, LiveOnlyByAcquire
<1> QED BY <1>2, <1>3, <1>4

(* A holder between the read and the decode is left alone by every step    *)
(* that is not its own: nobody else saves or clears its chunk.             *)
LEMMA DecodingUndisturbed ==
    ASSUME SizesFit, IInv, OneLiveHolder, [Next]_vars, NEW g \in Holders,
           phase'[g] = "decoding", ~ LoadRead(g)
    PROVE  /\ phase[g] = "decoding"
           /\ data'[g] = data[g] /\ expected'[g] = expected[g]
           /\ written'[ChunkOf[g]] = written[ChunkOf[g]]
           /\ suspect' = suspect
           /\ \A h \in Holders : Save(h) => ChunkOf[h] # ChunkOf[g]
<1> DEFINE Undisturbed == /\ phase[g] = "decoding"
                          /\ data'[g] = data[g] /\ expected'[g] = expected[g]
                          /\ written'[ChunkOf[g]] = written[ChunkOf[g]]
                          /\ suspect' = suspect
<1>0. TypeOK /\ ChunkOf[g] \in Chunks
  BY RegionAssumption DEF IInv
<1>1. ASSUME NEW h \in Holders, AcquireChunk(h) \/ LoadNothing(h) \/ Retire(h) PROVE Undisturbed
  BY <1>0, <1>1 DEF AcquireChunk, LoadNothing, Retire, TypeOK, ghostVars
<1>2. ASSUME NEW h \in Holders, LoadRead(h) PROVE Undisturbed
  <2>1. g # h
    BY <1>2
  <2>2. /\ phase' = [phase EXCEPT ![h] = "decoding"]
        /\ expected' = [expected EXCEPT ![h] = header[ChunkOf[h]]]
        /\ \E x : data' = [data EXCEPT ![h] = x]
        /\ UNCHANGED <<written, suspect>>
    BY <1>2 DEF LoadRead, ghostVars
  <2> QED BY <1>0, <2>1, <2>2 DEF TypeOK
<1>3. ASSUME NEW h \in Holders, LoadFails(h) \/ LoadDecoded(h) PROVE Undisturbed
  BY <1>0, <1>3 DEF LoadFails, LoadDecoded, TypeOK, ghostVars
<1>4. ASSUME NEW h \in Holders, LoadCorrupt(h) PROVE Undisturbed
  <2>1. phase[h] = "decoding" /\ phase'[h] # "decoding" /\ \A k \in Holders : k # h => phase'[k] = phase[k]
    BY <1>0, <1>4 DEF LoadCorrupt, TypeOK
  <2>2. g # h /\ phase[g] = "decoding" /\ ChunkOf[g] # ChunkOf[h]
    BY <2>1 DEF OneLiveHolder, Live
  <2>3. written'[ChunkOf[g]] = written[ChunkOf[g]] /\ expected'[g] = expected[g]
    BY <1>0, <1>4, <2>2 DEF LoadCorrupt, TypeOK
  <2> QED BY <1>4, <2>2, <2>3 DEF LoadCorrupt
<1>5. ASSUME NEW h \in Holders, Save(h) PROVE Undisturbed /\ ChunkOf[h] # ChunkOf[g]
  <2>1. PICK n \in Sizes, off \in FirstDataSector .. LastSector :
            \/ SaveIntoOpenRegion(h, n, off)
            \/ SaveIntoClosedRegion(h, n, off)
            \/ SaveFails(h, n, off)
    BY <1>5 DEF Save
  <2>2. phase[h] = "loaded" /\ UNCHANGED <<phase, data, expected, suspect>>
    BY <2>1 DEF SaveIntoOpenRegion, SaveIntoClosedRegion, SaveFails, WriteChunkData, Placed,
                holderVars, ghostVars
  <2>3. ChunkOf[h] # ChunkOf[g]
    BY <2>2 DEF OneLiveHolder, Live
  <2>4. written'[ChunkOf[g]] = written[ChunkOf[g]]
    BY <1>0, <2>1, <2>3, SavedViews, SavedPayload, SaveFailsKeepsViews
  <2> QED BY <2>2, <2>3, <2>4
<1>6. ASSUME NEW h \in Holders, ReleaseChunk(h) PROVE Undisturbed
  BY <1>0, <1>6 DEF ReleaseChunk, TypeOK
<1>7. CloseAll \/ Cleanup \/ UNCHANGED vars => Undisturbed
  BY DEF CloseAll, Cleanup, vars, holderVars, ghostVars
<1>8. ~ Crash
  BY DEF Crash
<1>9. Undisturbed
  BY <1>1, <1>2, <1>3, <1>4, <1>5, <1>6, <1>7, <1>8 DEF Next
<1> QED BY <1>5, <1>9

(* load_chunk reads what was last saved.                                   *)
LEMMA ReadsLastSave ==
    ASSUME IInv, NEW h \in Holders, LoadRead(h), RegionOf[ChunkOf[h]] \notin suspect
    PROVE  data'[h] = <<ChunkOf[h], written[ChunkOf[h]]>>
<1> DEFINE c == ChunkOf[h]
           r == RegionOf[c]
           e == header[c]
           v == written[c]
           found == {x \in Chunks \X (1 .. MaxVersion) : Holds(e, r, x[1], x[2])}
<1>1. c \in Chunks
  BY RegionAssumption
<1>2. r \in open /\ Exists(e) /\ ValidEntry(e, fileSectors[r])
      /\ data' = [data EXCEPT ![h] = IF found = {} THEN Garbage ELSE CHOOSE x \in found : TRUE]
  BY DEF LoadRead
<1>3. View(c) = e /\ e \in Entries
  BY <1>1, <1>2 DEF View, IInv, TypeOK
<1>4. v # 0 /\ Holds(e, r, c, v) /\ v \in 1 .. MaxVersion
  <2>1. v \in 0 .. MaxVersion
    BY <1>1 DEF IInv, TypeOK
  <2>2. v # 0 /\ Holds(e, r, c, v)
    BY <1>1, <1>2, <1>3 DEF IInv, ReadsBackLastSave
  <2> QED BY <2>1, <2>2, RegionAssumption
<1>5. <<c, v>> \in found
  BY <1>1, <1>4
<1>6. ASSUME NEW x \in found PROVE x = <<c, v>>
  <2>1. 0 \in 0 .. (e.size - 1)
    BY <1>2, <1>3 DEF ValidEntry, Entries
  <2>2. Part(x[1], x[2], 0, e.size) = Part(c, v, 0, e.size)
    BY <1>4, <2>1 DEF Holds
  <2>3. x[1] = c /\ x[2] = v
    BY <2>2 DEF Part
  <2> QED BY <2>3
<1>7. (CHOOSE x \in found : TRUE) = <<c, v>>
  BY <1>5, <1>6
<1> HIDE DEF found
<1>8. found # {}
  BY <1>5
<1> QED BY <1>2, <1>7, <1>8 DEF IInv, TypeOK, found

(* What load_chunk gives to the decoder is the chunk's last save, although *)
(* it decodes without the lock: until the holder goes on no step of any    *)
(* other holder saves or clears its chunk.                                 *)
THEOREM LoadsAreCurrent ==
    ASSUME SizesFit
    PROVE  Spec => []LoadsLastSave
<1> DEFINE Inv == IInv /\ OneLiveHolder /\ LoadsLastSave
<1>1. Init => Inv
  <2> SUFFICES ASSUME Init PROVE OneLiveHolder /\ LoadsLastSave
    BY InitIInv
  <2> QED BY DEF Init, OneLiveHolder, LoadsLastSave, Live
<1>2. Inv /\ [Next]_vars => Inv'
  <2> SUFFICES ASSUME Inv, [Next]_vars PROVE Inv'
    OBVIOUS
  <2>1. IInv' /\ OneLiveHolder'
    BY InvariantStep, OneLiveStep DEF IInv
  <2>2. ASSUME NEW g \in Holders, phase'[g] = "decoding", RegionOf[ChunkOf[g]] \notin suspect'
        PROVE  data'[g] = <<ChunkOf[g], written'[ChunkOf[g]]>>
    <3>1. CASE LoadRead(g)
      BY <2>2, <3>1, ReadsLastSave DEF LoadRead, ghostVars
    <3>2. CASE ~ LoadRead(g)
      BY <2>2, <3>2, DecodingUndisturbed DEF LoadsLastSave
    <3> QED BY <3>1, <3>2
  <2> QED BY <2>1, <2>2 DEF LoadsLastSave
<1>3. Inv => LoadsLastSave
  OBVIOUS
<1> QED BY <1>1, <1>2, <1>3, PTL DEF Spec

-----------------------------------------------------------------------------
(* A payload found corrupt was no copy of its chunk when it was read, and  *)
(* does not become one while it is decoded.                                *)
CorruptIsCorrupt ==
    \A h \in Holders : phase[h] = "decoding" =>
        /\ Fits(expected[h]) /\ Exists(expected[h])
        /\ data[h] = Garbage => \A v \in 1 .. MaxVersion :
               ~ Holds(expected[h], RegionOf[ChunkOf[h]], ChunkOf[h], v)

(* A save of another chunk makes no copy of this one.                      *)
LEMMA NoCopyAppears ==
    ASSUME TypeOK, NEW h \in Holders, Save(h), NEW d \in Chunks, d # ChunkOf[h],
           NEW e \in Entries, Fits(e), Exists(e), NEW v \in Nat,
           Holds(e, RegionOf[d], d, v)'
    PROVE  Holds(e, RegionOf[d], d, v)
<1> SUFFICES ASSUME NEW i \in 0 .. (e.size - 1)
             PROVE  sector[RegionOf[d]][e.off + i] = Part(d, v, i, e.size)
  BY DEF Holds
<1> DEFINE x == ChunkOf[h]
           r == RegionOf[x]
           q == RegionOf[d]
           s == e.off + i
<1>1. x \in Chunks /\ r \in Regions /\ q \in Regions
  BY RegionAssumption
<1>2. e.size \in Nat /\ i \in Nat /\ s \in FirstDataSector .. LastSector
  BY RegionAssumption, FirstDataSectorAssumption DEF Fits, Entries, End
<1>3. sector'[q][s] = Part(d, v, i, e.size)
  BY DEF Holds
<1>4. Part(d, v, i, e.size) # Garbage
  <2>1. Part(d, v, i, e.size) \in [chunk : Chunks, version : Nat, part : Nat, of : Nat]
    BY <1>2 DEF Part
  <2> QED BY <2>1, GarbageAssumption
<1>5. \A w, k, n : Part(d, v, i, e.size) # Part(x, w, k, n)
  BY DEF Part
<1>6. PICK n \in Sizes, off \in FirstDataSector .. LastSector :
          \/ SaveIntoOpenRegion(h, n, off)
          \/ SaveIntoClosedRegion(h, n, off)
          \/ SaveFails(h, n, off)
  BY DEF Save
<1>7. CASE SaveIntoOpenRegion(h, n, off) \/ SaveIntoClosedRegion(h, n, off)
  <2>1. sector' = [sector EXCEPT ![r] = [t \in DOMAIN @ |->
            IF t \in off .. (off + n - 1) THEN Part(x, version[x] + 1, t - off, n) ELSE @[t]]]
    BY <1>7 DEF SaveIntoOpenRegion, SaveIntoClosedRegion, WriteChunkData
  <2>2. \/ sector'[q][s] = sector[q][s]
        \/ sector'[q][s] = Part(x, version[x] + 1, s - off, n)
    <3> HIDE DEF s
    <3> QED BY <1>1, <1>2, <2>1 DEF TypeOK
  <2> QED BY <1>3, <1>5, <2>2
<1>8. CASE SaveFails(h, n, off)
  <2>1. PICK k \in 1 .. n : sector' = [sector EXCEPT ![r] = [t \in DOMAIN @ |->
            IF t \in off .. (off + k - 1) THEN Garbage ELSE @[t]]]
    BY <1>8 DEF SaveFails
  <2>2. sector'[q][s] = sector[q][s] \/ sector'[q][s] = Garbage
    <3> HIDE DEF s
    <3> QED BY <1>1, <1>2, <2>1 DEF TypeOK
  <2> QED BY <1>3, <1>4, <2>2
<1> QED BY <1>6, <1>7, <1>8

LEMMA ReadCorrupt ==
    ASSUME IInv, NEW h \in Holders, LoadRead(h)
    PROVE  /\ Fits(expected'[h]) /\ Exists(expected'[h]) /\ sector' = sector
           /\ data'[h] = Garbage => \A v \in 1 .. MaxVersion :
                  ~ Holds(expected'[h], RegionOf[ChunkOf[h]], ChunkOf[h], v)
<1> DEFINE c == ChunkOf[h]
           r == RegionOf[c]
           e == header[c]
           found == {x \in Chunks \X (1 .. MaxVersion) : Holds(e, r, x[1], x[2])}
<1>1. c \in Chunks
  BY RegionAssumption
<1>2. /\ Exists(e) /\ sector' = sector
      /\ expected' = [expected EXCEPT ![h] = e]
      /\ data' = [data EXCEPT ![h] = IF found = {} THEN Garbage ELSE CHOOSE x \in found : TRUE]
  BY DEF LoadRead, diskVars
<1>3. expected'[h] = e
  BY <1>2 DEF IInv, TypeOK
<1>4. Fits(e)
  BY <1>1 DEF IInv, EntriesFit
<1>5. data'[h] = Garbage => found = {}
  <2>1. found # {} => (CHOOSE x \in found : TRUE) \in Chunks \X (1 .. MaxVersion)
    <3>1. found # {} => (CHOOSE x \in found : TRUE) \in found
      <4> HIDE DEF found
      <4> QED OBVIOUS
    <3> QED BY <3>1
  <2>2. \A x \in Chunks \X (1 .. MaxVersion) : x # Garbage
    <3>1. \A x \in Chunks \X (1 .. MaxVersion) : x \in Chunks \X Nat
      OBVIOUS
    <3> QED BY <3>1, GarbageAssumption
  <2> HIDE DEF found
  <2> QED BY <1>2, <2>1, <2>2 DEF IInv, TypeOK
<1>6. found = {} => \A v \in 1 .. MaxVersion : ~ Holds(e, r, c, v)
  <2> SUFFICES ASSUME NEW v \in 1 .. MaxVersion, Holds(e, r, c, v) PROVE <<c, v>> \in found
    OBVIOUS
  <2> QED BY <1>1
<1> HIDE DEF found, e
<1> QED BY <1>2, <1>3, <1>4, <1>5, <1>6

LEMMA SectorsOnlyBySave ==
    ASSUME IInv, [Next]_vars, \A h \in Holders : ~ Save(h)
    PROVE  sector' = sector
<1>1. ASSUME NEW h \in Holders, LoadCorrupt(h) PROVE sector' = sector
  BY <1>1 DEF LoadCorrupt
<1>2. Crash => sector' = sector
  BY DEF Crash, diskVars
<1> QED BY <1>1, <1>2, ViewsKept

LEMMA CorruptStep ==
    ASSUME SizesFit, IInv, OneLiveHolder, CorruptIsCorrupt, [Next]_vars
    PROVE  CorruptIsCorrupt'
<1> SUFFICES ASSUME NEW g \in Holders, phase'[g] = "decoding"
             PROVE  /\ Fits(expected'[g]) /\ Exists(expected'[g])
                    /\ data'[g] = Garbage => \A v \in 1 .. MaxVersion :
                           ~ Holds(expected[g], RegionOf[ChunkOf[g]], ChunkOf[g], v)'
  BY DEF CorruptIsCorrupt
<1>1. CASE LoadRead(g)
  BY <1>1, ReadCorrupt DEF Holds
<1>2. CASE ~ LoadRead(g)
  <2>1. /\ phase[g] = "decoding" /\ data'[g] = data[g] /\ expected'[g] = expected[g]
        /\ \A h \in Holders : Save(h) => ChunkOf[h] # ChunkOf[g]
    BY <1>2, DecodingUndisturbed
  <2>2. /\ Fits(expected[g]) /\ Exists(expected[g]) /\ expected[g] \in Entries
        /\ ChunkOf[g] \in Chunks
        /\ data[g] = Garbage => \A v \in 1 .. MaxVersion :
               ~ Holds(expected[g], RegionOf[ChunkOf[g]], ChunkOf[g], v)
    BY <2>1, RegionAssumption DEF CorruptIsCorrupt, IInv, TypeOK
  <2>3. ASSUME NEW v \in 1 .. MaxVersion, Holds(expected[g], RegionOf[ChunkOf[g]], ChunkOf[g], v)'
        PROVE  Holds(expected[g], RegionOf[ChunkOf[g]], ChunkOf[g], v)
    <3> DEFINE e == expected[g]
               d == ChunkOf[g]
    <3>1. \A i \in 0 .. (e.size - 1) : sector'[RegionOf[d]][e.off + i] = Part(d, v, i, e.size)
      BY <2>1, <2>3 DEF Holds
    <3>2. CASE \A h \in Holders : ~ Save(h)
      BY <3>1, <3>2, SectorsOnlyBySave DEF Holds
    <3>3. ASSUME NEW h \in Holders, Save(h) PROVE Holds(e, RegionOf[d], d, v)
      <4>1. PICK f \in Entries : f = e
        BY <2>2
      <4>2. /\ d # ChunkOf[h] /\ d \in Chunks /\ Fits(f) /\ Exists(f) /\ v \in Nat /\ TypeOK
            /\ \A i \in 0 .. (f.size - 1) : sector'[RegionOf[d]][f.off + i] = Part(d, v, i, f.size)
        BY <2>1, <2>2, <3>1, <3>3, <4>1 DEF IInv
      <4> HIDE DEF d, e
      <4>3. Holds(f, RegionOf[d], d, v)
        BY <3>3, <4>2, NoCopyAppears DEF Holds
      <4> QED BY <4>1, <4>3
    <3> QED BY <3>2, <3>3
  <2> QED BY <2>1, <2>2, <2>3
<1> QED BY <1>1, <1>2

(* Once the world has stopped no holder is loading: cleanup joined them.   *)
NoLoadsAfterStop == stopped => \A h \in Holders : phase[h] \notin {"acquired", "decoding"}

LEMMA StopStep ==
    ASSUME TypeOK, NoLoadsAfterStop, [Next]_vars
    PROVE  NoLoadsAfterStop'
<1> SUFFICES ASSUME stopped', NEW g \in Holders, phase'[g] \in {"acquired", "decoding"}
             PROVE  FALSE
  BY DEF NoLoadsAfterStop
<1>1. ASSUME NEW h \in Holders, AcquireChunk(h) \/ LoadNothing(h) \/ LoadRead(h) PROVE FALSE
  BY <1>1 DEF AcquireChunk, LoadNothing, LoadRead, NoLoadsAfterStop, TypeOK
<1>2. ASSUME NEW h \in Holders, LoadFails(h) \/ LoadDecoded(h) \/ LoadCorrupt(h) PROVE FALSE
  BY <1>2 DEF LoadFails, LoadDecoded, LoadCorrupt, NoLoadsAfterStop, TypeOK
<1>3. ASSUME NEW h \in Holders, Retire(h) \/ ReleaseChunk(h) PROVE FALSE
  BY <1>3 DEF Retire, ReleaseChunk, NoLoadsAfterStop, TypeOK
<1>4. ASSUME NEW h \in Holders, Save(h) PROVE FALSE
  BY <1>4 DEF Save, SaveIntoOpenRegion, SaveIntoClosedRegion, SaveFails, WriteChunkData, holderVars,
              NoLoadsAfterStop
<1>5. CloseAll \/ Cleanup \/ UNCHANGED vars => FALSE
  BY DEF CloseAll, Cleanup, vars, holderVars, NoLoadsAfterStop
<1>6. Crash => FALSE
  BY DEF Crash
<1> QED BY <1>1, <1>2, <1>3, <1>4, <1>5, <1>6 DEF Next

(* As long as nothing saves the world while it is played: a holder that    *)
(* was told its chunk is on disk never comes up with regenerated terrain   *)
(* while an intact copy is there, also in a region a crash found behind.   *)
(* Its region cannot be closed under it (ReferencesCounted), and a payload *)
(* it found corrupt still is when its slot is cleared.                     *)
THEOREM SavedIsNeverRegenerated ==
    ASSUME SizesFit, ~ LiveSave
    PROVE  Spec => NeverRegeneratesSaved
<1> DEFINE Inv == IInv /\ OneLiveHolder /\ CorruptIsCorrupt /\ NoLoadsAfterStop
           A == \A h \in Holders :
                    /\ phase[h] \in {"acquired", "decoding"} /\ phase'[h] = "loaded"
                    /\ Exists(View(ChunkOf[h]))
                    /\ \E v \in 1 .. MaxVersion :
                           Holds(View(ChunkOf[h]), RegionOf[ChunkOf[h]], ChunkOf[h], v)
                    => phase[h] = "decoding" /\ data[h] # Garbage
<1>1. Init => Inv
  <2> SUFFICES ASSUME Init PROVE OneLiveHolder /\ CorruptIsCorrupt /\ NoLoadsAfterStop
    BY InitIInv
  <2> QED BY DEF Init, OneLiveHolder, CorruptIsCorrupt, NoLoadsAfterStop, Live
<1>2. Inv /\ [Next]_vars => Inv'
  BY InvariantStep, OneLiveStep, CorruptStep, StopStep DEF IInv
<1>3. Inv /\ ReferencesCounted /\ [Next]_vars => [A]_vars
  <2> SUFFICES ASSUME Inv, ReferencesCounted, Next, NEW h \in Holders,
                      phase[h] \in {"acquired", "decoding"}, phase'[h] = "loaded",
                      Exists(View(ChunkOf[h])), NEW v \in 1 .. MaxVersion,
                      Holds(View(ChunkOf[h]), RegionOf[ChunkOf[h]], ChunkOf[h], v)
               PROVE  phase[h] = "decoding" /\ data[h] # Garbage
    OBVIOUS
  <2> DEFINE r == RegionOf[ChunkOf[h]]
  <2>1. r \in open /\ View(ChunkOf[h]) = header[ChunkOf[h]]
    <3>1. h \in Using(r) /\ ~ stopped /\ r \in Regions
      BY RegionAssumption DEF Using, NoLoadsAfterStop
    <3> QED BY <3>1 DEF ReferencesCounted, View
  <2>2. ~ LoadNothing(h)
    BY <2>1 DEF LoadNothing
  <2>3. ~ LoadCorrupt(h)
    BY <2>1 DEF LoadCorrupt, CorruptIsCorrupt
  <2>4. LoadDecoded(h)
    <3>0. TypeOK
      BY DEF IInv
    <3>1. ASSUME NEW g \in Holders, AcquireChunk(g) \/ LoadNothing(g) \/ LoadRead(g) PROVE FALSE
      BY <2>2, <3>0, <3>1 DEF AcquireChunk, LoadNothing, LoadRead, TypeOK
    <3>2. ASSUME NEW g \in Holders, LoadFails(g) \/ LoadDecoded(g) \/ LoadCorrupt(g) PROVE LoadDecoded(h)
      BY <2>3, <3>0, <3>2 DEF LoadFails, LoadDecoded, LoadCorrupt, TypeOK
    <3>3. ASSUME NEW g \in Holders, Retire(g) \/ ReleaseChunk(g) PROVE FALSE
      BY <3>0, <3>3 DEF Retire, ReleaseChunk, TypeOK
    <3>4. ASSUME NEW g \in Holders, Save(g) PROVE FALSE
      BY <3>4 DEF Save, SaveIntoOpenRegion, SaveIntoClosedRegion, SaveFails, WriteChunkData, holderVars
    <3>5. CloseAll \/ Cleanup => FALSE
      BY DEF CloseAll, Cleanup, holderVars
    <3>6. Crash => FALSE
      BY DEF Crash
    <3> QED BY <3>1, <3>2, <3>3, <3>4, <3>5, <3>6 DEF Next
  <2> QED BY <2>4 DEF LoadDecoded
<1> HIDE DEF Inv
<1> QED BY <1>1, <1>2, <1>3, ReferencesAreCounted, PTL DEF Spec, NeverRegeneratesSaved
=============================================================================
